--------------------------- MODULE SessionsProofs ---------------------------
(***************************************************************************)
(* Theorems about Sessions, for any number of browsers, requests, links,    *)
(* visits and faults: the first visit of a sign-in link is accepted, a session *)
(* that was used slides, and the types are kept.  The steps of Next come in few kinds       *)
(* (Browses, Served, Delivers, and time); the lemmas show first that every  *)
(* action is of its kind, then what each kind keeps.                        *)
(***************************************************************************)
EXTENDS Sessions, FiniteSetTheorems, TLAPS

(* What the variables hold, as far as the proofs below look at them. *)
RequestFields == {"stage", "kind", "by", "token", "fresh", "seen", "issued", "status", "of", "clean"}
TabFields == {"user", "loading", "page", "at", "asked", "failed"}
IsToken(t) == t = NoToken \/ t \in [version: Nat, age: {"young", "old"}]
IsYoung(t) == t = NoToken \/ t \in [version: Nat, age: {"young"}]
IsRequest(q) ==
  /\ q = [field \in RequestFields |-> q[field]]
  /\ q.stage # "idle" => q.by \in Browsers
  /\ IsYoung(q.fresh) /\ IsYoung(q.issued)
  /\ q.stage = "idle" => q.of = {}
IsTab(t) == t = [field \in TabFields |-> t[field]]
Shaped ==
  /\ req = [r \in Requests |-> req[r]] /\ \A r \in Requests : IsRequest(req[r])
  /\ tab = [b \in Browsers |-> tab[b]] /\ \A b \in Browsers : IsTab(tab[b])
  /\ cookie = [b \in Browsers |-> cookie[b]] /\ \A b \in Browsers : IsToken(cookie[b])
  /\ active \subseteq Browsers
  /\ visits \in [Links -> Nat] /\ link \in [Links -> {"valid", "expired", "gone"}]
  /\ version \in Nat /\ faults \in Nat /\ cache \in Nat

-----------------------------------------------------------------------------
(* Sliding. *)
Old(t) == t # NoToken /\ t.age = "old"
(* A session that is over: nothing has to keep its token.                   *)
Ended(t) == deleted \/ t.version # version

(* No token is newer than the account, and an old cookie is no newer than    *)
(* what is cached or about to be, so that a refresh which is refused to it   *)
(* is refused for good.                                                     *)
Filling == {"fill", "refill"}
Past(t) == t # NoToken => t.version <= version
NotAhead ==
  /\ \A b \in Browsers : Past(cookie[b])
  /\ \A r \in Requests : Past(req[r].fresh) /\ Past(req[r].issued)
  /\ cache <= version
  /\ \A r \in Requests : req[r].stage \in Filling => req[r].seen \in Nat /\ req[r].seen <= version
  /\ \A b \in Browsers : Old(cookie[b]) =>
       /\ cache = 0 \/ cookie[b].version <= cache
       /\ \A r \in Requests : req[r].stage \in Filling => cookie[b].version <= req[r].seen

(* A request of a browser whose cookie is old has slid it, or is about to    *)
(* try, or was kept from it.                                                *)
Slides(q, t, ended) ==
  \/ q.fresh # NoToken
  \/ /\ q.token = t
     /\ q.stage \in Exchanging \/ ~q.clean \/ q.kind \in {"logout", "leave"} \/ ended
Sliding ==
  /\ \A r \in Requests : LET q == req[r] IN
       q.stage # "idle" /\ Old(cookie[q.by]) => Slides(q, cookie[q.by], Ended(cookie[q.by]))
  /\ \A b \in active : Old(cookie[b]) => Ended(cookie[b])

-----------------------------------------------------------------------------
(* Sign-in links: a tab on the page of a link has no requests but its own    *)
(* and verifies the link in its address, once (Tells, Reads); the tabs and   *)
(* requests of a link that was opened once are one (OpenedOnce), and that    *)
(* request is on its way to succeed, if the link has not expired (Works).    *)
Tells(q, t) ==
  /\ q.of # {} => q.kind = "verify" /\ \E l \in Links : q.of = {l}
  /\ q.stage # "idle" /\ t.page = "link" =>
       /\ q.kind \in {"me", "verify"}
       /\ q.kind = "verify" => q.of = t.at
Reads(t) ==
  IF t.page = "link" THEN \E l \in Links : t.at = {l} /\ t.asked \in {{}, {l}}
  ELSE t.at = {}
Linked ==
  /\ \A r \in Requests : Tells(req[r], tab[req[r].by])
  /\ \A b \in Browsers : Reads(tab[b])

(* The tabs and the requests of a link that was not opened, or opened once. *)
At(l) == {b \in Browsers : tab[b].at = {l}}
Of(l) == {r \in Requests : req[r].of = {l}}
Unopened(l) == link[l] # "gone" /\ At(l) = {} /\ Of(l) = {}
OpenedOnce(l) ==
  /\ \A b, c \in At(l) : b = c
  /\ \A r, s \in Of(l) : r = s
  /\ \A b \in At(l) : tab[b].asked = {} => link[l] # "gone" /\ Of(l) = {}
Verifying(q, l) ==
  \/ q.stage \in Exchanging \union {"run"} /\ link[l] # "gone"
  \/ q.stage \in {"consume", "mint"}
  \/ q.stage = "answer" /\ (q.status = "ok" \/ link[l] = "expired")
Works(l) ==
  /\ \A b \in At(l) : tab[b].failed => link[l] = "expired" /\ Of(l) = {} /\ tab[b].asked # {}
  /\ \A r \in Of(l) : Verifying(req[r], l)
Opened ==
  \A l \in Links : /\ visits[l] = 0 => Unopened(l)
                   /\ visits[l] = 1 => OpenedOnce(l)
                   /\ visits[l] = 1 /\ ~deleted /\ faults = 0 => Works(l)

-----------------------------------------------------------------------------
(* What the steps do to the requests. *)
Alters(r) ==
  /\ req' = [s \in Requests |-> req'[s]]
  /\ \A s \in Requests \ {r} : req'[s] = req[s]
  /\ req'[r] = [field \in RequestFields |-> req'[r][field]]

LEMMA RequestShape ==
  ASSUME Shaped, NEW r \in Requests
  PROVE  /\ req = [s \in Requests |-> req[s]]
         /\ req[r] = [field \in RequestFields |-> req[r][field]]
         /\ req[r].stage # "idle" => req[r].by \in Browsers
         /\ IsYoung(req[r].fresh) /\ IsYoung(req[r].issued)
BY DEF Shaped, IsRequest

LEMMA MintedIs ==
  ASSUME version \in Nat
  PROVE  Minted # NoToken /\ IsYoung(Minted) /\ ~Old(Minted)
<1>1. Minted \in [version: Nat, age: {"young"}] /\ Minted \in [version: Nat, age: {"young", "old"}]
  BY DEF Minted
<1>2. Minted.age = "young"
  BY DEF Minted
<1> QED
  BY <1>1, <1>2, SessionsAssumption DEF IsYoung, Old

LEMMA IdleIs ==
  /\ Idle = [field \in RequestFields |-> Idle[field]]
  /\ Idle.stage = "idle" /\ Idle.of = {} /\ Idle.fresh = NoToken /\ Idle.issued = NoToken
BY DEF Idle, RequestFields

(* A request leaves its browser. *)
Sent(r, b, k, ls) ==
  /\ req[r].stage = "idle" /\ Alters(r)
  /\ req'[r].kind = k /\ req'[r].by = b /\ req'[r].token = cookie[b] /\ req'[r].of = ls
  /\ req'[r].fresh = NoToken /\ req'[r].issued = NoToken /\ req'[r].stage # "idle"
  /\ req'[r].stage \notin Filling
  /\ k # "logout" /\ Old(cookie[b]) => req'[r].stage = "proxy"
  /\ k = "verify" => req'[r].stage \in Exchanging \union {"run"}

LEMMA BeginIs ==
  ASSUME Shaped, NEW r \in Requests, NEW b, NEW k, NEW ls, Begin(r, b, k, ls)
  PROVE  Sent(r, b, k, ls)
<1> DEFINE stage == IF k = "logout" THEN "answer"
                    ELSE IF cookie[b] # NoToken /\ cookie[b].age = "old" THEN "proxy" ELSE Beyond(k)
           status == IF k = "logout" THEN "ok" ELSE "none"
<1>1. /\ req' = [req EXCEPT ![r] = [Idle EXCEPT !.kind = k, !.by = b, !.token = cookie[b], !.of = ls,
                                                !.stage = stage, !.status = status]]
      /\ req[r].stage = "idle"
  BY DEF Begin
<1>2. /\ stage # "idle" /\ stage \notin Filling
      /\ k # "logout" /\ Old(cookie[b]) => stage = "proxy"
      /\ k = "verify" => stage \in Exchanging \union {"run"}
  BY DEF Beyond, Public, Old, Exchanging, Filling
<1> HIDE DEF stage, status
<1>3. /\ Alters(r) /\ req'[r].stage = stage
      /\ req'[r].kind = k /\ req'[r].by = b /\ req'[r].token = cookie[b] /\ req'[r].of = ls
      /\ req'[r].fresh = NoToken /\ req'[r].issued = NoToken
  BY <1>1, RequestShape DEF Alters, Idle, RequestFields
<1> QED
  BY <1>1, <1>2, <1>3 DEF Sent

Opens(b, page, ls) ==
  /\ OpenOf(b) = {} /\ tab' = [tab EXCEPT ![b] = Mounted(page, ls)]
  /\ \/ page = "home" /\ ls = {} /\ UNCHANGED visits
     \/ page = "link" /\ \E l \in Links : ls = {l} /\ visits' = [visits EXCEPT ![l] = @ + 1]
Browses(b, r) ==
  /\ UNCHANGED <<version, deleted, cache, link, cookie, faults, active>>
  /\ \/ /\ Sent(r, b, "me", {}) /\ \E page, ls : Opens(b, page, ls)
     \/ /\ Sent(r, b, "verify", tab[b].at) /\ tab[b].page = "link" /\ tab[b].asked # tab[b].at
        /\ tab' = [tab EXCEPT ![b].asked = tab[b].at] /\ UNCHANGED visits
     \/ /\ \E k : k # "verify" /\ Sent(r, b, k, {})
        /\ tab[b].page # "link" /\ UNCHANGED visits
        /\ tab' = tab \/ tab' = [tab EXCEPT ![b].loading = TRUE]

LEMMA BrowseIs ==
  ASSUME Shaped, NEW b \in Browsers, NEW r \in Requests, Browse(b, r)
  PROVE  Browses(b, r)
<1>1. CASE Open(b, r)
  <2>1. Opens(b, "home", {}) /\ Sent(r, b, "me", {})
    BY <1>1, BeginIs DEF Open, Mount, Opens
  <2> QED
    BY <1>1, <2>1 DEF Open, Mount, Browses
<1>2. ASSUME NEW l \in Links, OpenLink(b, r, l) PROVE Browses(b, r)
  <2>1. Opens(b, "link", {l}) /\ Sent(r, b, "me", {})
    BY <1>2, BeginIs DEF OpenLink, Mount, Opens
  <2> QED
    BY <1>2, <2>1 DEF OpenLink, Mount, Browses
<1>3. CASE VerifyEffect(b, r)
  BY <1>3, BeginIs DEF VerifyEffect, Browses
<1>4. CASE SubmitLogin(b, r)
  BY <1>4, BeginIs DEF SubmitLogin, Browses
<1>5. CASE SubmitReset(b, r)
  BY <1>5, BeginIs DEF SubmitReset, Browses
<1>6. ASSUME NEW k, UsePage(b, r, k) PROVE Browses(b, r)
  <2>1. Sent(r, b, k, {}) /\ k # "verify"
    BY <1>6, BeginIs DEF UsePage
  <2> QED
    BY <1>6, <2>1 DEF UsePage, Browses
<1> QED
  BY <1>1, <1>2, <1>3, <1>4, <1>5, <1>6 DEF Browse

(* The backend or the proxy works on a request; its exchange is refused when *)
(* the account is gone or its version is not the one that counts.           *)
Judge(r) == IF req[r].stage = "refill" THEN req[r].seen ELSE cache
Grows(r) ==
  \/ UNCHANGED version
  \/ version' = version + 1 /\ UNCHANGED cache /\ req'[r].stage \notin Filling
Tried(r) ==
  \/ req'[r].fresh # NoToken \/ ~req'[r].clean \/ req'[r].stage \in Exchanging
  \/ deleted
  \/ /\ req[r].stage = "refill" \/ cache # 0
     /\ (req[r].token # NoToken => req[r].token.version # Judge(r))
  \/ req[r].token = NoToken
Caches(r) ==
  \/ UNCHANGED cache
  \/ req[r].stage \in Filling /\ cache' = req[r].seen
Verifies(r) ==
  \/ /\ req[r].stage \in Exchanging /\ req'[r].stage \in Exchanging \union {"run"}
     /\ UNCHANGED link
  \/ /\ req[r].stage = "run" /\ UNCHANGED link
     /\ IF \A l \in req[r].of : link[l] = "valid" THEN req'[r].stage = "consume"
        ELSE req'[r].stage = "answer"
  \/ req[r].stage = "consume" /\ req'[r].stage = "mint"
  \/ req[r].stage = "mint" /\ req'[r].stage = "answer" /\ req'[r].status = "ok"
  \/ req[r].stage \in {"auth", "fill", "bump"}
Served(r) ==
  /\ Alters(r) /\ req[r].stage \notin {"idle", "answer"} /\ req'[r].stage \notin {"idle", "proxy"}
  /\ req'[r].kind = req[r].kind /\ req'[r].by = req[r].by /\ req'[r].of = req[r].of
  /\ UNCHANGED <<tab, cookie, active, visits>>
  /\ Grows(r) /\ (deleted => deleted') /\ (faults' = faults \/ faults' = faults + 1)
  /\ Caches(r) /\ cache' \in Nat
  /\ req'[r].stage \in Filling => req'[r].seen = version
  /\ \/ req'[r].token = req[r].token /\ req'[r].fresh = req[r].fresh
     \/ req[r].stage = "exchange" /\ req'[r].fresh = Minted
  /\ req'[r].issued \in {req[r].issued, Minted}
  /\ ~req[r].clean => ~req'[r].clean
  /\ req[r].stage \in Exchanging => Tried(r)
  /\ \/ UNCHANGED link
     \/ /\ req[r].stage = "consume"
        /\ link' = [l \in Links |-> IF l \in req[r].of THEN "gone" ELSE link[l]]
  /\ req[r].kind = "verify" /\ faults' = faults /\ ~deleted => Verifies(r)

LEMMA MoveIs ==
  ASSUME Shaped, NEW r \in Requests, NEW s, Move(r, s)
  PROVE  /\ Alters(r) /\ req'[r].stage = s
         /\ \A field \in RequestFields \ {"stage"} : req'[r][field] = req[r][field]
BY RequestShape DEF Move, Alters, RequestFields

LEMMA ReplyIs ==
  ASSUME Shaped, NEW r \in Requests, NEW s, Reply(r, s)
  PROVE  /\ Alters(r) /\ req'[r].stage = "answer" /\ req'[r].status = s
         /\ \A field \in RequestFields \ {"stage", "status"} : req'[r][field] = req[r][field]
BY RequestShape DEF Reply, Alters, RequestFields

LEMMA IssueIs ==
  ASSUME Shaped, NEW r \in Requests, Issue(r)
  PROVE  /\ Alters(r) /\ req'[r].stage = "answer" /\ req'[r].status = "ok" /\ req'[r].issued = Minted
         /\ \A field \in RequestFields \ {"stage", "status", "issued"} : req'[r][field] = req[r][field]
<1> DEFINE m == Minted
<1>1. req' = [req EXCEPT ![r].stage = "answer", ![r].status = "ok", ![r].issued = m]
  BY DEF Issue
<1> HIDE DEF m
<1> QED
  BY <1>1, RequestShape DEF Alters, RequestFields, m

(* Keeps(r) is what most steps do. *)
Keeps(r) ==
  /\ Alters(r)
  /\ \A field \in {"kind", "by", "of", "token", "fresh"} : req'[r][field] = req[r][field]
  /\ req'[r].issued \in {req[r].issued, Minted}
  /\ ~req[r].clean => ~req'[r].clean
  /\ req[r].stage \notin Exchanging \union {"idle", "answer"}
  /\ req'[r].stage \notin Exchanging \union {"idle", "fill"}
  /\ UNCHANGED <<tab, cookie, active, visits>>

LEMMA KeptIs ==
  ASSUME Shaped, NEW r \in Requests, Keeps(r), UNCHANGED <<version, cache>>, deleted => deleted',
         faults' = faults \/ faults' = faults + 1, UNCHANGED link,
         req[r].kind = "verify" /\ faults' = faults /\ ~deleted => Verifies(r)
  PROVE  Served(r)
<1>1. cache' \in Nat
  BY DEF Shaped
<1> QED
  BY <1>1 DEF Keeps, Served, Grows, Caches, Exchanging, Filling

LEMMA FaultIs ==
  ASSUME Shaped, NEW f, Fault(f)
  PROVE  faults' = faults + 1 /\ faults' # faults
BY DEF Fault, Shaped

LEMMA BeyondIs ==
  ASSUME NEW k
  PROVE  Beyond(k) \in {"run", "auth"} /\ (k = "verify" => Beyond(k) = "run")
BY DEF Beyond, Public

(* The middleware refuses: an exchange is over, and a request is answered.   *)
LEMMA RefuseIs ==
  ASSUME Shaped, NEW r \in Requests, Refuse(r)
  PROVE  /\ Alters(r)
         /\ req'[r].stage = IF req[r].stage \in Exchanging THEN Beyond(req[r].kind) ELSE "answer"
         /\ \A field \in RequestFields \ {"stage", "status"} : req'[r][field] = req[r][field]
BY ReplyIs, MoveIs DEF Refuse

LEMMA AuthenticateIs == ASSUME Shaped, NEW r \in Requests, Authenticate(r) PROVE Served(r)
<1>1. /\ req[r].stage \in {"proxy", "auth"}
      /\ UNCHANGED <<version, deleted, cache, link, cookie, tab, active, visits>>
  BY DEF Authenticate
<1>2. cache' \in Nat /\ (Admit(r) = IF req[r].stage = "proxy" THEN "exchange" ELSE "run")
  BY <1>1 DEF Shaped, Admit, Exchanging
<1>3. CASE /\ Refuse(r) /\ UNCHANGED faults
           /\ \/ req[r].token = NoToken \/ deleted
              \/ Fresh /\ ~Accepts(req[r].token, cache)
  <2>1. req[r].stage = "proxy" => Tried(r)
    BY <1>3 DEF Tried, Judge, Fresh, Accepts
  <2> QED
    BY <1>1, <1>2, <1>3, <2>1, RefuseIs, BeyondIs
       DEF Served, Grows, Caches, Verifies, RequestFields, Exchanging, Filling
<1>4. CASE Move(r, Admit(r)) /\ UNCHANGED faults
  BY <1>1, <1>2, <1>4, MoveIs
     DEF Served, Grows, Caches, Verifies, RequestFields, Exchanging, Filling, Tried
<1>5. CASE /\ req' = [req EXCEPT ![r].seen = version,
                                 ![r].stage = IF @ = "proxy" THEN "refill" ELSE "fill"]
           /\ UNCHANGED faults
  <2> DEFINE stage == IF req[r].stage = "proxy" THEN "refill" ELSE "fill"
  <2>1. stage \in Filling /\ (req[r].stage = "proxy" <=> stage = "refill")
    BY DEF Filling
  <2>2. req' = [req EXCEPT ![r].seen = version, ![r].stage = stage]
    BY <1>5
  <2> HIDE DEF stage
  <2>3. /\ Alters(r) /\ req'[r].stage = stage /\ req'[r].seen = version
        /\ \A field \in RequestFields \ {"stage", "seen"} : req'[r][field] = req[r][field]
    BY <2>2, RequestShape DEF Alters, RequestFields
  <2> QED
    BY <1>1, <1>2, <1>5, <2>1, <2>3
       DEF Served, Grows, Caches, Verifies, RequestFields, Exchanging, Filling, Tried
<1>6. CASE Fault("db") /\ req' = [req EXCEPT ![r].stage = Admit(r), ![r].clean = FALSE]
  <2> DEFINE stage == Admit(r)
  <2>1. req' = [req EXCEPT ![r].stage = stage, ![r].clean = FALSE]
    BY <1>6
  <2>2. stage \in {"exchange", "run"}
    BY <1>2
  <2> HIDE DEF stage
  <2>3. /\ Alters(r) /\ req'[r].stage = stage /\ ~req'[r].clean
        /\ \A field \in RequestFields \ {"stage", "clean"} : req'[r][field] = req[r][field]
    BY <2>1, RequestShape DEF Alters, RequestFields
  <2>4. faults' = faults + 1 /\ faults' # faults
    BY <1>6, FaultIs
  <2> QED
    BY <1>1, <1>2, <2>2, <2>3, <2>4
       DEF Served, Grows, Caches, RequestFields, Exchanging, Filling, Tried
<1> QED
  BY <1>3, <1>4, <1>5, <1>6 DEF Authenticate

LEMMA FillCacheIs == ASSUME Shaped, NotAhead, NEW r \in Requests, FillCache(r) PROVE Served(r)
<1> DEFINE accepts == Accepts(req[r].token, req[r].seen)
           refused == IF req[r].stage = "fill" THEN "answer" ELSE Beyond(req[r].kind)
           stage == IF accepts THEN Admit(r) ELSE refused
           status == IF ~accepts /\ refused = "answer" THEN "refused" ELSE req[r].status
<1>1. /\ req[r].stage \in Filling /\ cache' = req[r].seen
      /\ req' = [req EXCEPT ![r].seen = 0, ![r].stage = stage, ![r].status = status]
      /\ UNCHANGED <<version, deleted, link, cookie, tab, faults, active, visits>>
  BY DEF FillCache, Filling
<1>2. /\ req[r].stage = "fill" => stage \in {"run", "answer"}
      /\ req[r].stage = "refill" => stage = "exchange" \/ (~accepts /\ stage = Beyond(req[r].kind))
  BY DEF Admit, Exchanging
<1> HIDE DEF stage, status
<1>3. /\ Alters(r) /\ req'[r].stage = stage
      /\ \A field \in RequestFields \ {"stage", "seen", "status"} : req'[r][field] = req[r][field]
  BY <1>1, RequestShape DEF Alters, RequestFields
<1>4. cache' = req[r].seen /\ cache' \in Nat
  BY <1>1 DEF NotAhead
<1>5. req[r].stage = "refill" => Tried(r)
  BY <1>2, <1>3 DEF Tried, Judge, Exchanging, Accepts
<1>6. stage \notin Filling /\ stage \notin {"idle", "proxy"}
  BY <1>1, <1>2, BeyondIs DEF Filling
<1> QED
  BY <1>1, <1>2, <1>3, <1>4, <1>5, <1>6, BeyondIs
     DEF Served, Grows, Caches, Verifies, RequestFields, Exchanging, Filling

LEMMA RefreshIs ==
  ASSUME Shaped, NEW r \in Requests, Refresh(r) \/ RefreshFails(r)
  PROVE  Served(r)
<1> DEFINE next == Beyond(req[r].kind)
           m == Minted
<1>1. /\ UNCHANGED <<version, deleted, cache, link, cookie, tab, active, visits>>
      /\ next \in {"run", "auth"} /\ (req[r].kind = "verify" => next = "run")
      /\ m # NoToken /\ cache' \in Nat
  BY BeyondIs, MintedIs DEF Refresh, RefreshFails, Shaped
<1>2. CASE Refresh(r) /\ ~deleted
  <2>1. /\ req[r].stage = "exchange" /\ UNCHANGED faults
        /\ req' = [req EXCEPT ![r].stage = next, ![r].token = m, ![r].fresh = m]
    BY <1>2 DEF Refresh
  <2> HIDE DEF m, next
  <2>2. /\ Alters(r) /\ req'[r].stage = next /\ req'[r].fresh = m
        /\ \A field \in RequestFields \ {"stage", "token", "fresh"} : req'[r][field] = req[r][field]
    BY <2>1, RequestShape DEF Alters, RequestFields
  <2> QED
    BY <1>1, <2>1, <2>2 DEF Served, Grows, Caches, Tried, Verifies, RequestFields, m, Exchanging, Filling
<1>3. CASE Refresh(r) /\ deleted
  <2>1. req[r].stage = "exchange" /\ UNCHANGED faults /\ Move(r, next)
    BY <1>3 DEF Refresh
  <2> QED
    BY <1>1, <1>3, <2>1, MoveIs DEF Served, Grows, Caches, Tried, Verifies, RequestFields, Exchanging, Filling
<1>4. CASE RefreshFails(r)
  <2>1. /\ req[r].stage \in {"proxy", "exchange"} /\ Fault("refresh")
        /\ req' = [req EXCEPT ![r].stage = next, ![r].clean = FALSE]
    BY <1>4 DEF RefreshFails
  <2> HIDE DEF next
  <2>2. /\ Alters(r) /\ req'[r].stage = next /\ ~req'[r].clean
        /\ \A field \in RequestFields \ {"stage", "clean"} : req'[r][field] = req[r][field]
    BY <2>1, RequestShape DEF Alters, RequestFields
  <2>3. faults' = faults + 1 /\ faults' # faults
    BY <2>1, FaultIs
  <2> QED
    BY <1>1, <2>1, <2>2, <2>3 DEF Served, Grows, Caches, Tried, RequestFields, Exchanging, Filling
<1> QED
  BY <1>2, <1>3, <1>4

LEMMA HandledIs ==
  ASSUME Shaped, NEW r \in Requests,
         \/ Serve(r) \/ Login(r) \/ ValidateLink(r) \/ AuthenticateUserByID(r)
         \/ BackendFails(r) \/ BumpIsLost(r) \/ DeleteUser(r)
  PROVE  Served(r)
<1> USE DEF RequestFields, Verifies, Exchanging
<1>1. CASE Serve(r)
  <2>1. PICK s : Reply(r, s)
    BY <1>1 DEF Serve
  <2>2. Keeps(r)
    BY <1>1, <2>1, ReplyIs DEF Serve, Keeps
  <2> QED
    BY <1>1, <2>2, KeptIs DEF Serve
<1>2. CASE Login(r)
  <2>1. Keeps(r)
    BY <1>2, ReplyIs, IssueIs DEF Login, Keeps
  <2> QED
    BY <1>2, <2>1, KeptIs DEF Login
<1>3. CASE ValidateLink(r)
  <2>1. Keeps(r)
    BY <1>3, ReplyIs, MoveIs DEF ValidateLink, Keeps
  <2>2. IF \A l \in req[r].of : link[l] = "valid" THEN req'[r].stage = "consume"
        ELSE req'[r].stage = "answer"
    BY <1>3, MoveIs, ReplyIs DEF ValidateLink
  <2> QED
    BY <1>3, <2>1, <2>2, KeptIs DEF ValidateLink
<1>4. CASE AuthenticateUserByID(r)
  <2>1. Keeps(r)
    BY <1>4, ReplyIs, IssueIs DEF AuthenticateUserByID, Keeps
  <2>2. ~deleted => req'[r].stage = "answer" /\ req'[r].status = "ok"
    BY <1>4, IssueIs DEF AuthenticateUserByID
  <2> QED
    BY <1>4, <2>1, <2>2, KeptIs DEF AuthenticateUserByID
<1>5. CASE BackendFails(r)
  <2>1. /\ Alters(r) /\ req'[r].stage = "answer" /\ ~req'[r].clean
        /\ \A field \in RequestFields \ {"stage", "status", "clean"} : req'[r][field] = req[r][field]
    BY <1>5, RequestShape DEF BackendFails, Alters
  <2>2. Keeps(r) /\ faults' = faults + 1 /\ faults' # faults
    BY <1>5, <2>1, FaultIs DEF BackendFails, Keeps
  <2> QED
    BY <1>5, <2>2, KeptIs DEF BackendFails
<1>6. CASE BumpIsLost(r)
  <2>1. Keeps(r) /\ faults' = faults + 1 /\ faults' # faults
    BY <1>6, ReplyIs, MoveIs, FaultIs DEF BumpIsLost, Keeps
  <2> QED
    BY <1>6, <2>1, KeptIs DEF BumpIsLost
<1>7. CASE DeleteUser(r)
  <2>1. Keeps(r) /\ req[r].kind # "verify"
    BY <1>7, MoveIs DEF DeleteUser, Keeps
  <2> QED
    BY <1>7, <2>1, KeptIs DEF DeleteUser
<1> QED
  BY <1>1, <1>2, <1>3, <1>4, <1>5, <1>6, <1>7

LEMMA BumpIs ==
  ASSUME Shaped, NEW r \in Requests, CheckPassword(r) \/ BumpTokenVersion(r)
  PROVE  Served(r)
<1> USE DEF RequestFields, Exchanging
<1>1. /\ Keeps(r) /\ (req[r].kind = "verify" => req[r].stage = "bump")
      /\ UNCHANGED <<deleted, cache, link, faults>>
      /\ version' = version \/ version' = version + 1
  BY ReplyIs, MoveIs DEF CheckPassword, BumpTokenVersion, Keeps
<1>2. cache' \in Nat
  BY <1>1 DEF Shaped
<1> QED
  BY <1>1, <1>2 DEF Keeps, Served, Grows, Caches, Verifies, Filling

LEMMA ConsumeIs == ASSUME Shaped, NEW r \in Requests, ConsumeLink(r) PROVE Served(r)
<1>1. Keeps(r) /\ req[r].stage = "consume" /\ req'[r].stage = "mint"
      /\ link' = [l \in Links |-> IF l \in req[r].of THEN "gone" ELSE link[l]]
      /\ UNCHANGED <<version, deleted, cache, faults>>
  BY MoveIs DEF ConsumeLink, Keeps, RequestFields, Exchanging
<1>2. cache' \in Nat
  BY <1>1 DEF Shaped
<1> QED
  BY <1>1, <1>2 DEF Keeps, Served, Grows, Caches, Verifies, Filling, Exchanging

(* The steps of Next, as the proofs below tell them apart. *)
LEMMA SessionSteps ==
  ASSUME Shaped, NotAhead, [Next]_vars
  PROVE  \/ \E b \in Browsers, r \in Requests : Browses(b, r)
         \/ \E r \in Requests : Served(r) \/ Deliver(r)
         \/ (\E l \in Links : Expire(l)) \/ CacheTick \/ HalfLife \/ UNCHANGED vars
BY BrowseIs, RefreshIs, AuthenticateIs, FillCacheIs, HandledIs, BumpIs, ConsumeIs
   DEF Next, Process, Fails

-----------------------------------------------------------------------------
(* What an answer does. *)
Delivers(r) ==
  LET b == req[r].by IN
  /\ req[r].stage = "answer" /\ Alters(r) /\ b \in Browsers
  /\ UNCHANGED <<version, deleted, cache, link, faults, visits>>
  /\ cookie' = [c \in Browsers |-> cookie'[c]] /\ \A c \in Browsers \ {b} : cookie'[c] = cookie[c]
  /\ cookie'[b] = IF ClearsCookie(r) THEN NoToken
                  ELSE IF NewToken(r) # NoToken THEN NewToken(r) ELSE cookie[b]
  /\ tab' = [tab EXCEPT ![b] = Routed(Told(b, r))]
  /\ \/ active' \subseteq active
     \/ /\ active' \subseteq active \union {b} /\ cookie'[b] # NoToken
        /\ req[r].status = "ok" /\ req[r].token # NoToken /\ req[r].clean
  /\ \/ req'[r] = Idle
     \/ /\ req[r].kind = "delete" /\ req'[r].kind = "leave" /\ req'[r].by = b /\ req'[r].token = cookie'[b]
        /\ req'[r].stage = "answer" /\ req'[r].of = {} /\ req'[r].fresh = NoToken
        /\ req'[r].issued = NoToken

LEMMA DeliverIs == ASSUME Shaped, NEW r \in Requests, Deliver(r) PROVE Delivers(r)
<1> DEFINE b == req[r].by
           token == IF ClearsCookie(r) THEN NoToken
                    ELSE IF NewToken(r) # NoToken THEN NewToken(r) ELSE cookie[b]
           leave == [Idle EXCEPT !.kind = "leave", !.by = b, !.token = cookie'[b],
                                 !.stage = "answer", !.status = "ok"]
           next == IF req[r].kind = "delete" /\ req[r].status = "ok" THEN leave ELSE Idle
<1>1. /\ req[r].stage = "answer"
      /\ cookie' = [cookie EXCEPT ![b] = token]
      /\ tab' = [tab EXCEPT ![b] = Routed(Told(b, r))]
      /\ active' = IF cookie'[b] = NoToken THEN active \ {b}
                   ELSE IF /\ req[r].status = "ok" /\ req[r].kind \notin Public
                           /\ req[r].token # NoToken /\ req[r].clean
                     THEN active \union {b} ELSE active
      /\ req' = [req EXCEPT ![r] = next]
      /\ UNCHANGED <<version, deleted, cache, link, faults, visits>>
  BY DEF Deliver
<1>2. b \in Browsers
  BY <1>1, RequestShape
<1>3. /\ leave.kind = "leave" /\ leave.by = b /\ leave.token = cookie'[b] /\ leave.stage = "answer"
      /\ leave.of = {} /\ leave.fresh = NoToken /\ leave.issued = NoToken
      /\ leave = [field \in RequestFields |-> leave[field]]
  BY DEF Idle, RequestFields
<1>4. next = Idle \/ (next = leave /\ req[r].kind = "delete")
  OBVIOUS
<1>5. cookie = [c \in Browsers |-> cookie[c]] /\ req = [s \in Requests |-> req[s]]
  BY DEF Shaped
<1> HIDE DEF leave, next, token
<1>6. /\ cookie' = [c \in Browsers |-> cookie'[c]] /\ cookie'[b] = token
      /\ \A c \in Browsers \ {b} : cookie'[c] = cookie[c]
  BY <1>1, <1>2, <1>5
<1>7. Alters(r) /\ req'[r] = next
  BY <1>1, <1>3, <1>4, <1>5, IdleIs DEF Alters
<1>8. \/ active' \subseteq active
      \/ /\ active' \subseteq active \union {b} /\ cookie'[b] # NoToken
         /\ req[r].status = "ok" /\ req[r].token # NoToken /\ req[r].clean
  BY <1>1
<1> QED
  BY <1>1, <1>2, <1>3, <1>4, <1>6, <1>7, <1>8, SMTT(30) DEF Delivers, token

LEMMA NewTokenIs ==
  ASSUME Shaped, NEW r \in Requests
  PROVE  IsYoung(NewToken(r))
BY RequestShape DEF NewToken, IsYoung

(* A tab leaves the page of a link when it has a user, and comes to none.    *)
Turns(t, u, q) ==
  /\ IsTab(u)
  /\ t.page # "link" => u.page # "link" /\ u.at \in {t.at, {}}
  /\ t.page = "link" /\ q.kind \in {"me", "verify"} =>
       \/ u.page = "link" /\ u.at = t.at /\ u.asked = t.asked
       \/ u.page # "link" /\ u.at = {}
  /\ u.failed => t.failed \/ (t.page = "link" /\ q.kind = "verify" /\ q.status # "ok")

LEMMA RoutedIs ==
  ASSUME NEW t, IsTab(t)
  PROVE  /\ IsTab(Routed(t)) /\ Routed(t).at = t.at /\ Routed(t).asked = t.asked
         /\ Routed(t).failed = t.failed
         /\ (Routed(t).page = "link") <=> (t.page = "link")
<1>1. Routed(t) = t \/ (t.page \in {"home", "work"} /\ \E p \in {"work", "login"} : Routed(t) = [t EXCEPT !.page = p])
  <2>1. CASE t.page = "home" /\ ~t.loading
    BY <2>1 DEF Routed
  <2>2. CASE t.page = "work" /\ ~t.loading
    BY <2>2 DEF Routed
  <2>3. CASE t.loading \/ t.page \notin {"home", "work"}
    BY <2>3 DEF Routed
  <2> QED
    BY <2>1, <2>2, <2>3
<1> QED
  BY <1>1 DEF IsTab, TabFields

LEMMA ToldIs ==
  ASSUME Shaped, NEW b \in Browsers, NEW r \in Requests
  PROVE  Turns(tab[b], Routed(Told(b, r)), req[r])
<1> DEFINE t == tab[b]
           q == req[r]
           u == Told(b, r)
<1>1. IsTab(t)
  BY DEF Shaped
<1>2. /\ IsTab(u)
      /\ t.page # "link" => u.page # "link" /\ u.at \in {t.at, {}}
      /\ t.page = "link" /\ q.kind \in {"me", "verify"} =>
           \/ u.page = "link" /\ u.at = t.at /\ u.asked = t.asked
           \/ u.page # "link" /\ u.at = {}
      /\ u.failed => t.failed \/ (t.page = "link" /\ q.kind = "verify" /\ q.status # "ok")
  <2> DEFINE ok == q.status = "ok"
             in == t.user \/ ok
             failed == t.failed \/ t.page = "link"
  <2>1. \/ q.kind = "me" /\ u = [t EXCEPT !.user = ok, !.loading = FALSE]
        \/ /\ q.kind = "login"
           /\ u = [t EXCEPT !.user = in, !.loading = FALSE, !.page = IF ok THEN "work" ELSE @]
        \/ q.kind = "verify" /\ ok /\ u = [Mounted("work", {}) EXCEPT !.user = TRUE, !.loading = t.loading]
        \/ q.kind = "verify" /\ ~ok /\ u = [t EXCEPT !.failed = failed]
        \/ q.kind = "logout" /\ u = [t EXCEPT !.user = FALSE, !.page = "login"]
        \/ q.kind \in {"leave", "reset"} /\ u = [t EXCEPT !.page = "login"]
        \/ q.kind \notin {"me", "verify"} /\ u = t
    BY DEF Told
  <2> HIDE DEF u, t, q, in, ok
  <2>2. CASE q.kind \notin {"me", "verify"}
    BY <1>1, <2>1, <2>2 DEF IsTab, TabFields
  <2>3. CASE q.kind = "me"
    BY <1>1, <2>1, <2>3 DEF IsTab, TabFields
  <2>4. CASE q.kind = "verify" /\ ok
    BY <1>1, <2>1, <2>4 DEF IsTab, TabFields, Mounted
  <2>5. CASE q.kind = "verify" /\ ~ok
    BY <1>1, <2>1, <2>5 DEF IsTab, TabFields, ok
  <2> QED
    BY <2>2, <2>3, <2>4, <2>5
<1> HIDE DEF t, q, u
<1> QED
  BY <1>2, RoutedIs DEF Turns, t, q, u

-----------------------------------------------------------------------------
(* Each step keeps what the variables hold. *)
LEMMA BrowsesShaped ==
  ASSUME Shaped, NEW b \in Browsers, NEW r \in Requests, Browses(b, r)
  PROVE  Shaped'
<1>1. Alters(r) /\ IsRequest(req'[r])
  BY DEF Browses, Sent, IsRequest, IsYoung, Alters
<1>2. req' = [s \in Requests |-> req'[s]] /\ \A s \in Requests : IsRequest(req'[s])
  BY <1>1 DEF Shaped, Alters
<1>3. tab' = [c \in Browsers |-> tab'[c]] /\ \A c \in Browsers : IsTab(tab'[c])
  <2>1. ASSUME NEW page, NEW ls PROVE IsTab(Mounted(page, ls))
    BY DEF Mounted, IsTab, TabFields
  <2>2. /\ IsTab([tab[b] EXCEPT !.asked = tab[b].at])
        /\ IsTab([tab[b] EXCEPT !.loading = TRUE])
    BY DEF Shaped, IsTab, TabFields
  <2>3. \E u : IsTab(u) /\ tab' = [tab EXCEPT ![b] = u]
    <3>1. CASE tab' = tab
      BY <3>1 DEF Shaped
    <3>2. CASE \E page, ls : tab' = [tab EXCEPT ![b] = Mounted(page, ls)]
      BY <3>2, <2>1
    <3>3. CASE tab' = [tab EXCEPT ![b].asked = tab[b].at]
      BY <3>3, <2>2
    <3>4. CASE tab' = [tab EXCEPT ![b].loading = TRUE]
      BY <3>4, <2>2
    <3> QED
      BY <3>1, <3>2, <3>3, <3>4 DEF Browses, Opens
  <2> QED
    BY <2>3 DEF Shaped
<1>4. visits' \in [Links -> Nat]
  BY DEF Browses, Opens, Shaped
<1> QED
  BY <1>2, <1>3, <1>4 DEF Browses, Shaped

LEMMA ServedShaped ==
  ASSUME Shaped, NEW r \in Requests, Served(r)
  PROVE  Shaped'
<1>1. req' = [s \in Requests |-> req'[s]] /\ \A s \in Requests : IsRequest(req'[s])
  <2>1. IsYoung(req'[r].fresh) /\ IsYoung(req'[r].issued)
    BY RequestShape, MintedIs DEF Served, Shaped
  <2>2. IsRequest(req'[r])
    BY <2>1, RequestShape DEF Served, Alters, IsRequest
  <2> QED
    BY <2>2 DEF Served, Alters, Shaped
<1>2. link' \in [Links -> {"valid", "expired", "gone"}]
  BY DEF Served, Shaped
<1>3. version' \in Nat /\ faults' \in Nat /\ cache' \in Nat
  BY DEF Served, Shaped, Grows
<1> QED
  BY <1>1, <1>2, <1>3 DEF Served, Shaped

LEMMA DeliversShaped ==
  ASSUME Shaped, NEW r \in Requests, Delivers(r)
  PROVE  Shaped'
<1>1. req' = [s \in Requests |-> req'[s]] /\ \A s \in Requests : IsRequest(req'[s])
  <2>1. IsRequest(req'[r])
    <3>1. CASE req'[r] = Idle
      BY <3>1, IdleIs DEF IsRequest, IsYoung
    <3>2. CASE req'[r].stage = "answer" /\ req'[r].fresh = NoToken /\ req'[r].issued = NoToken
               /\ req'[r].by = req[r].by
      BY <3>2 DEF Delivers, Alters, IsRequest, IsYoung
    <3> QED
      BY <3>1, <3>2 DEF Delivers
  <2> QED
    BY <2>1 DEF Delivers, Alters, Shaped
<1>2. \A c \in Browsers : IsToken(cookie'[c])
  BY NewTokenIs DEF Delivers, Shaped, IsToken, IsYoung
<1>3. tab' = [c \in Browsers |-> tab'[c]] /\ \A c \in Browsers : IsTab(tab'[c])
  <2>1. PICK u : IsTab(u) /\ tab' = [tab EXCEPT ![req[r].by] = u]
    BY ToldIs DEF Delivers, Turns
  <2> QED
    BY <2>1 DEF Shaped
<1> QED
  BY <1>1, <1>2, <1>3 DEF Delivers, Shaped

LEMMA AgedIs ==
  ASSUME NEW t, IsToken(t)
  PROVE  /\ IsToken(Aged(t))
         /\ t # NoToken /\ ~Old(t) => Aged(t) # NoToken
         /\ Aged(t) # NoToken => t # NoToken /\ Aged(t).version = t.version
<1>1. CASE t = NoToken \/ t.age = "old"
  BY <1>1 DEF Aged, IsToken, Old
<1>2. CASE t # NoToken /\ t.age # "old"
  <2>1. /\ Aged(t) = [t EXCEPT !.age = "old"]
        /\ t \in [version: Nat, age: {"young", "old"}]
    BY <1>2 DEF Aged, IsToken
  <2>2. Aged(t) \in [version: Nat, age: {"young", "old"}] /\ Aged(t).version = t.version
    BY <2>1
  <2> QED
    BY <1>2, <2>2, SessionsAssumption DEF IsToken
<1> QED
  BY <1>1, <1>2

LEMMA ShapedStep == ASSUME Shaped, NotAhead, [Next]_vars PROVE Shaped'
<1>1. CASE CacheTick
  <2>1. cache' \in Nat
    BY <1>1 DEF CacheTick
  <2> QED
    BY <1>1, <2>1 DEF CacheTick, Shaped
<1>2. CASE HalfLife
  <2>1. cache' \in Nat /\ cookie' = [b \in Browsers |-> Aged(cookie[b])]
    BY <1>2 DEF HalfLife
  <2>2. \A b \in Browsers : IsToken(cookie'[b])
    BY <2>1, AgedIs DEF Shaped
  <2> QED
    BY <1>2, <2>1, <2>2 DEF HalfLife, Shaped
<1>4. ASSUME NEW l \in Links, Expire(l) PROVE Shaped'
  BY <1>4 DEF Expire, Shaped
<1>3. CASE UNCHANGED vars
  BY <1>3 DEF vars, Shaped
<1> QED
  BY <1>1, <1>2, <1>3, <1>4, SessionSteps, BrowsesShaped, ServedShaped, DeliverIs, DeliversShaped

-----------------------------------------------------------------------------
(* An old cookie stays behind what is cached. *)
LEMMA NotAheadStep == ASSUME Shaped, NotAhead, [Next]_vars PROVE NotAhead'
<1> USE DEF Shaped
<1>1. ASSUME NEW b \in Browsers, NEW r \in Requests, Browses(b, r) PROVE NotAhead'
  BY <1>1 DEF Browses, Sent, Alters, NotAhead, Past
<1>2. ASSUME NEW r \in Requests, Served(r) PROVE NotAhead'
  <2>1. /\ UNCHANGED cookie /\ \A s \in Requests \ {r} : req'[s] = req[s]
        /\ version' \in Nat /\ version <= version'
        /\ cache' = cache \/ (req[r].stage \in Filling /\ cache' = req[r].seen)
        /\ req'[r].stage \in Filling => req'[r].seen = version
        /\ req'[r].fresh \in {req[r].fresh, Minted} /\ req'[r].issued \in {req[r].issued, Minted}
    BY <1>2 DEF Served, Alters, Grows, Caches
  <2>2. cache' <= version'
    BY <2>1 DEF NotAhead
  <2>3. \A s \in Requests : req'[s].stage \in Filling => req'[s].seen \in Nat /\ req'[s].seen <= version'
    BY <2>1 DEF NotAhead
  <2>4. \A b \in Browsers : cookie[b] # NoToken => cookie[b].version \in Nat /\ cookie[b].version <= version
    BY DEF IsToken, NotAhead, Past
  <2>5. \A b \in Browsers : cookie'[b] # NoToken => cookie'[b].version <= version'
    BY <2>1, <2>4
  <2>6. ASSUME NEW b \in Browsers, Old(cookie[b])
        PROVE  /\ cache' = 0 \/ cookie[b].version <= cache'
               /\ \A s \in Requests : req'[s].stage \in Filling => cookie[b].version <= req'[s].seen
    BY <2>1, <2>4, <2>6 DEF NotAhead, Old
  <2>7. /\ Minted.version = version
        /\ \A s \in Requests : /\ req[s].fresh # NoToken => req[s].fresh.version \in Nat /\ req[s].fresh.version <= version
                               /\ req[s].issued # NoToken => req[s].issued.version \in Nat /\ req[s].issued.version <= version
    BY RequestShape DEF IsYoung, NotAhead, Past, Minted
  <2>8. \A s \in Requests : /\ req'[s].fresh # NoToken => req'[s].fresh.version <= version'
                            /\ req'[s].issued # NoToken => req'[s].issued.version <= version'
    BY <2>1, <2>7
  <2> QED
    BY <2>1, <2>2, <2>3, <2>5, <2>6, <2>8 DEF NotAhead, Past
<1>3. ASSUME NEW r \in Requests, Delivers(r) PROVE NotAhead'
  <2>1. /\ UNCHANGED <<version, cache>> /\ \A s \in Requests \ {r} : req'[s] = req[s]
        /\ req'[r].stage \notin Filling /\ req'[r].fresh = NoToken /\ req'[r].issued = NoToken
    BY <1>3, IdleIs DEF Delivers, Alters, Filling
  <2>2. \A b \in Browsers : Old(cookie'[b]) => cookie'[b] = cookie[b]
    BY <1>3, NewTokenIs DEF Delivers, Old, IsYoung
  <2>3. \A b \in Browsers : cookie'[b] \in {cookie[b], NoToken, req[r].fresh, req[r].issued}
    BY <1>3 DEF Delivers, NewToken
  <2>4. \A b \in Browsers : cookie'[b] # NoToken => cookie'[b].version <= version
    BY <2>3 DEF NotAhead, Past
  <2> QED
    BY <2>1, <2>2, <2>4 DEF NotAhead, Past
<1>4. CASE CacheTick
  <2>1. cache' = 0 /\ UNCHANGED <<version, req, cookie>>
    BY <1>4 DEF CacheTick
  <2> QED
    BY <2>1 DEF NotAhead, Past
<1>7. ASSUME NEW l \in Links, Expire(l) PROVE NotAhead'
  BY <1>7 DEF Expire, NotAhead, Past
<1>5. CASE HalfLife
  <2>1. /\ \A r \in Requests : req[r].stage = "idle"
        /\ cookie' = [b \in Browsers |-> Aged(cookie[b])] /\ cache' = 0
        /\ UNCHANGED <<version, req>>
    BY <1>5 DEF HalfLife
  <2>2. \A b \in Browsers : cookie'[b] # NoToken => cookie'[b].version <= version
    BY <2>1, AgedIs DEF NotAhead, Past
  <2> QED
    BY <2>1, <2>2 DEF NotAhead, Past, Filling
<1>6. CASE UNCHANGED vars
  BY <1>6 DEF vars, NotAhead, Past
<1> QED
  BY <1>1, <1>2, <1>3, <1>4, <1>5, <1>6, <1>7, SessionSteps, DeliverIs

-----------------------------------------------------------------------------
(* Sliding. *)
LEMMA EndedStays ==
  ASSUME Shaped, NotAhead, NEW b \in Browsers, Old(cookie[b]), Ended(cookie[b]),
         deleted => deleted', version' = version \/ version' = version + 1
  PROVE  deleted' \/ cookie[b].version # version'
<1>1. cookie[b].version \in Nat /\ version \in Nat /\ cookie[b].version <= version
  BY DEF IsToken, Shaped, NotAhead, Past, Old
<1> QED
  BY <1>1 DEF Ended

(* A refresh that is refused is refused for good. *)
LEMMA TriedEnds ==
  ASSUME Shaped, NotAhead, NEW b \in Browsers, Old(cookie[b]), NEW r \in Requests, Tried(r),
         req[r].token = cookie[b]
  PROVE  req'[r].fresh # NoToken \/ ~req'[r].clean \/ req'[r].stage \in Exchanging \/ Ended(cookie[b])
<1> SUFFICES ASSUME \/ req[r].stage = "refill" \/ cache # 0,
                    cookie[b].version # Judge(r)
             PROVE  cookie[b].version # version
  BY DEF Tried, Ended, Old
<1>1. cookie[b].version \in Nat /\ version \in Nat /\ cache \in Nat
  BY DEF Shaped, IsToken, Old
<1>2. /\ cookie[b].version <= version /\ cache <= version
      /\ cache = 0 \/ cookie[b].version <= cache
      /\ req[r].stage = "refill" =>
           req[r].seen \in Nat /\ cookie[b].version <= req[r].seen /\ req[r].seen <= version
  BY DEF NotAhead, Past, Old, Filling
<1> QED
  BY <1>1, <1>2 DEF Judge

LEMMA SlidingStep == ASSUME Shaped, NotAhead, Sliding, [Next]_vars PROVE Sliding'
<1>1. ASSUME NEW b \in Browsers, NEW r \in Requests, Browses(b, r) PROVE Sliding'
  BY <1>1 DEF Browses, Sent, Alters, Sliding, Slides, Ended, Exchanging
<1>2. ASSUME NEW r \in Requests, Served(r) PROVE Sliding'
  <2>1. /\ UNCHANGED <<cookie, active>> /\ \A s \in Requests \ {r} : req'[s] = req[s]
        /\ (deleted => deleted') /\ (version' = version \/ version' = version + 1)
    BY <1>2 DEF Served, Alters, Grows
  <2>2. ASSUME NEW b \in Browsers, Old(cookie[b]), Ended(cookie[b])
        PROVE  deleted' \/ cookie[b].version # version'
    BY <2>1, <2>2, EndedStays
  <2>3. ASSUME NEW s \in Requests, req'[s].stage # "idle", Old(cookie[req'[s].by])
        PROVE  Slides(req[s], cookie[req[s].by], Ended(cookie[req[s].by])) /\ req'[s].by = req[s].by
               /\ req[s].by \in Browsers
    BY <1>2, <2>1, <2>3, RequestShape DEF Served, Sliding
  <2>4. ASSUME NEW s \in Requests \ {r}, req'[s].stage # "idle", Old(cookie[req'[s].by])
        PROVE  Slides(req'[s], cookie[req[s].by], deleted' \/ cookie[req[s].by].version # version')
    BY <2>1, <2>2, <2>3, <2>4 DEF Slides, Ended
  <2>5. ASSUME Old(cookie[req'[r].by]), req'[r].fresh = NoToken
        PROVE  /\ req'[r].token = cookie[req'[r].by]
               /\ \/ ~req'[r].clean \/ req'[r].kind \in {"logout", "leave"}
                  \/ req'[r].stage \in Exchanging \/ Ended(cookie[req'[r].by])
    <3>1. /\ req'[r].token = req[r].token /\ req'[r].fresh = req[r].fresh /\ req'[r].kind = req[r].kind
          /\ (~req[r].clean => ~req'[r].clean) /\ req[r].fresh = NoToken /\ req'[r].stage # "idle"
      BY <1>2, <2>5, MintedIs DEF Served, Shaped
    <3>2. /\ req[r].token = cookie[req[r].by] /\ req'[r].by = req[r].by /\ req[r].by \in Browsers
          /\ \/ req[r].stage \in Exchanging \/ ~req[r].clean \/ req[r].kind \in {"logout", "leave"}
             \/ Ended(cookie[req[r].by])
      BY <2>3, <2>5, <3>1 DEF Slides
    <3>3. req[r].stage \in Exchanging =>
            ~req'[r].clean \/ req'[r].stage \in Exchanging \/ Ended(cookie[req[r].by])
      BY <1>2, <2>5, <3>2, TriedEnds DEF Served
    <3> QED
      BY <3>1, <3>2, <3>3
  <2>6. ASSUME Old(cookie[req'[r].by])
        PROVE  Slides(req'[r], cookie[req'[r].by], deleted' \/ cookie[req'[r].by].version # version')
    <3>1. req'[r].stage # "idle" /\ req'[r].by \in Browsers
      BY <1>2, <2>3, <2>6 DEF Served
    <3> QED
      BY <2>1, <2>2, <2>5, <2>6, <3>1 DEF Slides, Ended
  <2>7. \A b \in active : Old(cookie[b]) => deleted' \/ cookie[b].version # version'
    BY <2>2 DEF Sliding, Shaped
  <2>8. \A s \in Requests : req'[s].stage # "idle" /\ Old(cookie'[req'[s].by]) =>
          Slides(req'[s], cookie'[req'[s].by], deleted' \/ cookie'[req'[s].by].version # version')
    BY <2>1, <2>3, <2>4, <2>6
  <2> QED
    BY <2>1, <2>7, <2>8 DEF Sliding, Ended
<1>3. ASSUME NEW r \in Requests, Delivers(r) PROVE Sliding'
  <2> DEFINE b == req[r].by
  <2>1. /\ b \in Browsers /\ \A s \in Requests \ {r} : req'[s] = req[s]
        /\ UNCHANGED <<version, deleted>>
        /\ \A c \in Browsers \ {b} : cookie'[c] = cookie[c]
    BY <1>3 DEF Delivers, Alters
  <2>2. Old(cookie'[b]) => cookie'[b] = cookie[b] /\ ~ClearsCookie(r) /\ NewToken(r) = NoToken
    BY <1>3, NewTokenIs DEF Delivers, Old, IsYoung
  <2>3. req'[r].stage # "idle" =>
          req'[r].kind = "leave" /\ req'[r].by = b /\ req'[r].token = cookie'[b]
    BY <1>3, IdleIs DEF Delivers
  <2>4. ASSUME NEW s \in Requests, req'[s].stage # "idle", Old(cookie'[req'[s].by])
        PROVE  Slides(req'[s], cookie'[req'[s].by], deleted \/ cookie'[req'[s].by].version # version)
    <3>1. CASE s = r
      BY <2>3, <2>4, <3>1 DEF Slides
    <3>2. CASE s # r
      <4>1. req'[s] = req[s] /\ req[s].by \in Browsers
        BY <2>1, <2>4, <3>2, RequestShape
      <4>2. cookie'[req[s].by] = cookie[req[s].by]
        BY <2>1, <2>2, <2>4, <4>1
      <4> QED
        BY <2>1, <2>4, <4>1, <4>2 DEF Sliding, Slides, Ended
    <3> QED
      BY <3>1, <3>2
  <2>5. ASSUME NEW c \in active', Old(cookie'[c])
        PROVE  deleted \/ cookie'[c].version # version
    <3>1. CASE c \in active
      <4>1. cookie'[c] = cookie[c]
        <5>1. c \in Browsers
          BY <3>1 DEF Shaped
        <5> QED
          BY <2>1, <2>2, <2>5, <5>1
      <4> QED
        BY <2>5, <3>1, <4>1 DEF Sliding, Ended
    <3>2. CASE c \notin active
      <4>1. c = b /\ req[r].status = "ok" /\ req[r].clean /\ req[r].stage = "answer"
        BY <1>3, <2>5, <3>2 DEF Delivers
      <4>2. req[r].fresh = NoToken /\ req[r].kind \notin {"logout", "leave"} /\ cookie'[b] = cookie[b]
        BY <2>2, <2>5, <4>1 DEF NewToken, ClearsCookie
      <4>3. Slides(req[r], cookie[b], Ended(cookie[b]))
        BY <2>5, <4>1, <4>2 DEF Sliding
      <4> QED
        BY <4>1, <4>2, <4>3 DEF Slides, Ended, Exchanging
    <3> QED
      BY <3>1, <3>2
  <2> QED
    BY <2>1, <2>4, <2>5 DEF Sliding, Ended
<1>4. CASE CacheTick
  BY <1>4 DEF CacheTick, Sliding, Slides, Ended
<1>5. CASE HalfLife
  BY <1>5 DEF HalfLife, Sliding
<1>7. ASSUME NEW l \in Links, Expire(l) PROVE Sliding'
  BY <1>7 DEF Expire, Sliding, Slides, Ended
<1>6. CASE UNCHANGED vars
  BY <1>6 DEF vars, Sliding, Slides, Ended
<1> QED
  BY <1>1, <1>2, <1>3, <1>4, <1>5, <1>6, <1>7, SessionSteps, DeliverIs

-----------------------------------------------------------------------------
(* Sign-in links. *)
LEMMA LinkedStep == ASSUME Shaped, NotAhead, Linked, [Next]_vars PROVE Linked'
<1>1. ASSUME NEW b \in Browsers, NEW r \in Requests, Browses(b, r) PROVE Linked'
  <2>1. /\ \A s \in Requests \ {r} : req'[s] = req[s]
        /\ req[r].stage = "idle" /\ req'[r].by = b
        /\ \A c \in Browsers \ {b} : tab'[c] = tab[c]
    BY <1>1 DEF Browses, Sent, Alters, Opens, Shaped
  <2>2. /\ Tells(req'[r], tab'[b]) /\ Reads(tab'[b])
        /\ \/ \A s \in Requests : req[s].stage # "idle" => req[s].by # b
           \/ tab'[b].page = tab[b].page /\ tab'[b].at = tab[b].at
    <3>1. CASE Sent(r, b, "me", {}) /\ \E page, ls : Opens(b, page, ls)
      <4>1. req'[r].kind = "me" /\ req'[r].of = {}
        BY <3>1 DEF Sent
      <4>2. /\ tab'[b].asked = {}
            /\ \/ tab'[b].page = "home" /\ tab'[b].at = {}
               \/ tab'[b].page = "link" /\ \E l \in Links : tab'[b].at = {l}
        BY <3>1 DEF Opens, Mounted, Shaped
      <4>3. \A s \in Requests : req[s].stage # "idle" => req[s].by # b
        BY <3>1 DEF Opens, OpenOf
      <4> QED
        BY <4>1, <4>2, <4>3 DEF Tells, Reads
    <3>2. CASE /\ Sent(r, b, "verify", tab[b].at) /\ tab[b].page = "link"
               /\ tab' = [tab EXCEPT ![b].asked = tab[b].at]
      <4>1. /\ req'[r].kind = "verify" /\ req'[r].of = tab[b].at
            /\ \E l \in Links : tab[b].at = {l}
        BY <3>2 DEF Sent, Linked, Reads
      <4>2. tab'[b].page = "link" /\ tab'[b].at = tab[b].at /\ tab'[b].asked = tab[b].at
        BY <3>2 DEF Shaped, IsTab, TabFields
      <4> QED
        BY <3>2, <4>1, <4>2 DEF Tells, Reads
    <3>3. CASE /\ \E k : k # "verify" /\ Sent(r, b, k, {})
               /\ tab[b].page # "link" /\ (tab' = tab \/ tab' = [tab EXCEPT ![b].loading = TRUE])
      <4>1. req'[r].of = {}
        BY <3>3 DEF Sent
      <4>2. tab'[b].page = tab[b].page /\ tab'[b].at = tab[b].at
        BY <3>3 DEF Shaped, IsTab, TabFields
      <4>3. tab[b].at = {}
        BY <3>3 DEF Linked, Reads
      <4> QED
        BY <3>3, <4>1, <4>2, <4>3 DEF Tells, Reads
    <3> QED
      BY <1>1, <3>1, <3>2, <3>3 DEF Browses
  <2>3. ASSUME NEW s \in Requests PROVE Tells(req'[s], tab'[req'[s].by])
    <3>1. CASE s = r
      BY <2>1, <2>2, <3>1
    <3>2. CASE s # r
      <4>1. req'[s] = req[s] /\ (req[s].stage # "idle" => req[s].by \in Browsers)
        BY <2>1, <3>2, RequestShape
      <4>2. req[s].stage # "idle" => /\ tab'[req[s].by].page = tab[req[s].by].page
                                     /\ tab'[req[s].by].at = tab[req[s].by].at
        BY <2>1, <2>2, <4>1
      <4> QED
        BY <4>1, <4>2 DEF Linked, Tells
    <3> QED
      BY <3>1, <3>2
  <2> QED
    BY <2>1, <2>2, <2>3 DEF Linked
<1>2. ASSUME NEW r \in Requests, Served(r) PROVE Linked'
  <2>1. ASSUME NEW s \in Requests PROVE Tells(req'[s], tab[req'[s].by])
    BY <1>2 DEF Served, Alters, Linked, Tells
  <2> QED
    BY <1>2, <2>1 DEF Served, Linked
<1>3. ASSUME NEW r \in Requests, Delivers(r) PROVE Linked'
  <2> DEFINE b == req[r].by
  <2>1. /\ b \in Browsers /\ \A s \in Requests \ {r} : req'[s] = req[s]
        /\ \A c \in Browsers \ {b} : tab'[c] = tab[c]
        /\ Turns(tab[b], tab'[b], req[r])
    BY <1>3, ToldIs DEF Delivers, Alters, Shaped
  <2>2. /\ req'[r].of = {}
        /\ req'[r].stage # "idle" => req'[r].by = b /\ req[r].kind = "delete"
    BY <1>3, IdleIs DEF Delivers
  <2>3. tab[b].page = "link" => req[r].kind \in {"me", "verify"}
    BY <1>3 DEF Delivers, Linked, Tells
  <2> HIDE DEF b
  <2>4. \A c \in Browsers : Reads(tab'[c])
    BY <2>1, <2>3 DEF Linked, Turns, Reads
  <2>5. tab'[b].page = "link" => tab[b].page = "link" /\ tab'[b].at = tab[b].at
    BY <2>1, <2>3 DEF Turns
  <2>6. ASSUME NEW s \in Requests PROVE Tells(req'[s], tab'[req'[s].by])
    <3>1. CASE s = r
      BY <2>2, <2>3, <2>5, <3>1 DEF Tells
    <3>2. CASE s # r
      <4>1. req'[s] = req[s] /\ (req[s].stage # "idle" => req[s].by \in Browsers)
        BY <2>1, <3>2, RequestShape
      <4>2. req[s].by \in Browsers /\ tab'[req[s].by].page = "link" =>
              tab[req[s].by].page = "link" /\ tab'[req[s].by].at = tab[req[s].by].at
        BY <2>1, <2>5
      <4> QED
        BY <4>1, <4>2 DEF Linked, Tells
    <3> QED
      BY <3>1, <3>2
  <2> QED
    BY <2>4, <2>6 DEF Linked
<1>4. CASE UNCHANGED <<req, tab>>
  BY <1>4 DEF Linked
<1> QED
  BY <1>1, <1>2, <1>3, <1>4, SessionSteps, DeliverIs DEF CacheTick, HalfLife, Expire, vars

LEMMA BrowsesOpened ==
  ASSUME Shaped, Linked, Opened, NEW b \in Browsers, NEW r \in Requests, Browses(b, r)
  PROVE  Opened'
<1> SUFFICES ASSUME NEW l \in Links
             PROVE  /\ visits'[l] = 0 => Unopened(l)'
                    /\ visits'[l] = 1 => OpenedOnce(l)'
                    /\ visits'[l] = 1 /\ ~deleted' /\ faults' = 0 => Works(l)'
  BY DEF Opened
<1>1. /\ \A s \in Requests \ {r} : req'[s] = req[s]
      /\ req[r].stage = "idle" /\ req[r].of = {}
      /\ \A c \in Browsers \ {b} : tab'[c] = tab[c]
      /\ UNCHANGED <<link, deleted, faults>>
  BY DEF Browses, Sent, Alters, Opens, Shaped, IsRequest
<1>2. CASE Sent(r, b, "me", {}) /\ \E page, ls : Opens(b, page, ls)
  <2>1. Of(l)' = Of(l)
    BY <1>1, <1>2 DEF Of, Sent
  <2>2. /\ ~tab'[b].failed /\ tab'[b].asked = {}
        /\ \/ tab'[b].at = {} /\ UNCHANGED visits
           \/ \E k \in Links : tab'[b].at = {k} /\ visits' = [visits EXCEPT ![k] = @ + 1]
    BY <1>2 DEF Opens, Mounted, Shaped
  <2>3. CASE tab'[b].at # {l} /\ visits'[l] = visits[l]
    <3>1. At(l)' = At(l) \ {b}
      BY <1>1, <2>3 DEF At
    <3>2. \A c \in At(l) \ {b} : tab'[c] = tab[c]
      BY <1>1 DEF At
    <3>3. \A s \in Of(l) : req'[s] = req[s]
      BY <1>1 DEF Of
    <3> QED
      BY <1>1, <2>1, <2>3, <3>1, <3>2, <3>3 DEF Opened, Unopened, OpenedOnce, Works, Verifying
  <2>4. CASE tab'[b].at = {l} /\ visits'[l] = visits[l] + 1
    <3>1. visits[l] \in Nat /\ At(l)' = At(l) \union {b}
      BY <1>1, <2>4 DEF At, Shaped
    <3>2. visits'[l] # 0 /\ (visits'[l] = 1 => visits[l] = 0)
      BY <2>4, <3>1
    <3>3. visits[l] = 0 => link[l] # "gone" /\ At(l) = {} /\ Of(l) = {}
      BY DEF Opened, Unopened
    <3> QED
      BY <1>1, <2>1, <2>2, <3>1, <3>2, <3>3 DEF OpenedOnce, Works, Verifying
  <2> QED
    BY <2>2, <2>3, <2>4 DEF Shaped
<1>3. CASE /\ Sent(r, b, "verify", tab[b].at) /\ tab[b].page = "link" /\ tab[b].asked # tab[b].at
           /\ tab' = [tab EXCEPT ![b].asked = tab[b].at] /\ UNCHANGED visits
  <2>1. tab'[b].at = tab[b].at /\ tab'[b].asked = tab[b].at /\ tab'[b].failed = tab[b].failed
    BY <1>3 DEF Shaped, IsTab, TabFields
  <2>2. At(l)' = At(l)
    BY <1>1, <2>1 DEF At
  <2>3. req'[r].of = tab[b].at /\ req'[r].stage \in Exchanging \union {"run"}
    BY <1>3 DEF Sent
  <2>4. CASE tab[b].at # {l}
    <3>1. Of(l)' = Of(l)
      BY <1>1, <2>3, <2>4 DEF Of
    <3>2. \A c \in At(l) : tab'[c] = tab[c]
      BY <1>1, <2>4 DEF At
    <3>3. \A s \in Of(l) : req'[s] = req[s]
      BY <1>1 DEF Of
    <3>4. visits[l] = 0 => Unopened(l)'
      BY <1>1, <2>2, <3>1 DEF Opened, Unopened
    <3>5. visits[l] = 1 => OpenedOnce(l)'
      BY <1>1, <2>2, <3>1, <3>2 DEF Opened, OpenedOnce
    <3>6. Works(l) => Works(l)'
      BY <1>1, <2>2, <3>1, <3>2, <3>3 DEF Works, Verifying
    <3> QED
      BY <1>1, <1>3, <3>4, <3>5, <3>6 DEF Opened
  <2>5. CASE tab[b].at = {l}
    <3>1. tab[b].asked = {} /\ b \in At(l)
      BY <1>3, <2>5 DEF Linked, Reads, At
    <3>2. visits[l] # 0 /\ (visits[l] = 1 => link[l] # "gone" /\ Of(l) = {} /\ \A c \in At(l) : c = b)
      BY <3>1 DEF Opened, Unopened, OpenedOnce
    <3>3. Of(l) = {} => Of(l)' = {r}
      BY <1>1, <2>3, <2>5 DEF Of
    <3>4. visits[l] = 1 => At(l) = {b} /\ tab[b].asked = {} /\ tab'[b].asked = {l}
      BY <2>1, <2>5, <3>1, <3>2
    <3>5. visits[l] = 1 => OpenedOnce(l)'
      BY <1>1, <2>2, <3>2, <3>3, <3>4 DEF OpenedOnce
    <3>6. visits[l] = 1 /\ Works(l) => Works(l)'
      <4> SUFFICES ASSUME visits[l] = 1, Works(l) PROVE Works(l)'
        OBVIOUS
      <4>1. ~tab'[b].failed
        BY <2>1, <3>1, <3>4 DEF Works
      <4>2. Verifying(req[r], l)'
        BY <1>1, <2>3, <3>2 DEF Verifying
      <4> QED
        BY <2>2, <3>2, <3>3, <3>4, <4>1, <4>2 DEF Works
    <3> QED
      BY <1>1, <1>3, <3>2, <3>5, <3>6 DEF Opened
  <2> QED
    BY <2>4, <2>5
<1>4. CASE /\ \E k : k # "verify" /\ Sent(r, b, k, {})
           /\ UNCHANGED visits /\ (tab' = tab \/ tab' = [tab EXCEPT ![b].loading = TRUE])
  <2>1. \A c \in Browsers :
          tab'[c].at = tab[c].at /\ tab'[c].asked = tab[c].asked /\ tab'[c].failed = tab[c].failed
    BY <1>4 DEF Shaped, IsTab, TabFields
  <2>2. At(l)' = At(l) /\ Of(l)' = Of(l)
    BY <1>1, <1>4, <2>1 DEF At, Of, Sent
  <2>3. \A s \in Of(l) : req'[s] = req[s]
    BY <1>1 DEF Of
  <2>4. \A c \in At(l) : tab'[c].asked = tab[c].asked /\ tab'[c].failed = tab[c].failed
    BY <2>1 DEF At
  <2>5. visits[l] = 0 => Unopened(l)'
    BY <1>1, <2>2 DEF Opened, Unopened
  <2>6. visits[l] = 1 => OpenedOnce(l)'
    BY <1>1, <2>2, <2>4 DEF Opened, OpenedOnce
  <2>7. Works(l) => Works(l)'
    BY <1>1, <2>2, <2>3, <2>4 DEF Works, Verifying
  <2> QED
    BY <1>1, <1>4, <2>5, <2>6, <2>7 DEF Opened
<1> QED
  BY <1>2, <1>3, <1>4 DEF Browses

LEMMA ServedOpened ==
  ASSUME Shaped, Linked, Opened, NEW r \in Requests, Served(r)
  PROVE  Opened'
<1> SUFFICES ASSUME NEW l \in Links
             PROVE  /\ visits'[l] = 0 => Unopened(l)'
                    /\ visits'[l] = 1 => OpenedOnce(l)'
                    /\ visits'[l] = 1 /\ ~deleted' /\ faults' = 0 => Works(l)'
  BY DEF Opened
<1>1. /\ \A s \in Requests \ {r} : req'[s] = req[s]
      /\ req'[r].of = req[r].of /\ UNCHANGED <<tab, visits>>
      /\ deleted => deleted'
  BY DEF Served, Alters
<1>2. At(l)' = At(l) /\ Of(l)' = Of(l)
  BY <1>1 DEF At, Of
<1>3. /\ r \notin Of(l) => link'[l] = link[l]
      /\ req[r].stage # "consume" => UNCHANGED link
      /\ link[l] \in {"valid", "expired", "gone"}
  BY DEF Served, Linked, Tells, Of, Shaped
<1>4. ASSUME visits[l] = 1, ~deleted', faults' = 0
      PROVE  Works(l)'
  <2>1. ~deleted /\ faults' = faults /\ faults = 0
    BY <1>1, <1>4 DEF Served, Shaped
  <2>2. Works(l) /\ OpenedOnce(l)
    BY <1>4, <2>1 DEF Opened
  <2>3. ASSUME NEW s \in Of(l) PROVE Verifying(req[s], l)'
    <3>1. CASE s # r
      <4>1. r \notin Of(l) /\ s \in Requests
        BY <2>2, <2>3, <3>1 DEF OpenedOnce, Of
      <4> QED
        BY <1>1, <1>3, <2>2, <2>3, <3>1, <4>1 DEF Works, Verifying
    <3>2. CASE s = r
      <4>1. req[r].kind = "verify" /\ req[r].of = {l}
        BY <2>3, <3>2 DEF Of, Linked, Tells
      <4>2. Verifies(r)
        BY <2>1, <4>1 DEF Served
      <4>3. \/ req[r].stage \in Exchanging \union {"run"} /\ link[l] # "gone"
            \/ req[r].stage \in {"consume", "mint"}
        BY <2>2, <2>3, <3>2 DEF Works, Verifying, Served
      <4> QED
        BY <1>3, <3>2, <4>1, <4>2, <4>3 DEF Verifies, Verifying, Exchanging
    <3> QED
      BY <3>1, <3>2
  <2>4. ASSUME NEW b \in At(l), tab[b].failed
        PROVE  link'[l] = "expired" /\ Of(l)' = {} /\ tab'[b].asked # {}
    <3>1. link[l] = "expired" /\ Of(l) = {} /\ tab[b].asked # {}
      BY <2>2, <2>4 DEF Works
    <3> QED
      BY <1>1, <1>2, <1>3, <3>1
  <2> QED
    BY <1>1, <1>2, <2>3, <2>4 DEF Works
<1>5. Of(l) = {} /\ link[l] # "gone" => link'[l] # "gone"
  BY <1>3
<1> QED
  BY <1>1, <1>2, <1>4, <1>5 DEF Opened, Unopened, OpenedOnce

LEMMA DeliversOpened ==
  ASSUME Shaped, Linked, Opened, NEW r \in Requests, Delivers(r)
  PROVE  Opened'
<1> SUFFICES ASSUME NEW l \in Links
             PROVE  /\ visits'[l] = 0 => Unopened(l)'
                    /\ visits'[l] = 1 => OpenedOnce(l)'
                    /\ visits'[l] = 1 /\ ~deleted' /\ faults' = 0 => Works(l)'
  BY DEF Opened
<1> DEFINE b == req[r].by
<1>1. /\ b \in Browsers /\ \A s \in Requests \ {r} : req'[s] = req[s]
      /\ \A c \in Browsers \ {b} : tab'[c] = tab[c]
      /\ Turns(tab[b], tab'[b], req[r])
      /\ UNCHANGED <<visits, link, deleted, faults>>
  BY ToldIs DEF Delivers, Alters, Shaped
<1>2. req'[r].of = {} /\ req[r].stage = "answer"
  BY IdleIs DEF Delivers
<1>3. Of(l)' = Of(l) \ {r}
  BY <1>1, <1>2 DEF Of
<1>4. tab[b].page = "link" => /\ req[r].kind \in {"me", "verify"}
                              /\ req[r].kind = "verify" => req[r].of = tab[b].at
  BY <1>1, <1>2 DEF Linked, Tells
<1>5. tab'[b].at = {l} =>
        tab[b].page = "link" /\ tab[b].at = {l} /\ tab'[b].asked = tab[b].asked
  BY <1>1, <1>4 DEF Turns, Linked, Reads
<1>6. ASSUME NEW c \in At(l)'
      PROVE  c \in At(l) /\ tab'[c].asked = tab[c].asked
  BY <1>1, <1>5, <1>6 DEF At
<1>7. ASSUME Works(l), OpenedOnce(l), NEW c \in At(l)', tab'[c].failed
      PROVE  link'[l] = "expired" /\ Of(l)' = {} /\ tab'[c].asked # {}
  <2>1. CASE c # b \/ tab[b].failed
    <3>1. c \in At(l) /\ tab[c].failed
      BY <1>1, <1>6, <1>7, <2>1 DEF At
    <3> QED
      BY <1>1, <1>3, <1>6, <1>7, <3>1 DEF Works
  <2>2. CASE c = b /\ ~tab[b].failed
    <3>1. tab[b].page = "link" /\ req[r].kind = "verify" /\ req[r].status # "ok" /\ b \in At(l)
      BY <1>1, <1>6, <1>7, <2>2 DEF Turns
    <3>2. r \in Of(l)
      BY <1>4, <3>1 DEF Of, At
    <3>3. link[l] = "expired"
      BY <1>2, <1>7, <3>1, <3>2 DEF Works, Verifying, Exchanging
    <3>4. Of(l)' = {} /\ tab[b].asked # {}
      BY <1>3, <1>7, <3>1, <3>2 DEF OpenedOnce
    <3> QED
      BY <1>1, <1>6, <2>2, <3>3, <3>4
  <2> QED
    BY <2>1, <2>2
<1> HIDE DEF b
<1>8. visits[l] = 0 => Unopened(l)'
  BY <1>1, <1>3, <1>6 DEF Opened, Unopened
<1>9. visits[l] = 1 => OpenedOnce(l)'
  BY <1>1, <1>3, <1>6 DEF Opened, OpenedOnce
<1>10. visits[l] = 1 /\ Works(l) => Works(l)'
  <2> SUFFICES ASSUME visits[l] = 1, Works(l) PROVE Works(l)'
    OBVIOUS
  <2>1. OpenedOnce(l)
    BY DEF Opened
  <2>2. \A s \in Of(l)' : Verifying(req[s], l)'
    BY <1>1, <1>3 DEF Works, Verifying, Of
  <2> QED
    BY <1>7, <2>1, <2>2 DEF Works
<1> QED
  BY <1>1, <1>8, <1>9, <1>10 DEF Opened

LEMMA OpenedStep == ASSUME Shaped, NotAhead, Linked, Opened, [Next]_vars PROVE Opened'
<1>1. CASE UNCHANGED <<req, tab, link, visits, deleted, faults>>
  BY <1>1 DEF Opened, Unopened, OpenedOnce, Works, Verifying, At, Of
<1>2. ASSUME NEW k \in Links, Expire(k) PROVE Opened'
  <2>1. /\ UNCHANGED <<req, tab, visits, deleted, faults>>
        /\ \A l \in Links : /\ link[l] # "gone" => link'[l] # "gone"
                            /\ link[l] = "expired" => link'[l] = "expired"
    BY <1>2 DEF Expire, Shaped
  <2> QED
    BY <2>1 DEF Opened, Unopened, OpenedOnce, Works, Verifying, At, Of
<1> QED
  BY <1>1, <1>2, SessionSteps, BrowsesOpened, ServedOpened, DeliverIs, DeliversOpened
     DEF CacheTick, HalfLife, vars

-----------------------------------------------------------------------------
LEMMA InitHolds == ASSUME Init PROVE Shaped /\ NotAhead /\ Sliding /\ Linked /\ Opened
<1> DEFINE blank == [Mounted("home", {}) EXCEPT !.page = "login", !.loading = FALSE]
<1>1. IsTab(blank) /\ blank.page = "login" /\ blank.at = {}
  BY DEF Mounted, IsTab, TabFields
<1> HIDE DEF blank
<1>2. /\ version = 1 /\ cache = 0
      /\ link = [l \in Links |-> "valid"]
      /\ cookie \in [Browsers -> {NoToken, [version |-> 1, age |-> "young"]}]
      /\ tab = [b \in Browsers |-> blank] /\ req = [r \in Requests |-> Idle]
      /\ faults = 0 /\ active = {} /\ visits = [l \in Links |-> 0]
  BY DEF Init, blank
<1>3. \A b \in Browsers : cookie[b] \in {NoToken, [version |-> 1, age |-> "young"]}
  BY <1>2
<1>4. \A b \in Browsers : IsToken(cookie[b]) /\ ~Old(cookie[b]) /\ Past(cookie[b])
  BY <1>2, <1>3 DEF IsToken, Old, Past
<1>5. IsRequest(Idle) /\ Past(NoToken)
  BY IdleIs DEF IsRequest, IsYoung, Past
<1>6. Shaped
  BY <1>1, <1>2, <1>4, <1>5 DEF Shaped
<1>7. NotAhead
  BY <1>2, <1>4, <1>5, IdleIs DEF NotAhead, Filling
<1>8. Sliding
  BY <1>2, IdleIs DEF Sliding
<1>9. Linked
  BY <1>1, <1>2, IdleIs DEF Linked, Tells, Reads
<1>10. Opened
  BY <1>1, <1>2, IdleIs DEF Opened, Unopened, At, Of
<1> QED
  BY <1>6, <1>7, <1>8, <1>9, <1>10

LEMMA Invariant == Spec => [](Shaped /\ NotAhead /\ Sliding /\ Linked /\ Opened)
<1> DEFINE Inv == Shaped /\ NotAhead /\ Sliding /\ Linked /\ Opened
<1>1. Init => Inv
  BY InitHolds
<1>2. Inv /\ [Next]_vars => Inv'
  BY ShapedStep, NotAheadStep, SlidingStep, LinkedStep, OpenedStep
<1> QED
  BY <1>1, <1>2, PTL DEF Spec

(* FirstVisitAccepted: the first visit of a sign-in link that has not         *)
(* expired is accepted, however the effect of its page, the requests of      *)
(* other pages and other tabs interleave.                                   *)
THEOREM FirstVisit == Spec => []FirstVisitAccepted
<1>1. ASSUME Shaped, Opened PROVE FirstVisitAccepted
  <2> SUFFICES ASSUME NEW b \in Browsers, NEW l \in Links,
                      tab[b].failed, tab[b].at = {l}, visits[l] = 1, ~deleted, ~(faults > 0)
               PROVE  link[l] = "expired"
    BY DEF FirstVisitAccepted
  <2>1. faults = 0
    BY <1>1 DEF Shaped
  <2> QED
    BY <1>1, <2>1 DEF Opened, Works, At
<1> QED
  BY <1>1, Invariant, PTL

(* ActiveStaysSignedIn: half a lifetime in which a browser was served with   *)
(* its session and without a fault leaves it signed in.                     *)
THEOREM ActiveStays == Spec => ActiveStaysSignedIn
<1>1. ASSUME Shaped, Sliding, [Next]_vars,
             NEW b \in Browsers, HalfLife, b \in active, ~deleted, Accepts(cookie[b], version)
      PROVE  cookie'[b] # NoToken
  <2>1. cookie[b] # NoToken /\ ~Old(cookie[b]) /\ IsToken(cookie[b])
    BY <1>1 DEF Accepts, Sliding, Ended, Shaped
  <2>2. cookie'[b] = Aged(cookie[b])
    BY <1>1 DEF HalfLife
  <2> QED
    BY <2>1, <2>2, AgedIs
<1>2. Shaped /\ Sliding /\ [Next]_vars =>
        [\A b \in Browsers : (HalfLife /\ b \in active /\ ~deleted /\ Accepts(cookie[b], version))
                               => cookie'[b] # NoToken]_vars
  BY <1>1
<1> QED
  BY <1>2, Invariant, PTL DEF Spec, ActiveStaysSignedIn

-----------------------------------------------------------------------------
(* Types.  That the versions stay in range needs that each open request that *)
(* raises the version has room to.                                          *)
Raising(q) ==
  q.kind \in Bumping /\ q.stage \in Exchanging \union {"auth", "fill", "run", "bump"}
Raisers == {r \in Requests : Raising(req[r])}
Room ==
  /\ version + Cardinality(Raisers) <= MaxVersion
  /\ \A r \in Requests : req[r].stage = "bump" => req[r].kind \in {"password", "delete"}

LEMMA RaisersFinite ==
  ASSUME NEW S, S \subseteq Requests
  PROVE  IsFiniteSet(S) /\ Cardinality(S) \in Nat
BY FS_Subset, FS_CardinalityType, SessionsAssumption

LEMMA RoomStays ==
  ASSUME Room, version \in Nat, version' = version, NEW r \in Requests,
         \A s \in Requests \ {r} : req'[s] = req[s],
         Raising(req'[r]) => Raising(req[r]),
         req'[r].stage = "bump" => req'[r].kind \in {"password", "delete"}
  PROVE  Room'
<1>1. Raisers' \subseteq Raisers /\ Raisers \subseteq Requests /\ Raisers' \subseteq Requests
  BY DEF Raisers
<1>2. /\ Cardinality(Raisers') \in Nat /\ Cardinality(Raisers) \in Nat
      /\ Cardinality(Raisers') <= Cardinality(Raisers)
  BY <1>1, RaisersFinite, FS_Subset
<1> QED
  BY <1>2, SessionsAssumption DEF Room

LEMMA RoomUsed ==
  ASSUME Room, version \in Nat, version' = version + 1, NEW r \in Requests,
         \A s \in Requests \ {r} : req'[s] = req[s],
         Raising(req[r]), ~Raising(req'[r]), req'[r].stage # "bump"
  PROVE  Room'
<1>1. Raisers' = Raisers \ {r} /\ r \in Raisers /\ Raisers \subseteq Requests
  BY DEF Raisers
<1>2. /\ Cardinality(Raisers) \in Nat
      /\ Cardinality(Raisers') = Cardinality(Raisers) - 1
  BY <1>1, RaisersFinite, FS_RemoveElement
<1> QED
  BY <1>2, SessionsAssumption DEF Room

LEMMA BeginTyped ==
  ASSUME TypeOK, Room, NEW r \in Requests, NEW b \in Browsers, NEW k, NEW ls \in SUBSET Links,
         Begin(r, b, k, ls), version' = version
  PROVE  req' \in [Requests -> Request] /\ Room'
<1> DEFINE stage == IF k = "logout" THEN "answer"
                    ELSE IF cookie[b] # NoToken /\ cookie[b].age = "old" THEN "proxy" ELSE Beyond(k)
           status == IF k = "logout" THEN "ok" ELSE "none"
           new == [Idle EXCEPT !.kind = k, !.by = b, !.token = cookie[b], !.of = ls,
                               !.stage = stage, !.status = status]
<1>1. /\ req' = [req EXCEPT ![r] = new] /\ req[r].stage = "idle"
      /\ k \in AllKinds /\ (k \in Bumping => RoomToBump)
  BY SessionsAssumption DEF Begin
<1>2. stage \in {"answer", "proxy", "auth", "run"} /\ status \in {"ok", "none"}
  BY DEF Beyond
<1>3. Idle \in Request /\ cookie[b] \in Tokens
  BY SessionsAssumption DEF TypeOK, Idle, Request, Stages, AllKinds, Tokens
<1> HIDE DEF stage, status
<1>4. new \in Request /\ new.kind = k /\ new.stage = stage
  BY <1>1, <1>2, <1>3 DEF Request, Stages, Exchanging
<1> HIDE DEF new
<1>5. req' \in [Requests -> Request] /\ req'[r] = new /\ \A s \in Requests \ {r} : req'[s] = req[s]
  BY <1>1, <1>4 DEF TypeOK
<1>6. version \in Nat
  BY DEF TypeOK, Versions
<1>7. CASE k \notin Bumping
  BY <1>2, <1>4, <1>5, <1>6, <1>7, RoomStays DEF Raising
<1>8. CASE k \in Bumping
  <2> DEFINE open == {s \in Requests : req[s].stage # "idle" /\ req[s].kind \in Bumping}
  <2>1. Raisers' \subseteq open \union {r} /\ open \subseteq Requests /\ r \notin open
    BY <1>1, <1>5 DEF Raisers, Raising, Exchanging
  <2>2. version + Cardinality(open) < MaxVersion
    BY <1>1, <1>8 DEF RoomToBump
  <2> HIDE DEF open
  <2>3. /\ Cardinality(open) \in Nat /\ IsFiniteSet(open \union {r})
        /\ Cardinality(open \union {r}) = Cardinality(open) + 1
    BY <2>1, RaisersFinite, FS_AddElement
  <2>4. Cardinality(Raisers') \in Nat /\ Cardinality(Raisers') <= Cardinality(open \union {r})
    BY <2>1, <2>3, FS_Subset, FS_CardinalityType
  <2>5. version' + Cardinality(Raisers') <= MaxVersion
    BY <1>6, <2>2, <2>3, <2>4, SessionsAssumption
  <2>6. \A s \in Requests : req'[s].stage = "bump" => req'[s].kind \in {"password", "delete"}
    BY <1>2, <1>4, <1>5 DEF Room
  <2> QED
    BY <1>5, <2>5, <2>6 DEF Room
<1> QED
  BY <1>7, <1>8

(* What becomes of a request that is served. *)
Becomes(r, u) ==
  /\ req' = [req EXCEPT ![r] = u] /\ u \in Request
  /\ u.stage = "bump" => u.kind \in {"password", "delete"}
  /\ \/ version' = version /\ (Raising(u) => Raising(req[r]))
     \/ version' = version + 1 /\ Raising(req[r]) /\ ~Raising(u)

LEMMA BecomesTyped ==
  ASSUME TypeOK, Room, NEW r \in Requests, NEW u, Becomes(r, u)
  PROVE  req' \in [Requests -> Request] /\ version' \in Versions /\ Room'
<1>1. req' \in [Requests -> Request] /\ req'[r] = u /\ \A s \in Requests \ {r} : req'[s] = req[s]
  BY DEF TypeOK, Becomes
<1>2. version \in Nat /\ version >= 1 /\ version' \in Nat /\ version' >= 1
  BY DEF TypeOK, Versions, Becomes
<1>3. Raising(req[r]) /\ ~Raising(u) /\ u.stage = "bump" => FALSE
  BY DEF Becomes, Raising, Bumping
<1>4. Room'
  BY <1>1, <1>2, <1>3, RoomStays, RoomUsed DEF Becomes
<1>5. Cardinality(Raisers') \in Nat
  BY RaisersFinite DEF Raisers
<1> QED
  BY <1>1, <1>2, <1>4, <1>5, SessionsAssumption DEF Room, Versions

LEMMA Changes ==
  ASSUME TypeOK, NEW r \in Requests
  PROVE  /\ req[r] \in Request /\ Minted \in Tokens /\ version \in 1..MaxVersion
         /\ \A s \in Stages : [req[r] EXCEPT !.stage = s] \in Request
         /\ \A s \in {"ok", "bad", "refused"} :
              [req[r] EXCEPT !.stage = "answer", !.status = s] \in Request
<1>1. req[r] \in Request /\ Minted \in Tokens /\ version \in 1..MaxVersion
  BY DEF TypeOK, Minted, Tokens, Versions
<1> QED
  BY <1>1 DEF Request, Stages

LEMMA MoveTyped ==
  ASSUME TypeOK, NEW r \in Requests, NEW s \in Stages, Move(r, s),
         s = "bump" => req[r].kind \in {"password", "delete"},
         \/ version' = version /\ (s = "mint" \/ s = "consume" \/ Raising(req[r]) \/ req[r].kind \notin Bumping)
         \/ version' = version + 1 /\ Raising(req[r]) /\ s = "mint"
  PROVE  \E u : Becomes(r, u)
<1> DEFINE u == [req[r] EXCEPT !.stage = s]
<1>1. u \in Request /\ u.stage = s /\ u.kind = req[r].kind
  BY Changes DEF Request
<1>2. req' = [req EXCEPT ![r] = u]
  BY DEF Move
<1> HIDE DEF u
<1>3. Becomes(r, u)
  BY <1>1, <1>2 DEF Becomes, Raising, Exchanging
<1> QED
  BY <1>3

LEMMA ReplyTyped ==
  ASSUME TypeOK, NEW r \in Requests, NEW s \in {"ok", "bad", "refused"}, Reply(r, s),
         version' = version \/ (version' = version + 1 /\ Raising(req[r]))
  PROVE  \E u : Becomes(r, u)
<1> DEFINE u == [req[r] EXCEPT !.stage = "answer", !.status = s]
<1>1. u \in Request /\ u.stage = "answer"
  BY Changes, ZenonT(30) DEF Request
<1>2. req' = [req EXCEPT ![r] = u]
  BY DEF Reply
<1> HIDE DEF u
<1>3. Becomes(r, u)
  BY <1>1, <1>2 DEF Becomes, Raising, Exchanging
<1> QED
  BY <1>3

LEMMA IssueTyped ==
  ASSUME TypeOK, NEW r \in Requests, Issue(r), version' = version
  PROVE  \E u : Becomes(r, u)
<1> DEFINE m == Minted
           u == [req[r] EXCEPT !.stage = "answer", !.status = "ok", !.issued = m]
<1>1. m \in Tokens /\ req[r] \in Request
  BY Changes
<1>2. req' = [req EXCEPT ![r] = u]
  BY DEF Issue
<1> HIDE DEF m
<1>3. u \in Request /\ u.stage = "answer"
  BY <1>1 DEF Request, Stages
<1> HIDE DEF u
<1>4. Becomes(r, u)
  BY <1>2, <1>3 DEF Becomes, Raising, Exchanging
<1> QED
  BY <1>4

LEMMA PassesTyped ==
  ASSUME TypeOK, Room, NEW r \in Requests, Refresh(r) \/ RefreshFails(r) \/ Authenticate(r) \/ FillCache(r) \/ BackendFails(r)
  PROVE  (\E u : Becomes(r, u)) /\ cache' \in 0..MaxVersion
<1> USE DEF Stages, Exchanging
<1>1. /\ req[r] \in Request /\ Minted \in Tokens /\ version \in 1..MaxVersion
      /\ cache \in 0..MaxVersion /\ MaxVersion \in Nat
  BY Changes, SessionsAssumption DEF TypeOK
<1>7. 0 \in 0..MaxVersion /\ version \in 0..MaxVersion
  BY <1>1
<1>2. ASSUME NEW u \in Request, req' = [req EXCEPT ![r] = u], version' = version, u.stage # "bump",
             Raising(u) => Raising(req[r])
      PROVE  \E v : Becomes(r, v)
  BY <1>2 DEF Becomes
<1>3. CASE Refresh(r) \/ RefreshFails(r)
  <2> DEFINE next == Beyond(req[r].kind)
             m == Minted
             u == [req[r] EXCEPT !.stage = next, !.token = m, !.fresh = m]
             v == [req[r] EXCEPT !.stage = next, !.clean = FALSE]
  <2>1. next \in {"run", "auth"} /\ m \in Tokens
    BY <1>1 DEF Beyond
  <2>2. /\ req[r].stage \in Exchanging /\ version' = version /\ cache' = cache
        /\ req' = [req EXCEPT ![r] = u] \/ Move(r, next) \/ req' = [req EXCEPT ![r] = v]
    BY <1>3 DEF Refresh, RefreshFails
  <2> HIDE DEF m, next
  <2>3. u \in Request /\ u.stage = next /\ u.kind = req[r].kind
    BY <1>1, <2>1 DEF Request
  <2>7. v \in Request /\ v.stage = next /\ v.kind = req[r].kind
    BY <1>1, <2>1 DEF Request
  <2> HIDE DEF u, v
  <2>8. Raising(req[r]) \/ req[r].kind \notin Bumping
    BY <2>2 DEF Raising
  <2>4. CASE Move(r, next)
    BY <1>1, <2>1, <2>2, <2>4, <2>8, MoveTyped
  <2>5. CASE req' = [req EXCEPT ![r] = u]
    BY <1>1, <1>2, <2>1, <2>2, <2>3, <2>5, <2>8 DEF Raising
  <2>9. CASE req' = [req EXCEPT ![r] = v]
    BY <1>1, <1>2, <2>1, <2>2, <2>7, <2>8, <2>9 DEF Raising
  <2> QED
    BY <2>2, <2>4, <2>5, <2>9
<1>4. CASE Authenticate(r)
  <2> DEFINE stage == IF req[r].stage = "proxy" THEN "refill" ELSE "fill"
             admit == Admit(r)
             next == Beyond(req[r].kind)
             u == [req[r] EXCEPT !.seen = version, !.stage = stage]
             v == [req[r] EXCEPT !.stage = admit, !.clean = FALSE]
  <2>1. /\ req[r].stage \in {"proxy", "auth"} /\ version' = version /\ cache' = cache
        /\ \/ Reply(r, "refused") \/ Move(r, next) \/ Move(r, admit)
           \/ req' = [req EXCEPT ![r] = u] \/ req' = [req EXCEPT ![r] = v]
    BY <1>4 DEF Authenticate, Refuse
  <2>9. stage \in {"refill", "fill"} /\ admit \in {"exchange", "run"} /\ next \in {"run", "auth"}
    BY DEF Admit, Beyond
  <2> HIDE DEF stage, admit, next
  <2>2. u \in Request /\ u.stage = stage /\ u.kind = req[r].kind
    BY <1>1, <1>7, <2>9, Zenon DEF Request
  <2>6. v \in Request /\ v.stage = admit /\ v.kind = req[r].kind
    BY <1>1, <2>9 DEF Request
  <2> HIDE DEF u, v
  <2>7. Raising(req[r]) \/ req[r].kind \notin Bumping
    BY <2>1 DEF Raising
  <2>3. CASE Reply(r, "refused")
    BY <1>1, <2>1, <2>3, ReplyTyped
  <2>4. CASE Move(r, next)
    BY <1>1, <2>1, <2>4, <2>7, <2>9, MoveTyped
  <2>10. CASE Move(r, admit)
    BY <1>1, <2>1, <2>7, <2>9, <2>10, MoveTyped
  <2>5. CASE req' = [req EXCEPT ![r] = u]
    BY <1>1, <1>2, <2>1, <2>2, <2>5, <2>7, <2>9 DEF Raising
  <2>8. CASE req' = [req EXCEPT ![r] = v]
    BY <1>1, <1>2, <2>1, <2>6, <2>7, <2>8, <2>9 DEF Raising
  <2> QED
    BY <1>1, <2>1, <2>3, <2>4, <2>5, <2>8, <2>10
<1>5. CASE FillCache(r)
  <2> DEFINE accepts == Accepts(req[r].token, req[r].seen)
             refused == IF req[r].stage = "fill" THEN "answer" ELSE Beyond(req[r].kind)
             stage == IF accepts THEN Admit(r) ELSE refused
             status == IF ~accepts /\ refused = "answer" THEN "refused" ELSE req[r].status
             u == [req[r] EXCEPT !.seen = 0, !.stage = stage, !.status = status]
  <2>1. /\ req[r].stage \in {"fill", "refill"} /\ version' = version
        /\ cache' = req[r].seen
        /\ req' = [req EXCEPT ![r] = u]
    BY <1>5 DEF FillCache
  <2>2. /\ stage \in {"run", "answer", "exchange", "auth"}
        /\ status \in {"none", "ok", "bad", "refused"}
    BY <1>1 DEF Request, Admit, Beyond
  <2> HIDE DEF stage, status
  <2>3. u \in Request /\ u.stage = stage /\ u.kind = req[r].kind
    BY <1>1, <1>7, <2>2 DEF Request
  <2>4. cache' \in 0..MaxVersion
    BY <1>1, <2>1 DEF Request
  <2> HIDE DEF u
  <2> QED
    BY <1>2, <2>1, <2>2, <2>3, <2>4 DEF Raising
<1>6. CASE BackendFails(r)
  <2> DEFINE u == [req[r] EXCEPT !.stage = "answer", !.status = "bad", !.clean = FALSE]
  <2>1. req' = [req EXCEPT ![r] = u] /\ version' = version /\ cache' = cache
    BY <1>6 DEF BackendFails
  <2>2. u \in Request /\ u.stage = "answer"
    BY <1>1 DEF Request
  <2> HIDE DEF u
  <2> QED
    BY <1>1, <1>2, <2>1, <2>2 DEF Raising
<1> QED
  BY <1>3, <1>4, <1>5, <1>6

LEMMA HandlesTyped ==
  ASSUME TypeOK, Room, NEW r \in Requests,
         \/ Serve(r) \/ Login(r) \/ ValidateLink(r) \/ ConsumeLink(r) \/ CheckPassword(r) \/ DeleteUser(r)
         \/ BumpTokenVersion(r) \/ BumpIsLost(r) \/ AuthenticateUserByID(r)
  PROVE  (\E u : Becomes(r, u)) /\ UNCHANGED cache
<1> USE DEF Stages, Bumping, Exchanging
<1>1. CASE Serve(r)
  BY <1>1, ReplyTyped DEF Serve
<1>2. CASE Login(r)
  BY <1>2, ReplyTyped, IssueTyped DEF Login
<1>3. CASE ValidateLink(r)
  BY <1>3, ReplyTyped, MoveTyped DEF ValidateLink
<1>4. CASE ConsumeLink(r)
  BY <1>4, MoveTyped DEF ConsumeLink
<1>5. CASE CheckPassword(r)
  BY <1>5, ReplyTyped, MoveTyped DEF CheckPassword, Raising
<1>6. CASE DeleteUser(r)
  BY <1>6, MoveTyped DEF DeleteUser, Raising
<1>7. CASE BumpTokenVersion(r)
  BY <1>7, ReplyTyped, MoveTyped DEF BumpTokenVersion, Raising, Room
<1>8. CASE BumpIsLost(r)
  BY <1>8, ReplyTyped, MoveTyped DEF BumpIsLost, Raising
<1>9. CASE AuthenticateUserByID(r)
  BY <1>9, ReplyTyped, IssueTyped DEF AuthenticateUserByID
<1> QED
  BY <1>1, <1>2, <1>3, <1>4, <1>5, <1>6, <1>7, <1>8, <1>9

LEMMA TabsTyped ==
  ASSUME NEW t \in Tab
  PROVE  Routed(t) \in Tab
BY DEF Routed, Tab, Pages

LEMMA TypedInit == Init => TypeOK /\ Room
<1> SUFFICES ASSUME Init PROVE TypeOK /\ Room
  OBVIOUS
<1> DEFINE blank == [Mounted("home", {}) EXCEPT !.page = "login", !.loading = FALSE]
<1>1. blank \in Tab
  BY DEF Mounted, Tab, Pages
<1>2. Idle \in Request /\ Idle.kind = "me" /\ Idle.stage = "idle"
  BY SessionsAssumption DEF Idle, Request, Stages, AllKinds, Tokens
<1> HIDE DEF blank
<1>3. /\ version = 1 /\ deleted = FALSE /\ cache = 0
      /\ link = [l \in Links |-> "valid"]
      /\ cookie \in [Browsers -> {NoToken, [version |-> 1, age |-> "young"]}]
      /\ tab = [b \in Browsers |-> blank] /\ req = [r \in Requests |-> Idle]
      /\ faults = 0 /\ active = {} /\ visits = [l \in Links |-> 0]
  BY DEF Init, blank
<1>4. {NoToken, [version |-> 1, age |-> "young"]} \subseteq Tokens
  BY SessionsAssumption DEF Tokens, Versions
<1>5. TypeOK
  <2>5. 0 \in 0..MaxVersion /\ 1 \in Versions
    BY SessionsAssumption DEF Versions
  <2>1. version \in Versions /\ deleted \in BOOLEAN /\ cache \in 0..MaxVersion
    BY <1>3, <2>5
  <2>2. link \in [Links -> {"valid", "expired", "gone"}] /\ cookie \in [Browsers -> Tokens]
    BY <1>3, <1>4
  <2>3. tab \in [Browsers -> Tab] /\ req \in [Requests -> Request]
    BY <1>1, <1>2, <1>3
  <2>4. faults \in 0..MaxFaults /\ active \subseteq Browsers /\ visits \in [Links -> 0..MaxVisits]
    BY <1>3, SessionsAssumption
  <2> QED
    BY <2>1, <2>2, <2>3, <2>4 DEF TypeOK
<1>6. Raisers = {}
  BY <1>2, <1>3 DEF Raisers, Raising, Bumping
<1>7. Room
  BY <1>2, <1>3, <1>6, FS_EmptySet, SessionsAssumption DEF Room
<1> QED
  BY <1>5, <1>7

LEMMA BrowseTyped ==
  ASSUME TypeOK, Room, NEW b \in Browsers, NEW r \in Requests, Browse(b, r)
  PROVE  (TypeOK /\ Room)'
<1>1. /\ UNCHANGED <<version, deleted, cache, link, cookie, faults, active>>
      /\ \E k : \E ls \in SUBSET Links : Begin(r, b, k, ls)
  BY DEF Browse, Open, OpenLink, Mount, VerifyEffect, SubmitLogin, SubmitReset, UsePage, TypeOK, Tab
<1>2. req' \in [Requests -> Request] /\ Room'
  BY <1>1, BeginTyped
<1>3. tab' \in [Browsers -> Tab] /\ visits' \in [Links -> 0..MaxVisits]
  <2>1. tab \in [Browsers -> Tab] /\ tab[b] \in Tab /\ visits \in [Links -> 0..MaxVisits]
    BY DEF TypeOK
  <2>2. /\ [tab[b] EXCEPT !.asked = tab[b].at] \in Tab /\ [tab[b] EXCEPT !.loading = TRUE] \in Tab
        /\ \A page \in Pages : \A ls \in SUBSET Links : Mounted(page, ls) \in Tab
    BY <2>1 DEF Tab, Mounted
  <2>3. CASE Open(b, r) \/ VerifyEffect(b, r) \/ SubmitLogin(b, r) \/ SubmitReset(b, r)
             \/ \E k \in Kinds : UsePage(b, r, k)
    BY <2>1, <2>2, <2>3 DEF Open, Mount, VerifyEffect, SubmitLogin, SubmitReset, UsePage, Pages
  <2>4. ASSUME NEW l \in Links, OpenLink(b, r, l)
        PROVE  tab' \in [Browsers -> Tab] /\ visits' \in [Links -> 0..MaxVisits]
    <3>1. visits[l] + 1 \in 0..MaxVisits
      BY <2>1, <2>4, SessionsAssumption DEF OpenLink
    <3> QED
      BY <2>1, <2>2, <2>4, <3>1 DEF OpenLink, Mount, Pages
  <2> QED
    BY <2>3, <2>4 DEF Browse
<1> QED
  BY <1>1, <1>2, <1>3 DEF TypeOK

LEMMA ToldTyped ==
  ASSUME TypeOK, NEW b \in Browsers, NEW r \in Requests
  PROVE  Told(b, r) \in Tab
<1> DEFINE t == tab[b]
           ok == req[r].status = "ok"
           in == t.user \/ ok
           failed == t.failed \/ t.page = "link"
<1>1. t \in Tab /\ {ok, in, failed} \subseteq BOOLEAN
  BY DEF TypeOK, Tab
<1>2. \/ Told(b, r) = [t EXCEPT !.user = ok, !.loading = FALSE]
      \/ Told(b, r) = [t EXCEPT !.user = in, !.loading = FALSE, !.page = IF ok THEN "work" ELSE @]
      \/ Told(b, r) = [Mounted("work", {}) EXCEPT !.user = TRUE, !.loading = t.loading]
      \/ Told(b, r) = [t EXCEPT !.failed = failed]
      \/ Told(b, r) = [t EXCEPT !.user = FALSE, !.page = "login"]
      \/ Told(b, r) = [t EXCEPT !.page = "login"]
      \/ Told(b, r) = t
  BY DEF Told
<1> HIDE DEF t, ok, in, failed
<1> QED
  BY <1>1, <1>2 DEF Tab, Mounted, Pages

LEMMA DeliverTyped ==
  ASSUME TypeOK, Room, Shaped, NEW r \in Requests, Deliver(r)
  PROVE  (TypeOK /\ Room)'
<1> DEFINE b == req[r].by
           token == IF ClearsCookie(r) THEN NoToken
                    ELSE IF NewToken(r) # NoToken THEN NewToken(r) ELSE cookie[b]
           leave == [Idle EXCEPT !.kind = "leave", !.by = b, !.token = cookie'[b],
                                 !.stage = "answer", !.status = "ok"]
           next == IF req[r].kind = "delete" /\ req[r].status = "ok" THEN leave ELSE Idle
           seen == Routed(Told(b, r))
<1>1. /\ req[r].stage = "answer" /\ cookie' = [cookie EXCEPT ![b] = token]
      /\ tab' = [tab EXCEPT ![b] = seen] /\ req' = [req EXCEPT ![r] = next]
      /\ active' \subseteq active \union {b}
      /\ UNCHANGED <<version, deleted, cache, link, faults, visits>>
  BY DEF Deliver
<1>2. b \in Browsers
  BY <1>1, RequestShape
<1>3. req[r] \in Request /\ cookie \in [Browsers -> Tokens] /\ tab \in [Browsers -> Tab]
  BY DEF TypeOK
<1>4. token \in Tokens
  BY <1>2, <1>3 DEF NewToken, Tokens, Request
<1>5. seen \in Tab
  BY <1>2, ToldTyped, TabsTyped
<1> HIDE DEF token, seen
<1>6. cookie' \in [Browsers -> Tokens] /\ tab' \in [Browsers -> Tab] /\ cookie'[b] \in Tokens
  BY <1>1, <1>2, <1>3, <1>4, <1>5
<1>7. Idle \in Request /\ Idle.stage = "idle"
  BY SessionsAssumption DEF Idle, Request, Stages, AllKinds, Tokens
<1> HIDE DEF b
<1>8. leave \in Request /\ leave.stage = "answer"
  BY <1>2, <1>6, <1>7 DEF Request, Stages, AllKinds
<1>9. next \in Request /\ next.stage \in {"idle", "answer"}
  BY <1>7, <1>8
<1> HIDE DEF leave, next
<1>10. Becomes(r, next)
  BY <1>1, <1>9 DEF Becomes, Raising, Exchanging
<1>11. req' \in [Requests -> Request] /\ version' \in Versions /\ Room'
  BY <1>10, BecomesTyped
<1>12. active' \subseteq Browsers
  BY <1>1, <1>2 DEF TypeOK
<1> QED
  BY <1>1, <1>6, <1>11, <1>12 DEF TypeOK

LEMMA TypedStep == ASSUME TypeOK, Room, Shaped, [Next]_vars PROVE (TypeOK /\ Room)'
<1>1. ASSUME NEW r \in Requests, Process(r) \/ Fails(r), ~Deliver(r)
      PROVE  (TypeOK /\ Room)'
  <2>1. (\E u : Becomes(r, u)) /\ cache' \in 0..MaxVersion
    <3>1. CASE Refresh(r) \/ RefreshFails(r) \/ Authenticate(r) \/ FillCache(r) \/ BackendFails(r)
      BY <3>1, PassesTyped
    <3>2. CASE \/ Serve(r) \/ Login(r) \/ ValidateLink(r) \/ ConsumeLink(r) \/ CheckPassword(r)
               \/ DeleteUser(r) \/ BumpTokenVersion(r) \/ BumpIsLost(r) \/ AuthenticateUserByID(r)
      BY <3>2, HandlesTyped DEF TypeOK
    <3> QED
      BY <1>1, <3>1, <3>2 DEF Process, Fails
  <2>2. req' \in [Requests -> Request] /\ version' \in Versions /\ Room'
    BY <2>1, BecomesTyped
  <2>3. UNCHANGED <<cookie, tab, active, visits>> /\ deleted' \in BOOLEAN
        /\ link' \in [Links -> {"valid", "expired", "gone"}]
    BY <1>1 DEF Process, Fails, Refresh, RefreshFails, Authenticate, FillCache, Serve, Login, ValidateLink, ConsumeLink,
                CheckPassword, DeleteUser, BumpTokenVersion, BumpIsLost, AuthenticateUserByID,
                BackendFails, TypeOK
  <2>4. faults' \in 0..MaxFaults
    <3>1. UNCHANGED faults \/ \E f : Fault(f)
      BY <1>1 DEF Process, Fails, Refresh, RefreshFails, Authenticate, FillCache, Serve, Login, ValidateLink, ConsumeLink,
                  CheckPassword, DeleteUser, BumpTokenVersion, BumpIsLost, AuthenticateUserByID,
                  BackendFails
    <3> QED
      BY <3>1, SessionsAssumption DEF Fault, TypeOK
  <2> QED
    BY <2>1, <2>2, <2>3, <2>4 DEF TypeOK
<1>2. CASE CacheTick
  <2>1. cache' \in 0..MaxVersion
    BY <1>2, SessionsAssumption DEF CacheTick
  <2> QED
    BY <1>2, <2>1 DEF CacheTick, TypeOK, Room, Raisers
<1>3. CASE HalfLife
  <2>1. \A t \in Tokens : Aged(t) \in Tokens
    BY DEF Aged, Tokens
  <2>2. cache' \in 0..MaxVersion
    BY <1>3, SessionsAssumption DEF HalfLife
  <2>3. cookie' \in [Browsers -> Tokens]
    BY <1>3, <2>1 DEF HalfLife, TypeOK
  <2> QED
    BY <1>3, <2>2, <2>3 DEF HalfLife, TypeOK, Room, Raisers
<1>5. ASSUME NEW l \in Links, Expire(l) PROVE (TypeOK /\ Room)'
  BY <1>5 DEF Expire, TypeOK, Room, Raisers
<1>4. CASE UNCHANGED vars
  BY <1>4 DEF vars, TypeOK, Room, Raisers
<1> QED
  BY <1>1, <1>2, <1>3, <1>4, <1>5, BrowseTyped, DeliverTyped DEF Next

(* TypeOK: what the variables hold; the versions stay in range, because a     *)
(* request that raises the version is sent only when there is room for it.  *)
THEOREM SessionsTyped == Spec => []TypeOK
<1>1. Shaped /\ TypeOK /\ Room /\ [Next]_vars => (TypeOK /\ Room)'
  BY TypedStep
<1> QED
  BY <1>1, TypedInit, Invariant, PTL DEF Spec
=============================================================================
