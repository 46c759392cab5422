------------------------------ MODULE Sessions ------------------------------
(***************************************************************************)
(* Sessions: sign-in with OpenID Connect, CSRF tokens, and the data of     *)
(* sample mode, which belongs to a session.  The tabs of one browser share *)
(* its cookie.  A request works on a copy of the session that it loaded    *)
(* when it began and writes the copy back, whole, if it changed it.        *)
(*                                                                         *)
(* External: express-session with its memory store (load, save, cookie),   *)
(* openid-client and the provider, the browser.                            *)
(***************************************************************************)
EXTENDS Integers, SequencesExt

CONSTANTS
  Tabs,
  ProfileAllowed,   \* the testing profile's e-mail address is one of those allowed
  MaxSessions,   \* bound: sessions
  MaxNumber,     \* bound: logins and tokens
  MaxUses,       \* bound: mutations
  MaxRestarts,   \* bound: restarts of the server
  Null

Sid == 1 .. MaxSessions
Number == 1 .. MaxNumber

Session == [user: BOOLEAN, csrf: Number \cup {Null}, login: Number \cup {Null}]
Empty == [user |-> FALSE, csrf |-> Null, login |-> Null]

ASSUME SessionsAssumption ==
  /\ MaxSessions \in Nat /\ MaxNumber \in Nat /\ MaxUses \in Nat /\ MaxRestarts \in Nat
  /\ ProfileAllowed \in BOOLEAN
  /\ Null \notin Int \cup Session

VARIABLES
  oidc,          \* sign-in is configured; without, there is the testing profile
  discovery,     \* the provider's configuration as it was read once, or Null
  store,         \* the sessions, or Null
  sample,        \* rules, series and inbox of a session in sample mode, or Null
  cookie,        \* the browser's session id, or Null
  tabs,
  reqs,          \* the request of each tab, or Null
  used,          \* history: numbers of sessions, logins and tokens, mutations, restarts
  smooth         \* history: nothing failed, nobody left or logged out

vars == <<oidc, discovery, store, sample, cookie, tabs, reqs, used, smooth>>

Failed == 0   \* csrfToken keeps a rejected promise

Init ==
  /\ oidc \in BOOLEAN
  /\ discovery = Null
  /\ store = [s \in Sid |-> Null]
  /\ sample = [s \in Sid |-> Null]
  /\ cookie = Null
  /\ tabs = [t \in Tabs |-> [at |-> "blank", token |-> Null, login |-> Null]]
  /\ reqs = [t \in Tabs |-> Null]
  /\ used = [sessions |-> 0, numbers |-> 0, uses |-> 0, restarts |-> 0]
  /\ smooth = TRUE

------------------------------------------------------------------------------
(* Requests *)

\* The session is loaded; without one the request has an empty session of its own.
Begin(t, kind) ==
  /\ reqs[t] = Null
  /\ LET known == cookie # Null /\ store[cookie] # Null
     IN reqs' = [reqs EXCEPT ![t] =
          [kind |-> kind, sid |-> IF known THEN cookie ELSE Null,
           session |-> IF known THEN store[cookie] ELSE Empty]]
  /\ UNCHANGED <<oidc, discovery, store, sample, cookie, used>>

\* A page is loaded anew, without the token that the last one cached.
Open(t) ==
  /\ tabs[t].at \in {"blank", "page", "failed"}
  /\ tabs' = [tabs EXCEPT ![t] = [at |-> "blank", token |-> Null, login |-> Null]]
  /\ Begin(t, "page")
  /\ UNCHANGED smooth

Login(t) ==
  /\ tabs[t].at = "login"
  /\ Begin(t, "login")
  /\ UNCHANGED <<tabs, smooth>>

\* The user signs in at the provider, which sends the browser back.
Callback(t) ==
  /\ tabs[t].at = "provider"
  /\ Begin(t, "callback")
  /\ UNCHANGED <<tabs, smooth>>

\* Or leaves.
Leave(t) ==
  /\ tabs[t].at = "provider" /\ reqs[t] = Null
  /\ tabs' = [tabs EXCEPT ![t].at = "blank"]
  /\ smooth' = FALSE
  /\ UNCHANGED <<oidc, discovery, store, sample, cookie, reqs, used>>

\* csrfToken asks once per page, before the first mutation.
Me(t) ==
  /\ tabs[t].at = "page" /\ tabs[t].token = Null
  /\ Begin(t, "me")
  /\ UNCHANGED <<tabs, smooth>>

Mutate(t) ==
  /\ tabs[t].at = "page" /\ tabs[t].token \in Number
  /\ used.uses < MaxUses
  /\ Begin(t, "mutation")
  /\ UNCHANGED <<tabs, smooth>>

Logout(t) ==
  /\ tabs[t].at = "page" /\ tabs[t].token \in Number
  /\ smooth' = FALSE
  /\ Begin(t, "logout")
  /\ UNCHANGED tabs

Is(t, kind) == reqs[t] # Null /\ reqs[t].kind = kind

\* The session a request writes to: its own, or the new one it makes.
SidOf(t) == IF reqs[t].sid = Null THEN used.sessions + 1 ELSE reqs[t].sid

\* The request ends with the session s, having used up n numbers and k mutations.
\* What did not change is not saved; a new session comes with a cookie.
End(t, s, n, k) ==
  LET changed == s # reqs[t].session
      sid == SidOf(t)
  IN /\ changed => sid \in Sid
     /\ used.numbers + n <= MaxNumber
     /\ store' = IF changed THEN [store EXCEPT ![sid] = s] ELSE store
     /\ cookie' = IF changed /\ reqs[t].sid = Null THEN sid ELSE cookie
     /\ used' = [used EXCEPT !.sessions = IF changed /\ reqs[t].sid = Null THEN sid ELSE @,
                             !.numbers = @ + n, !.uses = @ + k]
     /\ reqs' = [reqs EXCEPT ![t] = Null]

At(t, place) == tabs' = [tabs EXCEPT ![t].at = place]

\* requireAuth; the testing profile is the user when there is no sign-in.  Only
\* users with an allowed address get into a session.
Allowed(s) == s.user \/ (~oidc /\ ProfileAllowed)
SignedIn(s) == [s EXCEPT !.user = TRUE]

\* Variant: every request makes a token.
NewCsrfToken(s) == [s EXCEPT !.csrf = used.numbers + 1]

\* ensureCsrfToken
EnsureCsrfToken(s) == IF s.csrf = Null THEN [s EXCEPT !.csrf = used.numbers + 1] ELSE s

Tokens(s) == IF EnsureCsrfToken(s) = s THEN 0 ELSE 1

ServePage(t) ==
  /\ Is(t, "page")
  /\ LET s == reqs[t].session
     IN IF Allowed(s) THEN End(t, SignedIn(s), 0, 0) /\ At(t, "page")
        ELSE End(t, s, 0, 0) /\ At(t, IF oidc THEN "login" ELSE "failed")
  /\ UNCHANGED <<oidc, discovery, sample, smooth>>

ServeMe(t) ==
  /\ Is(t, "me")
  /\ LET s == EnsureCsrfToken(SignedIn(reqs[t].session))
     IN IF Allowed(reqs[t].session)
        THEN /\ End(t, s, Tokens(reqs[t].session), 0)
             /\ tabs' = [tabs EXCEPT ![t].token = s.csrf]
        ELSE /\ End(t, reqs[t].session, 0, 0)
             /\ tabs' = [tabs EXCEPT ![t].token = Failed]
  /\ UNCHANGED <<oidc, discovery, sample, smooth>>

------------------------------------------------------------------------------
(* Sign-in *)

\* lazyConfiguration reads the provider's configuration once and keeps what came
\* of it, a failure too.
ServeLogin(t) ==
  /\ Is(t, "login")
  /\ discovery' \in IF discovery = Null THEN {"read", "broken"} ELSE {discovery}
  /\ IF discovery' = "read"
     THEN LET n == used.numbers + 1
          IN /\ End(t, [reqs[t].session EXCEPT !.login = n], 1, 0)
             /\ tabs' = [tabs EXCEPT ![t].at = "provider", ![t].login = n]
             /\ UNCHANGED smooth
     ELSE /\ End(t, reqs[t].session, 0, 0)
          /\ At(t, "failed")
          /\ smooth' = FALSE
  /\ UNCHANGED <<oidc, sample>>

\* Variant: a state that is not the expected one is deleted.
RefusedDeleting(s) == [s EXCEPT !.login = Null]

Refused(s) == s

\* The code is exchanged under the state and the verifier of the session's last
\* login; the provider may refuse.
ServeCallback(t) ==
  /\ Is(t, "callback")
  /\ LET s == reqs[t].session
     IN \/ /\ s.login # Null /\ s.login = tabs[t].login
           /\ End(t, [s EXCEPT !.user = TRUE, !.login = Null], 0, 0)
           /\ At(t, "blank")
           /\ UNCHANGED smooth
        \/ /\ s.login # tabs[t].login
           /\ End(t, Refused(s), 0, 0)
           /\ At(t, "failed")
           /\ UNCHANGED smooth
        \/ /\ s.login # Null
           /\ End(t, s, 0, 0)
           /\ At(t, "failed")
           /\ smooth' = FALSE
  /\ UNCHANGED <<oidc, discovery, sample>>

\* requireCsrf alone
ServeLogout(t) ==
  /\ Is(t, "logout")
  /\ LET s == EnsureCsrfToken(reqs[t].session)
     IN IF s.csrf = tabs[t].token
        THEN /\ store' = [store EXCEPT ![reqs[t].sid] = Null]
             /\ reqs' = [reqs EXCEPT ![t] = Null]
             /\ UNCHANGED <<cookie, used>>
        ELSE End(t, s, Tokens(reqs[t].session), 0)
  /\ At(t, "blank")
  /\ UNCHANGED <<oidc, discovery, sample, smooth>>

------------------------------------------------------------------------------
(* Sample mode *)

\* sampleRules, sampleRecurring, createSampleInbox: of each rule and series the
\* session that wrote it last, 0 for what is there at first; and the reviews.
Samples == [rules |-> <<0>>, series |-> [id \in {1, 2} |-> 0], inbox |-> {4}]

\* Variant: the stores are made from one object.
SampleShared(s) ==
  IF \E x \in Sid : sample[x] # Null THEN sample[Min({x \in Sid : sample[x] # Null})]
  ELSE Samples

\* sampleRulesFor, sampleRecurringFor, sampleInboxFor
SampleFor(s) == IF sample[s] = Null THEN Samples ELSE sample[s]

\* What the handlers make of the data d of session s.
SampleCreateRule(d, s) == {[d EXCEPT !.rules = <<s>> \o @]}
SampleUpdateRule(d, s) == {[d EXCEPT !.rules[i] = s] : i \in DOMAIN d.rules}
SampleSetRuleActive(d, s) == {[d EXCEPT !.rules[i] = s] : i \in DOMAIN d.rules}
SampleConfirm(d, s) == {[d EXCEPT !.series[i] = s] : i \in DOMAIN d.series}
SampleUpdateSeries(d, s) == {[d EXCEPT !.series[i] = s] : i \in DOMAIN d.series}
SampleDisable(d) == {[d EXCEPT !.series = Restrict(@, DOMAIN @ \ {i})] : i \in DOMAIN d.series}

\* applySampleAction, to a review that may be gone
SampleReview(d) == {[d EXCEPT !.inbox = @ \ {4}]}

Written(d, s) ==
  SampleCreateRule(d, s) \cup SampleUpdateRule(d, s) \cup SampleSetRuleActive(d, s)
    \cup SampleConfirm(d, s) \cup SampleUpdateSeries(d, s) \cup SampleDisable(d)
    \cup SampleReview(d)

ServeMutation(t) ==
  /\ Is(t, "mutation")
  /\ LET given == reqs[t].session
         s == EnsureCsrfToken(SignedIn(given))
         sid == SidOf(t)
     IN \/ /\ ~Allowed(given)
           /\ End(t, given, 0, 1)
           /\ UNCHANGED sample
        \/ /\ Allowed(given) /\ s.csrf # tabs[t].token
           /\ End(t, s, Tokens(given), 1)
           /\ UNCHANGED sample
        \/ /\ Allowed(given) /\ s.csrf = tabs[t].token
           /\ End(t, s, Tokens(given), 1)
           /\ \E d \in Written(SampleFor(sid), sid) :
                sample' = [sample EXCEPT ![sid] = d]
  /\ UNCHANGED <<oidc, discovery, tabs, smooth>>

------------------------------------------------------------------------------
(* Failures *)

\* A request is lost before it has an effect; the promise of a token is rejected.
Lose(t) ==
  /\ reqs[t] # Null
  /\ reqs' = [reqs EXCEPT ![t] = Null]
  /\ tabs' = [tabs EXCEPT
       ![t].at = IF Is(t, "page") \/ Is(t, "login") \/ Is(t, "callback") THEN "failed" ELSE @,
       ![t].token = IF Is(t, "me") THEN Failed ELSE @]
  /\ smooth' = FALSE
  /\ UNCHANGED <<oidc, discovery, store, sample, cookie, used>>

\* Sessions, configuration and sample data are in memory only; the server ends
\* the requests under way first.
Restart ==
  /\ used.restarts < MaxRestarts
  /\ \A t \in Tabs : reqs[t] = Null
  /\ store' = [s \in Sid |-> Null]
  /\ sample' = [s \in Sid |-> Null]
  /\ discovery' = Null
  /\ used' = [used EXCEPT !.restarts = @ + 1]
  /\ smooth' = FALSE
  /\ UNCHANGED <<oidc, cookie, tabs, reqs>>

Next ==
  \/ \E t \in Tabs :
       \/ Open(t) \/ Login(t) \/ Callback(t) \/ Leave(t) \/ Me(t) \/ Mutate(t) \/ Logout(t)
       \/ ServePage(t) \/ ServeLogin(t) \/ ServeCallback(t)
       \/ ServeMe(t) \/ ServeMutation(t) \/ ServeLogout(t)
       \/ Lose(t)
  \/ Restart

Spec == Init /\ [][Next]_vars

------------------------------------------------------------------------------
(* Properties *)

\* Sessions, tabs and requests have their types; no session is stored that knows
\* nothing, and no mutation is sent without a token (createSessionMiddleware,
\* csrfToken).
TypeOK ==
  /\ \A s \in Sid : store[s] = Null \/ store[s] \in Session \ {Empty}
  /\ cookie \in Sid \cup {Null}
  /\ \A t \in Tabs :
       /\ tabs[t].at \in {"blank", "login", "provider", "page", "failed"}
       /\ tabs[t].token \in Number \cup {Null, Failed}
       /\ tabs[t].login \in Number \cup {Null}
       /\ reqs[t] # Null => /\ reqs[t].kind \in {"page", "login", "callback", "me",
                                                   "mutation", "logout"}
                            /\ reqs[t].sid \in Sid \cup {Null}
                            /\ reqs[t].session \in Session
       /\ Is(t, "mutation") => tabs[t].token \in Number
  /\ discovery \in {Null, "read", "broken"}

\* However the logins of several tabs interleave, with each overwriting the other's
\* state and saving old copies of the session, when all are over and nothing failed
\* the browser is signed in (registerOidcRoutes).  A login gave it its session.
LoginsEndSignedIn ==
  LET over == \A t \in Tabs : reqs[t] = Null /\ tabs[t].at \notin {"login", "provider"}
      begun == oidc /\ cookie # Null
  IN smooth /\ over /\ begun => store[cookie] # Null /\ store[cookie].user

\* What every request under way knows of a session, its token and that it has a
\* user, stays until it is destroyed: no request gives a session a second token or
\* signs its user out (ensureCsrfToken, requireAuth, the OpenID routes).
SessionsKeep ==
  [][\A s \in Sid :
       store[s] # Null /\ store'[s] # Null =>
         LET own == {t \in Tabs : reqs[t] # Null /\ reqs[t].sid = s}
         IN /\ store[s].csrf # Null /\ (\A t \in own : reqs[t].session.csrf = store[s].csrf)
                 => store'[s].csrf = store[s].csrf
            /\ store[s].user /\ (\A t \in own : reqs[t].session.user)
                 => store'[s].user]_vars

\* Whatever other sessions did to theirs, the sample data of a session hold only
\* what is there at first and what it wrote itself (sampleRulesFor and the like).
SampleIsOwn ==
  \A s \in Sid :
    sample[s] # Null =>
      /\ Range(sample[s].rules) \subseteq {0, s}
      /\ Range(sample[s].series) \subseteq {0, s}
=============================================================================
