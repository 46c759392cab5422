--------------------------- MODULE Sessions_proofs ---------------------------
(***************************************************************************)
(* Theorems about Sessions for any tabs and any number of sessions, tokens,*)
(* logins, mutations and restarts.                                         *)
(***************************************************************************)
EXTENDS Sessions, TLAPS

Place == {"blank", "login", "provider", "page", "failed"}
Kind == {"page", "login", "callback", "me", "mutation", "logout"}

TabState == [at: Place, token: Number \cup {Null, Failed}, login: Number \cup {Null}]
Request == [kind: Kind, sid: Sid \cup {Null}, session: Session]
Used == [sessions: 0 .. MaxSessions, numbers: 0 .. MaxNumber, uses: Nat, restarts: Nat]

Known(x) == x # Null => x <= used.sessions

\* What is stored: nothing empty, and nothing under an id not yet given.
Stored ==
  /\ store \in [Sid -> Session \cup {Null}]
  /\ \A s \in Sid : store[s] # Null => store[s] # Empty /\ s <= used.sessions

Asking ==
  /\ reqs \in [Tabs -> Request \cup {Null}]
  /\ \A t \in Tabs : reqs[t] # Null => reqs[t] \in Request /\ Known(reqs[t].sid)

Opened ==
  /\ tabs \in [Tabs -> TabState]
  /\ \A t \in Tabs : Is(t, "mutation") \/ Is(t, "logout") => tabs[t].token \in Number

IInv ==
  /\ Stored
  /\ Asking
  /\ Opened
  /\ cookie \in Sid \cup {Null} /\ Known(cookie)
  /\ used \in Used
  /\ discovery \in {Null, "read", "broken"}

LEMMA IInvTypes == IInv => TypeOK
BY DEF IInv, TypeOK, Stored, Asking, Opened, Request, TabState, Place, Kind

LEMMA Initially == Init => IInv
BY SessionsAssumption DEF Init, IInv, Stored, Asking, Opened, TabState, Place, Used, Known, Is

------------------------------------------------------------------------------
(* Sessions written over *)

LEMMA EmptyTyped == Empty \in Session
BY DEF Empty, Session

LEMMA SignedInTyped ==
  ASSUME NEW s \in Session
  PROVE  /\ SignedIn(s) \in Session /\ SignedIn(s) # Empty
         /\ SignedIn(s).user /\ SignedIn(s).csrf = s.csrf
BY DEF SignedIn, Session, Empty

LEMMA TokenTyped ==
  ASSUME NEW s \in Session, used \in Used, Tokens(s) \in Nat, used.numbers + Tokens(s) <= MaxNumber
  PROVE  /\ EnsureCsrfToken(s) \in Session /\ EnsureCsrfToken(s).csrf \in Number
         /\ EnsureCsrfToken(s) # Empty
         /\ EnsureCsrfToken(s).user = s.user
         /\ s.csrf # Null => EnsureCsrfToken(s).csrf = s.csrf
<1>1. CASE s.csrf # Null
  BY <1>1, SessionsAssumption DEF EnsureCsrfToken, Session, Empty, Number
<1>2. CASE s.csrf = Null
  <2>1. /\ EnsureCsrfToken(s) = [s EXCEPT !.csrf = used.numbers + 1]
        /\ used.numbers \in Nat
    BY <1>2 DEF EnsureCsrfToken, Used
  <2>2. EnsureCsrfToken(s).csrf = used.numbers + 1
    BY <2>1 DEF Session
  <2> used.numbers + 1 # Null
    BY <2>1, SessionsAssumption
  <2>3. EnsureCsrfToken(s) # s
    BY <1>2, <2>2
  <2>4. used.numbers + 1 \in Number
    BY <2>1, <2>3, SessionsAssumption DEF Tokens, Number
  <2> QED
    BY <1>2, <2>1, <2>2, <2>4, SessionsAssumption DEF Session, Empty
<1> QED
  BY <1>1, <1>2

LEMMA TokensNatural == ASSUME NEW s PROVE Tokens(s) \in {0, 1}
BY DEF Tokens

LEMMA TokensCounted ==
  ASSUME NEW s \in Session, used \in Used
  PROVE  Tokens(s) = IF s.csrf = Null THEN 1 ELSE 0
<1>1. CASE s.csrf # Null
  BY <1>1 DEF Tokens, EnsureCsrfToken
<1>2. CASE s.csrf = Null
  <2>1. EnsureCsrfToken(s) = [s EXCEPT !.csrf = used.numbers + 1]
    BY <1>2 DEF EnsureCsrfToken
  <2>2. EnsureCsrfToken(s).csrf = used.numbers + 1
    BY <2>1 DEF Session
  <2>3. used.numbers + 1 # Null
    BY SessionsAssumption DEF Used
  <2>4. EnsureCsrfToken(s) # s
    BY <1>2, <2>2, <2>3
  <2> QED
    BY <1>2, <2>4 DEF Tokens
<1> QED
  BY <1>1, <1>2

LEMMA SignedTokens ==
  ASSUME NEW s \in Session, used \in Used
  PROVE  Tokens(SignedIn(s)) = Tokens(s)
BY SignedInTyped, TokensCounted

LEMMA LoginTyped ==
  ASSUME NEW s \in Session, NEW n \in Number
  PROVE  /\ [s EXCEPT !.login = n] \in Session /\ [s EXCEPT !.login = n] # Empty
         /\ [s EXCEPT !.login = n].user = s.user /\ [s EXCEPT !.login = n].csrf = s.csrf
BY SessionsAssumption DEF Session, Empty, Number

LEMMA CallbackTyped ==
  ASSUME NEW s \in Session
  PROVE  LET r == [s EXCEPT !.user = TRUE, !.login = Null]
         IN r \in Session /\ r # Empty /\ r.user /\ r.csrf = s.csrf
BY DEF Session, Empty

------------------------------------------------------------------------------
(* Requests that begin, end and are lost *)

Others(t) == \A u \in Tabs \ {t} : reqs'[u] = reqs[u]

\* A request that ends with s: what is stored and known after it.
LEMMA Ending ==
  ASSUME IInv, NEW t \in Tabs, reqs[t] # Null, NEW s \in Session, NEW n \in Nat, NEW k \in Nat,
         s # reqs[t].session => s # Empty,
         End(t, s, n, k)
  PROVE  /\ Stored' /\ Asking' /\ (cookie' \in Sid \cup {Null} /\ Known(cookie)')
         /\ used' \in Used /\ reqs'[t] = Null /\ Others(t)
         /\ used.numbers + n <= MaxNumber
<1> DEFINE sid == SidOf(t)
           changed == s # reqs[t].session
           new == changed /\ reqs[t].sid = Null
<1>1. /\ used.sessions \in 0 .. MaxSessions /\ used.numbers \in 0 .. MaxNumber
      /\ used.uses \in Nat /\ MaxSessions \in Nat /\ MaxNumber \in Nat
      /\ used = [sessions |-> used.sessions, numbers |-> used.numbers,
                 uses |-> used.uses, restarts |-> used.restarts]
      /\ used.restarts \in Nat
  BY SessionsAssumption DEF IInv, Used
<1>2. /\ changed => sid \in Sid
      /\ used.numbers + n <= MaxNumber
      /\ store' = IF changed THEN [store EXCEPT ![sid] = s] ELSE store
      /\ cookie' = IF new THEN sid ELSE cookie
      /\ used' = [used EXCEPT !.sessions = IF new THEN sid ELSE @,
                              !.numbers = @ + n, !.uses = @ + k]
      /\ reqs' = [reqs EXCEPT ![t] = Null]
  BY DEF End
<1>3. PICK to : to = IF new THEN sid ELSE used.sessions
  OBVIOUS
<1>4. used' = [sessions |-> to, numbers |-> used.numbers + n,
               uses |-> used.uses + k, restarts |-> used.restarts]
  BY <1>1, <1>2, <1>3
<1>5. reqs[t].sid # Null => reqs[t].sid <= used.sessions
  BY DEF IInv, Asking, Known
<1>6. to \in 0 .. MaxSessions /\ used.sessions <= to /\ (changed => sid <= to)
  <2>1. CASE reqs[t].sid = Null
    BY <1>1, <1>2, <1>3, <2>1 DEF SidOf, Sid
  <2>2. CASE reqs[t].sid # Null
    BY <1>1, <1>2, <1>3, <1>5, <2>2 DEF SidOf, Sid
  <2> QED
    BY <2>1, <2>2
<1>7. used' \in Used /\ used'.sessions = to
  <2>1. /\ used.numbers + n \in 0 .. MaxNumber /\ used.uses + k \in Nat
        /\ to \in 0 .. MaxSessions
    BY <1>1, <1>2, <1>6
  <2>2. PICK i, j : i = used.numbers + n /\ j = used.uses + k
    OBVIOUS
  <2> QED
    BY <1>1, <1>4, <2>1, <2>2 DEF Used
<1>8. Stored'
  <2>1. /\ store \in [Sid -> Session \cup {Null}]
        /\ \A x \in Sid : store[x] # Null => store[x] # Empty /\ x <= used.sessions
    BY DEF IInv, Stored
  <2>2. store' \in [Sid -> Session \cup {Null}]
    BY <1>2, <2>1
  <2>3. ASSUME NEW x \in Sid, store'[x] # Null PROVE store'[x] # Empty /\ x <= to
    <3>1. CASE changed /\ x = sid
      BY <1>2, <1>6, <2>1, <3>1
    <3>2. CASE ~(changed /\ x = sid)
      BY <1>1, <1>2, <1>6, <2>1, <2>3, <3>2 DEF Sid
    <3> QED
      BY <3>1, <3>2
  <2> QED
    BY <1>7, <2>2, <2>3 DEF Stored
<1>9. \A x \in Sid \cup {Null} : Known(x) => Known(x)'
  BY <1>1, <1>6, <1>7, SessionsAssumption DEF Known, Sid
<1>10. Asking'
  <2>1. reqs \in [Tabs -> Request \cup {Null}]
        /\ \A u \in Tabs : reqs[u] # Null => reqs[u] \in Request /\ Known(reqs[u].sid)
    BY DEF IInv, Asking
  <2>2. reqs' \in [Tabs -> Request \cup {Null}]
    BY <1>2, <2>1
  <2>3. ASSUME NEW u \in Tabs, reqs'[u] # Null
        PROVE  reqs'[u] \in Request /\ Known(reqs[u].sid)'
    <3>1. reqs'[u] = reqs[u] /\ reqs[u] # Null
      BY <1>2, <2>1, <2>3
    <3>2. reqs[u] \in Request /\ Known(reqs[u].sid) /\ reqs[u].sid \in Sid \cup {Null}
      BY <2>1, <3>1 DEF Request
    <3> QED
      BY <1>9, <3>1, <3>2 DEF Known
  <2> QED
    BY <2>2, <2>3 DEF Asking, Known
<1>11. cookie' \in Sid \cup {Null} /\ Known(cookie)'
  <2>1. CASE new
    BY <1>2, <1>3, <1>7, <1>1, <1>6, <2>1 DEF Known, Sid
  <2>2. CASE ~new
    BY <1>2, <1>9, <2>2 DEF IInv, Known
  <2> QED
    BY <2>1, <2>2
<1> QED
  BY <1>2, <1>7, <1>8, <1>10, <1>11 DEF IInv, Asking, Others

\* Opened holds when the tab t shows r after a request that ends.
LEMMA Reopening ==
  ASSUME Opened, NEW t \in Tabs, reqs'[t] = Null, Others(t),
         NEW r \in TabState, tabs' = [tabs EXCEPT ![t] = r]
  PROVE  Opened'
<1>1. tabs' \in [Tabs -> TabState]
  BY DEF Opened
<1>2. ASSUME NEW u \in Tabs, Is(u, "mutation")' \/ Is(u, "logout")'
      PROVE  tabs'[u].token \in Number
  <2>1. u # t /\ (Is(u, "mutation") \/ Is(u, "logout"))
    BY <1>2 DEF Is, Others
  <2> QED
    BY <2>1 DEF Opened
<1> QED
  BY <1>1, <1>2 DEF Opened

\* A request that begins: the copy it loads has its session's token and user.
LEMMA Beginning ==
  ASSUME IInv, NEW t \in Tabs, NEW kind \in Kind, Begin(t, kind)
  PROVE  /\ Stored' /\ Asking' /\ used' = used /\ cookie' = cookie /\ Others(t)
         /\ reqs'[t].kind = kind
<1>1. PICK r : r = [kind |-> kind,
                    sid |-> IF cookie # Null /\ store[cookie] # Null THEN cookie ELSE Null,
                    session |-> IF cookie # Null /\ store[cookie] # Null THEN store[cookie]
                                ELSE Empty]
  OBVIOUS
<1>2. reqs' = [reqs EXCEPT ![t] = r] /\ store' = store /\ cookie' = cookie /\ used' = used
  BY <1>1 DEF Begin
<1>3. /\ cookie \in Sid \cup {Null} /\ Known(cookie)
      /\ cookie \in Sid /\ store[cookie] # Null => store[cookie] \in Session
  BY DEF IInv, Stored
<1>4. r \in Request /\ Known(r.sid)
  BY <1>1, <1>3, EmptyTyped DEF Request, Known
<1>5. Asking'
  BY <1>2, <1>4 DEF IInv, Asking, Known
<1> QED
  BY <1>1, <1>2, <1>5 DEF IInv, Stored, Asking, Others

------------------------------------------------------------------------------
(* The invariant is inductive *)

LEMMA TabTyped ==
  ASSUME Opened, NEW t \in Tabs, NEW at \in Place
  PROVE  /\ tabs[t] \in TabState
         /\ [tabs EXCEPT ![t].at = at] = [tabs EXCEPT ![t] = [tabs[t] EXCEPT !.at = at]]
         /\ [tabs[t] EXCEPT !.at = at] \in TabState
         /\ [tabs[t] EXCEPT !.at = at].token = tabs[t].token
BY DEF Opened, TabState

LEMMA OpenStep == ASSUME IInv, NEW t \in Tabs, Open(t) PROVE IInv'
<1>1. /\ "page" \in Kind /\ Begin(t, "page")
      /\ tabs' = [tabs EXCEPT ![t] = [at |-> "blank", token |-> Null, login |-> Null]]
  BY DEF Open, Kind
<1>2. /\ Stored' /\ Asking' /\ used' = used /\ cookie' = cookie /\ Others(t)
      /\ reqs'[t].kind = "page" /\ discovery' = discovery
  BY <1>1, Beginning DEF Begin
<1>3. [at |-> "blank", token |-> Null, login |-> Null] \in TabState
  BY DEF TabState, Place
<1>4. Opened'
  <2>1. tabs' \in [Tabs -> TabState]
    BY <1>1, <1>3 DEF IInv, Opened
  <2>2. ASSUME NEW u \in Tabs, Is(u, "mutation")' \/ Is(u, "logout")'
        PROVE  tabs'[u].token \in Number
    <3>1. u # t /\ (Is(u, "mutation") \/ Is(u, "logout"))
      BY <1>2, <2>2 DEF Is, Others
    <3> QED
      BY <1>1, <3>1 DEF IInv, Opened
  <2> QED
    BY <2>1, <2>2 DEF Opened
<1> QED
  BY <1>2, <1>4 DEF IInv, Known

\* A request begins and the tab stays as it is.
LEMMA BeginStep ==
  ASSUME IInv, NEW t \in Tabs, NEW kind \in Kind, Begin(t, kind), tabs' = tabs,
         kind \in {"mutation", "logout"} => tabs[t].token \in Number
  PROVE  IInv'
<1>1. /\ Stored' /\ Asking' /\ used' = used /\ cookie' = cookie /\ Others(t)
      /\ reqs'[t].kind = kind /\ discovery' = discovery
  BY Beginning DEF Begin
<1>2. Opened'
  BY <1>1 DEF IInv, Opened, Is, Others
<1> QED
  BY <1>1, <1>2 DEF IInv, Known

LEMMA LeaveStep == ASSUME IInv, NEW t \in Tabs, Leave(t) PROVE IInv'
<1>1. "blank" \in Place /\ Opened
  BY DEF Place, IInv
<1>2. tabs' = [tabs EXCEPT ![t] = [tabs[t] EXCEPT !.at = "blank"]]
      /\ [tabs[t] EXCEPT !.at = "blank"] \in TabState
      /\ [tabs[t] EXCEPT !.at = "blank"].token = tabs[t].token
  BY <1>1, TabTyped DEF Leave
<1>3. Opened'
  BY <1>1, <1>2 DEF Opened, Leave, Is
<1> QED
  BY <1>3 DEF IInv, Leave, Stored, Asking, Known

LEMMA RequestTyped ==
  ASSUME IInv, NEW t \in Tabs, reqs[t] # Null
  PROVE  reqs[t] \in Request /\ reqs[t].session \in Session
BY DEF IInv, Asking, Request

LEMMA ServePageStep == ASSUME IInv, NEW t \in Tabs, ServePage(t) PROVE IInv'
<1> DEFINE s == reqs[t].session
<1>1. reqs[t] # Null /\ s \in Session /\ discovery' = discovery
  BY RequestTyped DEF ServePage, Is
<1>2. PICK r \in {s, SignedIn(s)}, at \in Place : End(t, r, 0, 0) /\ At(t, at)
  BY DEF ServePage, Place
<1>3. r \in Session /\ (r # s => r # Empty)
  BY <1>1, <1>2, SignedInTyped
<1>4. Stored' /\ Asking' /\ (cookie' \in Sid \cup {Null} /\ Known(cookie)')
      /\ used' \in Used /\ reqs'[t] = Null /\ Others(t)
  BY <1>1, <1>2, <1>3, Ending
<1>5. Opened'
  BY <1>2, <1>4, TabTyped, Reopening DEF At, IInv
<1> QED
  BY <1>1, <1>4, <1>5 DEF IInv

LEMMA ServeMeStep == ASSUME IInv, NEW t \in Tabs, ServeMe(t) PROVE IInv'
<1> DEFINE given == reqs[t].session
           s == EnsureCsrfToken(SignedIn(given))
<1>1. reqs[t] # Null /\ given \in Session /\ used \in Used /\ discovery' = discovery
  BY RequestTyped DEF ServeMe, Is, IInv
<1>2. ASSUME NEW r \in Session, r # given => r # Empty, NEW n \in Nat,
             NEW token \in Number \cup {Failed},
             End(t, r, n, 0), tabs' = [tabs EXCEPT ![t].token = token]
      PROVE  IInv'
  <2>1. Stored' /\ Asking' /\ (cookie' \in Sid \cup {Null} /\ Known(cookie)')
        /\ used' \in Used /\ reqs'[t] = Null /\ Others(t)
    BY <1>1, <1>2, Ending
  <2>2. tabs[t] \in TabState
    BY DEF IInv, Opened
  <2>3. [tabs[t] EXCEPT !.token = token] \in TabState
    BY <2>2 DEF TabState
  <2>4. tabs' = [tabs EXCEPT ![t] = [tabs[t] EXCEPT !.token = token]]
    BY <1>2
  <2>5. Opened'
    BY <2>1, <2>3, <2>4, Reopening DEF IInv
  <2> QED
    BY <1>1, <2>1, <2>5 DEF IInv
<1>3. CASE Allowed(given)
  <2>1. End(t, s, Tokens(given), 0) /\ tabs' = [tabs EXCEPT ![t].token = s.csrf]
    BY <1>3 DEF ServeMe
  <2>2. SignedIn(given) \in Session /\ Tokens(SignedIn(given)) = Tokens(given)
        /\ Tokens(given) \in Nat
    BY <1>1, SignedInTyped, SignedTokens, TokensNatural
  <2>3. s \in Session /\ s # Empty /\ s.csrf \in Number
    BY <1>1, <2>1, <2>2, TokenTyped DEF End
  <2> QED
    BY <1>2, <2>1, <2>2, <2>3
<1>4. CASE ~Allowed(given)
  <2>1. End(t, given, 0, 0) /\ tabs' = [tabs EXCEPT ![t].token = Failed]
    BY <1>4 DEF ServeMe
  <2> QED
    BY <1>1, <1>2, <2>1
<1> QED
  BY <1>3, <1>4

LEMMA ServeLoginStep == ASSUME IInv, NEW t \in Tabs, ServeLogin(t) PROVE IInv'
<1> DEFINE s == reqs[t].session
           n == used.numbers + 1
<1>1. reqs[t] # Null /\ s \in Session /\ used \in Used
  BY RequestTyped DEF ServeLogin, Is, IInv
<1>2. discovery' \in {Null, "read", "broken"}
  BY DEF ServeLogin, IInv
<1>3. CASE discovery' = "read"
  <2>1. /\ End(t, [s EXCEPT !.login = n], 1, 0)
        /\ tabs' = [tabs EXCEPT ![t].at = "provider", ![t].login = n]
    BY <1>3 DEF ServeLogin
  <2>2. n \in Number
    BY <1>1, <2>1, SessionsAssumption DEF End, Used, Number
  <2>3. [s EXCEPT !.login = n] \in Session /\ [s EXCEPT !.login = n] # Empty
    BY <1>1, <2>2, LoginTyped
  <2>4. Stored' /\ Asking' /\ (cookie' \in Sid \cup {Null} /\ Known(cookie)')
        /\ used' \in Used /\ reqs'[t] = Null /\ Others(t)
    BY <1>1, <2>1, <2>3, Ending
  <2>5. PICK r : r = [tabs[t] EXCEPT !.at = "provider", !.login = n]
    OBVIOUS
  <2>6. r \in TabState
    BY <2>2, <2>5 DEF IInv, Opened, TabState, Place
  <2>7. tabs' = [tabs EXCEPT ![t] = r]
    BY <2>1, <2>5 DEF IInv, Opened
  <2> QED
    BY <1>2, <2>4, <2>6, <2>7, Reopening DEF IInv
<1>4. CASE discovery' # "read"
  <2>1. End(t, s, 0, 0) /\ At(t, "failed")
    BY <1>4 DEF ServeLogin
  <2>2. Stored' /\ Asking' /\ (cookie' \in Sid \cup {Null} /\ Known(cookie)')
        /\ used' \in Used /\ reqs'[t] = Null /\ Others(t)
    BY <1>1, <2>1, Ending
  <2> QED
    BY <1>2, <2>1, <2>2, TabTyped, Reopening DEF At, IInv, Place
<1> QED
  BY <1>3, <1>4

LEMMA ServeCallbackStep == ASSUME IInv, NEW t \in Tabs, ServeCallback(t) PROVE IInv'
<1> DEFINE s == reqs[t].session
<1>1. reqs[t] # Null /\ s \in Session /\ discovery' = discovery
  BY RequestTyped DEF ServeCallback, Is
<1>2. PICK r \in {s, [s EXCEPT !.user = TRUE, !.login = Null]}, at \in Place :
        End(t, r, 0, 0) /\ At(t, at)
  BY DEF ServeCallback, Refused, Place
<1>3. r \in Session /\ (r # s => r # Empty)
  BY <1>1, <1>2, CallbackTyped
<1>4. Stored' /\ Asking' /\ (cookie' \in Sid \cup {Null} /\ Known(cookie)')
      /\ used' \in Used /\ reqs'[t] = Null /\ Others(t)
  BY <1>1, <1>2, <1>3, Ending
<1> QED
  BY <1>1, <1>2, <1>4, TabTyped, Reopening DEF At, IInv

LEMMA ServeLogoutStep == ASSUME IInv, NEW t \in Tabs, ServeLogout(t) PROVE IInv'
<1> DEFINE given == reqs[t].session
           s == EnsureCsrfToken(given)
<1>1. reqs[t] # Null /\ given \in Session /\ used \in Used /\ discovery' = discovery
      /\ At(t, "blank")
  BY RequestTyped DEF ServeLogout, Is, IInv
<1>2. Stored' /\ Asking' /\ (cookie' \in Sid \cup {Null} /\ Known(cookie)')
      /\ used' \in Used /\ reqs'[t] = Null /\ Others(t)
  <2>1. CASE s.csrf = tabs[t].token
    <3>1. /\ store' = [store EXCEPT ![reqs[t].sid] = Null]
          /\ reqs' = [reqs EXCEPT ![t] = Null] /\ cookie' = cookie /\ used' = used
      BY <2>1 DEF ServeLogout
    <3> QED
      BY <1>1, <3>1 DEF IInv, Stored, Asking, Known, Others
  <2>2. CASE s.csrf # tabs[t].token
    <3>1. End(t, s, Tokens(given), 0)
      BY <2>2 DEF ServeLogout
    <3>2. s \in Session /\ s # Empty /\ Tokens(given) \in Nat
      BY <1>1, <3>1, TokensNatural, TokenTyped DEF End
    <3> QED
      BY <1>1, <3>1, <3>2, Ending
  <2> QED
    BY <2>1, <2>2
<1> QED
  BY <1>1, <1>2, TabTyped, Reopening DEF At, IInv, Place

LEMMA ServeMutationStep == ASSUME IInv, NEW t \in Tabs, ServeMutation(t) PROVE IInv'
<1> DEFINE given == reqs[t].session
           s == EnsureCsrfToken(SignedIn(given))
<1>1. reqs[t] # Null /\ given \in Session /\ used \in Used
      /\ discovery' = discovery /\ tabs' = tabs
  BY RequestTyped DEF ServeMutation, Is, IInv
<1>2. End(t, given, 0, 1) \/ End(t, s, Tokens(given), 1)
  BY DEF ServeMutation
<1>3. CASE End(t, given, 0, 1)
  <2>1. Stored' /\ Asking' /\ (cookie' \in Sid \cup {Null} /\ Known(cookie)')
        /\ used' \in Used /\ reqs'[t] = Null /\ Others(t)
    BY <1>1, <1>3, Ending
  <2> QED
    BY <1>1, <2>1 DEF IInv, Opened, Is, Others
<1>4. CASE End(t, s, Tokens(given), 1)
  <2>1. SignedIn(given) \in Session /\ Tokens(SignedIn(given)) = Tokens(given)
        /\ Tokens(given) \in Nat
    BY <1>1, SignedInTyped, SignedTokens, TokensNatural
  <2>2. s \in Session /\ s # Empty
    BY <1>1, <1>4, <2>1, TokenTyped DEF End
  <2>3. Stored' /\ Asking' /\ (cookie' \in Sid \cup {Null} /\ Known(cookie)')
        /\ used' \in Used /\ reqs'[t] = Null /\ Others(t)
    BY <1>1, <1>4, <2>1, <2>2, Ending
  <2> QED
    BY <1>1, <2>3 DEF IInv, Opened, Is, Others
<1> QED
  BY <1>2, <1>3, <1>4

LEMMA LoseStep == ASSUME IInv, NEW t \in Tabs, Lose(t) PROVE IInv'
<1>1. PICK at \in Place, token \in Number \cup {Null, Failed} :
        tabs' = [tabs EXCEPT ![t].at = at, ![t].token = token]
  <2>1. tabs[t] \in TabState
    BY DEF IInv, Opened
  <2>2. tabs[t].at \in Place /\ tabs[t].token \in Number \cup {Null, Failed}
    BY <2>1 DEF TabState
  <2>3. PICK at : at = IF Is(t, "page") \/ Is(t, "login") \/ Is(t, "callback")
                       THEN "failed" ELSE tabs[t].at
    OBVIOUS
  <2>4. PICK token : token = IF Is(t, "me") THEN Failed ELSE tabs[t].token
    OBVIOUS
  <2>5. tabs' = [tabs EXCEPT ![t].at = at, ![t].token = token]
    BY <2>3, <2>4 DEF Lose
  <2> QED
    BY <2>2, <2>3, <2>4, <2>5 DEF Place
<1>2. PICK r : r = [tabs[t] EXCEPT !.at = at, !.token = token]
  OBVIOUS
<1>3. r \in TabState /\ tabs' = [tabs EXCEPT ![t] = r]
  BY <1>1, <1>2 DEF IInv, Opened, TabState
<1>4. reqs' = [reqs EXCEPT ![t] = Null]
  BY DEF Lose
<1>5. reqs'[t] = Null /\ Others(t)
  BY <1>4 DEF IInv, Asking, Others
<1>6. Opened'
  BY <1>3, <1>5, Reopening DEF IInv
<1>7. Asking'
  BY <1>4 DEF Lose, IInv, Asking, Known
<1> QED
  BY <1>6, <1>7 DEF Lose, IInv, Stored, Known

LEMMA RestartStep == ASSUME IInv, Restart PROVE IInv'
<1>1. used' = [sessions |-> used.sessions, numbers |-> used.numbers,
               uses |-> used.uses, restarts |-> used.restarts + 1]
      /\ used.restarts \in Nat /\ used.sessions \in 0 .. MaxSessions
      /\ used.numbers \in 0 .. MaxNumber /\ used.uses \in Nat
  BY DEF Restart, IInv, Used
<1>2. used' \in Used /\ used'.sessions = used.sessions
  <2>1. PICK i : i = used.restarts + 1
    OBVIOUS
  <2>2. i \in Nat
    BY <1>1, <2>1
  <2> QED
    BY <1>1, <2>1, <2>2 DEF Used
<1>3. Stored'
  BY DEF Restart, Stored
<1>4. reqs' = reqs /\ tabs' = tabs /\ cookie' = cookie /\ discovery' = Null
  BY DEF Restart
<1> QED
  BY <1>2, <1>3, <1>4 DEF IInv, Asking, Opened, Is, Known

LEMMA Inductive == IInv /\ [Next]_vars => IInv'
<1> SUFFICES ASSUME IInv, [Next]_vars PROVE IInv'
  OBVIOUS
<1>1. ASSUME NEW t \in Tabs, Login(t) PROVE IInv'
  BY <1>1, BeginStep DEF Login, Kind
<1>2. ASSUME NEW t \in Tabs, Callback(t) PROVE IInv'
  BY <1>2, BeginStep DEF Callback, Kind
<1>3. ASSUME NEW t \in Tabs, Me(t) PROVE IInv'
  BY <1>3, BeginStep DEF Me, Kind
<1>4. ASSUME NEW t \in Tabs, Mutate(t) PROVE IInv'
  BY <1>4, BeginStep DEF Mutate, Kind
<1>5. ASSUME NEW t \in Tabs, Logout(t) PROVE IInv'
  BY <1>5, BeginStep DEF Logout, Kind
<1>6. CASE UNCHANGED vars
  BY <1>6 DEF vars, IInv, Stored, Asking, Opened, Is, Known
<1> QED
  BY <1>1, <1>2, <1>3, <1>4, <1>5, <1>6, OpenStep, LeaveStep, ServePageStep, ServeMeStep,
     ServeLoginStep, ServeCallbackStep, ServeLogoutStep, ServeMutationStep, LoseStep,
     RestartStep DEF Next

LEMMA Invariance == Spec => []IInv
BY Initially, Inductive, PTL DEF Spec

\* Sessions, tabs and requests keep their types for any number of them; nothing
\* empty is stored, and a mutation is under way only with a token
\* (createSessionMiddleware, csrfToken).
THEOREM TypeCorrect == Spec => []TypeOK
BY Invariance, IInvTypes, PTL

------------------------------------------------------------------------------
(* What requests know of a session stays *)

\* The request that ends with s writes nothing of a session that is there but what
\* its copy had.
LEMMA EndingKeeps ==
  ASSUME IInv, NEW t \in Tabs, reqs[t] # Null, NEW s \in Session, NEW n, NEW k, End(t, s, n, k),
         LET c == reqs[t].session
         IN (c.csrf # Null => s.csrf = c.csrf) /\ (c.user => s.user),
         NEW x \in Sid, store[x] # Null
  PROVE  \/ store'[x] = store[x]
         \/ /\ reqs[t].sid = x /\ store'[x] = s
<1>1. /\ store \in [Sid -> Session \cup {Null}] /\ x <= used.sessions
      /\ used.sessions \in Nat /\ x \in Nat
  BY SessionsAssumption DEF IInv, Stored, Used, Sid
<1>2. store' = IF s # reqs[t].session THEN [store EXCEPT ![SidOf(t)] = s] ELSE store
  BY DEF End
<1>3. CASE SidOf(t) = x
  <2>1. reqs[t].sid = x
    BY <1>1, <1>3 DEF SidOf
  <2> QED
    BY <1>1, <1>2, <1>3, <2>1
<1>4. CASE SidOf(t) # x
  BY <1>1, <1>2, <1>4
<1> QED
  BY <1>3, <1>4

\* A request keeps the token and the user its copy has.
Keeps(s, c) == s \in Session /\ (c.csrf # Null => s.csrf = c.csrf) /\ (c.user => s.user)

KeptBy(t, x) ==
  reqs[t] # Null /\ reqs[t].sid = x /\ Keeps(store'[x], reqs[t].session)

\* What may become of a session that is there.
LEMMA SessionMove ==
  ASSUME IInv, [Next]_vars, NEW x \in Sid, store[x] # Null
  PROVE  store'[x] = store[x] \/ store'[x] = Null \/ \E t \in Tabs : KeptBy(t, x)
<1>1. ASSUME NEW t \in Tabs, reqs[t] # Null, NEW s, Keeps(s, reqs[t].session),
             NEW n, NEW k, End(t, s, n, k)
      PROVE  store'[x] = store[x] \/ KeptBy(t, x)
  BY <1>1, EndingKeeps DEF Keeps, KeptBy
<1>2. ASSUME NEW t \in Tabs, reqs[t] # Null PROVE reqs[t].session \in Session
  BY <1>2, RequestTyped
<1>3. ASSUME NEW c \in Session, used \in Used
      PROVE  /\ Keeps(c, c) /\ Keeps(SignedIn(c), c)
             /\ Keeps([c EXCEPT !.user = TRUE, !.login = Null], c)
             /\ \A i \in Number : Keeps([c EXCEPT !.login = i], c)
  <2>1. Keeps(c, c)
    BY DEF Keeps
  <2>2. Keeps(SignedIn(c), c)
    BY SignedInTyped DEF Keeps
  <2>3. Keeps([c EXCEPT !.user = TRUE, !.login = Null], c)
    BY CallbackTyped DEF Keeps
  <2>4. ASSUME NEW i \in Number PROVE Keeps([c EXCEPT !.login = i], c)
    BY LoginTyped DEF Keeps
  <2> QED
    BY <2>1, <2>2, <2>3, <2>4
<1>4. ASSUME NEW c \in Session, used \in Used, used.numbers + Tokens(c) <= MaxNumber
      PROVE  Keeps(EnsureCsrfToken(c), c) /\ Keeps(EnsureCsrfToken(SignedIn(c)), c)
  <2>1. SignedIn(c) \in Session /\ Tokens(SignedIn(c)) = Tokens(c)
    BY <1>4, SignedInTyped, SignedTokens
  <2>2. Tokens(c) \in Nat
    BY TokensNatural
  <2>3. EnsureCsrfToken(c) \in Session /\ EnsureCsrfToken(c).user = c.user
        /\ (c.csrf # Null => EnsureCsrfToken(c).csrf = c.csrf)
    BY <1>4, <2>2, TokenTyped
  <2>4. LET d == SignedIn(c)
        IN /\ EnsureCsrfToken(d) \in Session /\ EnsureCsrfToken(d).user = d.user
           /\ (d.csrf # Null => EnsureCsrfToken(d).csrf = d.csrf)
    BY <1>4, <2>1, <2>2, TokenTyped
  <2> QED
    BY <1>4, <2>3, <2>4, SignedInTyped DEF Keeps
<1> DEFINE Goal == store'[x] = store[x] \/ store'[x] = Null \/ \E t \in Tabs : KeptBy(t, x)
<1>5. used \in Used
  BY DEF IInv
<1>6. ASSUME NEW t \in Tabs, ServePage(t) PROVE Goal
  <2>1. reqs[t] # Null /\ (End(t, reqs[t].session, 0, 0)
                           \/ End(t, SignedIn(reqs[t].session), 0, 0))
    BY <1>6 DEF ServePage, Is
  <2> QED
    BY <2>1, <1>1, <1>2, <1>3, <1>5
<1>7. ASSUME NEW t \in Tabs, ServeMe(t) PROVE Goal
  <2>1. reqs[t] # Null
        /\ \/ End(t, reqs[t].session, 0, 0)
           \/ End(t, EnsureCsrfToken(SignedIn(reqs[t].session)), Tokens(reqs[t].session), 0)
    BY <1>7 DEF ServeMe, Is
  <2>2. CASE End(t, reqs[t].session, 0, 0)
    BY <2>1, <2>2, <1>1, <1>2, <1>3, <1>5
  <2>3. CASE End(t, EnsureCsrfToken(SignedIn(reqs[t].session)), Tokens(reqs[t].session), 0)
    <3>1. used.numbers + Tokens(reqs[t].session) <= MaxNumber
      BY <2>3 DEF End
    <3> QED
      BY <2>1, <2>3, <3>1, <1>1, <1>2, <1>4, <1>5
  <2> QED
    BY <2>1, <2>2, <2>3
<1>8. ASSUME NEW t \in Tabs, ServeLogin(t) PROVE Goal
  <2>1. reqs[t] # Null
        /\ \/ End(t, reqs[t].session, 0, 0)
           \/ End(t, [reqs[t].session EXCEPT !.login = used.numbers + 1], 1, 0)
    BY <1>8 DEF ServeLogin, Is
  <2>2. CASE End(t, reqs[t].session, 0, 0)
    BY <2>1, <2>2, <1>1, <1>2, <1>3, <1>5
  <2>3. CASE End(t, [reqs[t].session EXCEPT !.login = used.numbers + 1], 1, 0)
    <3>1. used.numbers + 1 \in Number
      BY <1>5, <2>3, SessionsAssumption DEF End, Used, Number
    <3> QED
      BY <2>1, <2>3, <3>1, <1>1, <1>2, <1>3, <1>5
  <2> QED
    BY <2>1, <2>2, <2>3
<1>9. ASSUME NEW t \in Tabs, ServeCallback(t) PROVE Goal
  <2>1. reqs[t] # Null
        /\ \/ End(t, reqs[t].session, 0, 0)
           \/ End(t, [reqs[t].session EXCEPT !.user = TRUE, !.login = Null], 0, 0)
    BY <1>9 DEF ServeCallback, Is, Refused
  <2> QED
    BY <2>1, <1>1, <1>2, <1>3, <1>5
<1>10. ASSUME NEW t \in Tabs, ServeLogout(t) PROVE Goal
  <2>1. reqs[t] # Null
        /\ \/ store' = [store EXCEPT ![reqs[t].sid] = Null]
           \/ End(t, EnsureCsrfToken(reqs[t].session), Tokens(reqs[t].session), 0)
    BY <1>10 DEF ServeLogout, Is
  <2>2. CASE store' = [store EXCEPT ![reqs[t].sid] = Null]
    BY <2>2 DEF IInv, Stored
  <2>3. CASE End(t, EnsureCsrfToken(reqs[t].session), Tokens(reqs[t].session), 0)
    <3>1. used.numbers + Tokens(reqs[t].session) <= MaxNumber
      BY <2>3 DEF End
    <3> QED
      BY <2>1, <2>3, <3>1, <1>1, <1>2, <1>4, <1>5
  <2> QED
    BY <2>1, <2>2, <2>3
<1>11. ASSUME NEW t \in Tabs, ServeMutation(t) PROVE Goal
  <2>1. reqs[t] # Null
        /\ \/ End(t, reqs[t].session, 0, 1)
           \/ End(t, EnsureCsrfToken(SignedIn(reqs[t].session)), Tokens(reqs[t].session), 1)
    BY <1>11 DEF ServeMutation, Is
  <2>2. CASE End(t, reqs[t].session, 0, 1)
    BY <2>1, <2>2, <1>1, <1>2, <1>3, <1>5
  <2>3. CASE End(t, EnsureCsrfToken(SignedIn(reqs[t].session)), Tokens(reqs[t].session), 1)
    <3>1. used.numbers + Tokens(reqs[t].session) <= MaxNumber
      BY <2>3 DEF End
    <3> QED
      BY <2>1, <2>3, <3>1, <1>1, <1>2, <1>4, <1>5
  <2> QED
    BY <2>1, <2>2, <2>3
<1>12. CASE Restart
  BY <1>12 DEF Restart
<1>13. CASE UNCHANGED vars
  BY <1>13 DEF vars
<1>14. ASSUME NEW t \in Tabs,
              Open(t) \/ Login(t) \/ Callback(t) \/ Leave(t) \/ Me(t) \/ Mutate(t) \/ Logout(t)
                \/ Lose(t)
       PROVE  Goal
  BY <1>14 DEF Open, Login, Callback, Leave, Me, Mutate, Logout, Lose, Begin
<1> QED
  BY <1>6, <1>7, <1>8, <1>9, <1>10, <1>11, <1>12, <1>13, <1>14 DEF Next

\* The token and the user that all requests under way know of a session stay until
\* it is destroyed (ensureCsrfToken, requireAuth, the OpenID routes).
THEOREM SessionsHold == Spec => SessionsKeep
<1> DEFINE Own(x) == {t \in Tabs : reqs[t] # Null /\ reqs[t].sid = x}
           Kept(x) ==
             store[x] # Null /\ store'[x] # Null =>
               /\ store[x].csrf # Null /\ (\A t \in Own(x) : reqs[t].session.csrf = store[x].csrf)
                    => store'[x].csrf = store[x].csrf
               /\ store[x].user /\ (\A t \in Own(x) : reqs[t].session.user) => store'[x].user
<1>1. ASSUME IInv, [Next]_vars, NEW x \in Sid PROVE Kept(x)
  <2>1. CASE store'[x] = store[x] \/ store[x] = Null \/ store'[x] = Null
    BY <2>1
  <2>2. CASE store[x] # Null /\ \E t \in Tabs : KeptBy(t, x)
    BY <2>2 DEF KeptBy, Keeps
  <2> QED
    BY <1>1, <2>1, <2>2, SessionMove
<1>2. IInv /\ [Next]_vars =>
        [\A s \in Sid :
           store[s] # Null /\ store'[s] # Null =>
             LET own == {t \in Tabs : reqs[t] # Null /\ reqs[t].sid = s}
             IN /\ store[s].csrf # Null /\ (\A t \in own : reqs[t].session.csrf = store[s].csrf)
                     => store'[s].csrf = store[s].csrf
                /\ store[s].user /\ (\A t \in own : reqs[t].session.user)
                     => store'[s].user]_vars
  BY <1>1
<1> QED
  BY <1>2, Invariance, PTL DEF Spec, SessionsKeep

------------------------------------------------------------------------------
(* Sample data *)

\* Sample data that nobody but session s wrote.
OwnSample(s) ==
  [rules: Seq({0, s}), series: UNION {[D -> {0, s}] : D \in SUBSET {1, 2}}, inbox: SUBSET {4}]

OwnSamples == {OwnSample(s) : s \in Sid}
AnySample == (UNION OwnSamples) \cup {Null}

LEMMA AnySampleTyped == Null \in AnySample /\ \A s \in Sid : OwnSample(s) \subseteq AnySample
<1>1. \A s \in Sid : OwnSample(s) \in OwnSamples
  BY DEF OwnSamples
<1> QED
  BY <1>1 DEF AnySample

SamplesOwned ==
  /\ sample \in [Sid -> AnySample]
  /\ \A s \in Sid : sample[s] # Null => sample[s] \in OwnSample(s)

LEMMA SamplesTyped == ASSUME NEW s PROVE Samples \in OwnSample(s)
<1>1. <<0>> \in Seq({0, s})
  OBVIOUS
<1>2. [id \in {1, 2} |-> 0] \in [{1, 2} -> {0, s}]
  OBVIOUS
<1> QED
  BY <1>1, <1>2 DEF Samples, OwnSample

\* Whatever a handler writes for session s is its own.
LEMMA WrittenTyped ==
  ASSUME NEW s, NEW d \in OwnSample(s), NEW e \in Written(d, s)
  PROVE  e \in OwnSample(s)
<1>1. PICK D \in SUBSET {1, 2} : d.series \in [D -> {0, s}]
  BY DEF OwnSample
<1>2. d.rules \in Seq({0, s}) /\ d.inbox \in SUBSET {4}
      /\ d = [rules |-> d.rules, series |-> d.series, inbox |-> d.inbox]
  BY DEF OwnSample
<1>3. ASSUME NEW r \in Seq({0, s}) PROVE [d EXCEPT !.rules = r] \in OwnSample(s)
  BY <1>1, <1>2 DEF OwnSample
<1>4. ASSUME NEW E \in SUBSET {1, 2}, NEW f \in [E -> {0, s}]
      PROVE  [d EXCEPT !.series = f] \in OwnSample(s)
  BY <1>1, <1>2, <1>4 DEF OwnSample
<1>5. CASE e \in SampleCreateRule(d, s)
  <2>1. <<s>> \o d.rules \in Seq({0, s})
    BY <1>2
  <2> QED
    BY <1>3, <1>5, <2>1 DEF SampleCreateRule
<1>6. CASE e \in SampleUpdateRule(d, s) \cup SampleSetRuleActive(d, s)
  <2>1. PICK i \in DOMAIN d.rules : e = [d EXCEPT !.rules[i] = s]
    BY <1>6 DEF SampleUpdateRule, SampleSetRuleActive
  <2>2. [d.rules EXCEPT ![i] = s] \in Seq({0, s})
    BY <1>2
  <2> QED
    BY <1>3, <2>1, <2>2
<1>7. CASE e \in SampleConfirm(d, s) \cup SampleUpdateSeries(d, s)
  <2>1. PICK i \in DOMAIN d.series : e = [d EXCEPT !.series[i] = s]
    BY <1>7 DEF SampleConfirm, SampleUpdateSeries
  <2>2. [d.series EXCEPT ![i] = s] \in [D -> {0, s}]
    BY <1>1
  <2> QED
    BY <1>4, <2>1, <2>2
<1>8. CASE e \in SampleDisable(d)
  <2>1. PICK i \in DOMAIN d.series :
          e = [d EXCEPT !.series = Restrict(@, DOMAIN @ \ {i})]
    BY <1>8 DEF SampleDisable
  <2>2. Restrict(d.series, DOMAIN d.series \ {i}) \in [D \ {i} -> {0, s}]
    BY <1>1 DEF Restrict
  <2>3. D \ {i} \in SUBSET {1, 2}
    OBVIOUS
  <2> QED
    BY <1>4, <2>1, <2>2, <2>3
<1>9. CASE e \in SampleReview(d)
  BY <1>1, <1>2, <1>9 DEF SampleReview, OwnSample
<1> QED
  BY <1>5, <1>6, <1>7, <1>8, <1>9 DEF Written

\* The sample data of a session are what is there at first and what it wrote
\* itself, whatever other sessions do (sampleRulesFor and the like).
THEOREM SamplesAreOwn == Spec => []SampleIsOwn
<1>1. Init => SamplesOwned
  BY AnySampleTyped DEF Init, SamplesOwned
<1>2. ASSUME IInv, SamplesOwned, [Next]_vars PROVE SamplesOwned'
  <2>1. CASE sample' = sample
    BY <1>2, <2>1 DEF SamplesOwned
  <2>2. CASE Restart
    BY <2>2, AnySampleTyped DEF Restart, SamplesOwned
  <2>3. ASSUME NEW t \in Tabs, ServeMutation(t), sample' # sample PROVE SamplesOwned'
    <3> DEFINE s == SidOf(t)
    <3>1. PICK d \in Written(SampleFor(s), s) : sample' = [sample EXCEPT ![s] = d]
      BY <2>3 DEF ServeMutation
    <3>2. s \in Sid
      BY <1>2, <2>3, <3>1 DEF SamplesOwned
    <3>3. SampleFor(s) \in OwnSample(s)
      BY <1>2, <3>2, SamplesTyped DEF SampleFor, SamplesOwned
    <3>4. d \in OwnSample(s)
      BY <3>1, <3>3, WrittenTyped
    <3> HIDE DEF s
    <3> QED
      BY <1>2, <3>1, <3>2, <3>4, AnySampleTyped DEF SamplesOwned
  <2>4. CASE UNCHANGED vars
    BY <2>1, <2>4 DEF vars
  <2>5. ASSUME NEW t \in Tabs,
               Open(t) \/ Login(t) \/ Callback(t) \/ Leave(t) \/ Me(t) \/ Mutate(t)
                 \/ Logout(t) \/ ServePage(t) \/ ServeLogin(t) \/ ServeCallback(t)
                 \/ ServeMe(t) \/ ServeLogout(t) \/ Lose(t)
        PROVE  sample' = sample
    BY <2>5 DEF Open, Login, Callback, Leave, Me, Mutate, Logout, ServePage, ServeLogin,
       ServeCallback, ServeMe, ServeLogout, Lose, Begin
  <2> QED
    BY <1>2, <2>1, <2>2, <2>3, <2>4, <2>5 DEF Next
<1>3. SamplesOwned => SampleIsOwn
  <2> SUFFICES ASSUME SamplesOwned, NEW s \in Sid, sample[s] # Null
               PROVE  /\ Range(sample[s].rules) \subseteq {0, s}
                      /\ Range(sample[s].series) \subseteq {0, s}
    BY DEF SampleIsOwn
  <2>1. PICK D \in SUBSET {1, 2} :
          sample[s].rules \in Seq({0, s}) /\ sample[s].series \in [D -> {0, s}]
    <3>1. sample[s] \in OwnSample(s)
      BY DEF SamplesOwned
    <3> QED
      BY <3>1 DEF OwnSample
  <2>2. PICK r, f : r = sample[s].rules /\ f = sample[s].series
    OBVIOUS
  <2>3. \A i \in DOMAIN r : r[i] \in {0, s}
    BY <2>1, <2>2
  <2>4. \A i \in DOMAIN f : f[i] \in {0, s}
    BY <2>1, <2>2
  <2> QED
    BY <2>2, <2>3, <2>4 DEF Range
<1> QED
  BY <1>1, <1>2, <1>3, Invariance, PTL DEF Spec

------------------------------------------------------------------------------
(***************************************************************************)
(* Logins.  While nothing failed there is always a tab whose login will end *)
(* signed in, or the session is: who writes the session's login last is     *)
(* still away at the provider or about to go there, and a copy of the       *)
(* session from before a callback only writes it with another login.        *)
(***************************************************************************)

\* Where a tab is while a request of a kind is under way.
PlaceOf == [page |-> "blank", login |-> "login", callback |-> "provider",
            me |-> "page", mutation |-> "page", logout |-> "page"]

Placed ==
  \A t \in Tabs : reqs[t] # Null =>
    tabs[t].at = PlaceOf[reqs[t].kind] /\ (smooth => reqs[t].kind # "logout")

\* A request without a session has an empty one.
Bare == \A t \in Tabs : reqs[t] # Null /\ reqs[t].sid = Null => reqs[t].session = Empty

\* No session knows a login to come.
Old(s) == s.login = Null \/ s.login <= used.numbers
Olds ==
  /\ \A s \in Sid : store[s] # Null => Old(store[s])
  /\ \A t \in Tabs : reqs[t] # Null => Old(reqs[t].session)

PInv == IInv /\ Placed /\ Bare /\ Olds

\* Nobody has been to the provider yet.
Before ==
  /\ cookie = Null
  /\ \A t \in Tabs : tabs[t].login = Null /\ (reqs[t] # Null => reqs[t].sid = Null)

In == cookie # Null /\ store[cookie] # Null /\ store[cookie].user

\* The tab will end signed in when nothing of another tab comes between.
Will(t) ==
  \/ /\ tabs[t].at = "login"
     /\ reqs[t] # Null => reqs[t].sid \in {Null, cookie}
  \/ /\ tabs[t].at = "provider" /\ cookie \in Sid /\ tabs[t].login # Null
     /\ reqs[t] = Null => store[cookie] # Null /\ store[cookie].login = tabs[t].login
     /\ reqs[t] # Null => reqs[t].sid = cookie /\ reqs[t].session.login = tabs[t].login

Settles == Before \/ In \/ \E t \in Tabs : Will(t)

LInv == PInv /\ (smooth /\ oidc => Settles)

LEMMA EmptyKnowsNothing == Empty.login = Null /\ ~Empty.user /\ Empty.csrf = Null
BY DEF Empty

\* The request that ends with s: what it leaves.
LEMMA Ended ==
  ASSUME IInv, NEW t \in Tabs, reqs[t] # Null, NEW s \in Session, NEW n \in Nat, NEW k,
         End(t, s, n, k)
  PROVE  /\ reqs' = [reqs EXCEPT ![t] = Null]
         /\ used.numbers \in Nat /\ used'.numbers = used.numbers + n
         /\ s = reqs[t].session => store' = store /\ cookie' = cookie
         /\ s # reqs[t].session /\ reqs[t].sid # Null =>
              /\ reqs[t].sid \in Sid /\ cookie' = cookie
              /\ store' = [store EXCEPT ![reqs[t].sid] = s]
         /\ s # reqs[t].session /\ reqs[t].sid = Null =>
              /\ cookie' \in Sid /\ store' = [store EXCEPT ![cookie'] = s]
<1>1. used \in Used
  BY DEF IInv
<1>2. PICK i, j : used' = [used EXCEPT !.sessions = i, !.numbers = used.numbers + n, !.uses = j]
  BY <1>1 DEF End, Used
<1>3. used'.numbers = used.numbers + n
  <2>1. PICK m : m = used.numbers + n
    OBVIOUS
  <2> QED
    BY <1>1, <1>2, <2>1 DEF Used
<1>4. used.numbers \in Nat
  BY <1>1, SessionsAssumption DEF Used
<1> QED
  BY <1>3, <1>4 DEF End, SidOf

LEMMA Growing ==
  ASSUME used.numbers \in Nat, used'.numbers \in Nat, used.numbers <= used'.numbers,
         NEW s \in Session, Old(s)
  PROVE  s.login = Null \/ s.login <= used'.numbers
BY SessionsAssumption DEF Old, Session, Number

\* After the end of a request everything but the other tabs' own is in order.
LEMMA EndPlaces ==
  ASSUME PInv, IInv', NEW t \in Tabs, reqs[t] # Null, NEW s \in Session, NEW n \in Nat, NEW k,
         End(t, s, n, k), s.login = Null \/ s.login <= used.numbers + n,
         \A u \in Tabs : u # t => tabs'[u] = tabs[u],
         smooth' => smooth
  PROVE  PInv'
<1>1. /\ reqs' = [reqs EXCEPT ![t] = Null]
      /\ used.numbers \in Nat /\ used'.numbers = used.numbers + n
      /\ \A x \in Sid : store'[x] \in {s, store[x]}
  <2>1. store \in [Sid -> Session \cup {Null}]
    BY DEF PInv, IInv, Stored
  <2> QED
    BY <2>1, Ended DEF PInv
<1>2. reqs'[t] = Null /\ \A u \in Tabs : u # t => reqs'[u] = reqs[u]
  BY <1>1 DEF PInv, IInv, Asking
<1>3. Placed'
  BY <1>2 DEF PInv, Placed
<1>4. Bare'
  BY <1>2 DEF PInv, Bare
<1>5. used'.numbers \in Nat /\ used.numbers <= used'.numbers
  BY <1>1
<1>6. ASSUME NEW x \in Sid, store'[x] # Null PROVE Old(store[x])'
  <2>1. CASE store'[x] = s
    BY <1>1, <2>1 DEF Old
  <2>2. CASE store'[x] = store[x]
    <3>1. store[x] \in Session /\ Old(store[x])
      BY <1>6, <2>2 DEF PInv, IInv, Stored, Olds
    <3> QED
      BY <1>1, <1>5, <2>2, <3>1, Growing DEF Old
  <2> QED
    BY <1>1, <2>1, <2>2
<1>7. ASSUME NEW u \in Tabs, reqs'[u] # Null PROVE Old(reqs[u].session)'
  <2>1. reqs'[u] = reqs[u] /\ reqs[u].session \in Session /\ Old(reqs[u].session)
    BY <1>2, <1>7, RequestTyped DEF PInv, Olds
  <2> QED
    BY <1>1, <1>5, <2>1, Growing DEF Old
<1>8. Olds'
  BY <1>6, <1>7 DEF Olds
<1> QED
  BY <1>3, <1>4, <1>8 DEF PInv

\* A request that begins.
LEMMA Begun ==
  ASSUME IInv, NEW t \in Tabs, NEW kind \in Kind, Begin(t, kind)
  PROVE  /\ reqs[t] = Null /\ UNCHANGED <<oidc, store, cookie, used>>
         /\ \E r \in Request :
              /\ reqs' = [reqs EXCEPT ![t] = r] /\ r.kind = kind
              /\ r.sid \in {Null, cookie}
              /\ r.sid = Null => r.session = Empty
              /\ cookie # Null /\ store[cookie] # Null =>
                   r.sid = cookie /\ r.session = store[cookie]
              /\ Old(Empty) /\ (r.session = Empty \/ (cookie \in Sid /\ r.session = store[cookie] /\ store[cookie] # Null))
<1>1. PICK r : r = [kind |-> kind,
                    sid |-> IF cookie # Null /\ store[cookie] # Null THEN cookie ELSE Null,
                    session |-> IF cookie # Null /\ store[cookie] # Null THEN store[cookie]
                                ELSE Empty]
  OBVIOUS
<1>2. reqs' = [reqs EXCEPT ![t] = r] /\ reqs[t] = Null
  BY <1>1 DEF Begin
<1>3. cookie \in Sid /\ store[cookie] # Null => store[cookie] \in Session
  BY DEF IInv, Stored
<1>4. r \in Request
  BY <1>1, <1>3, EmptyTyped DEF Request, IInv
<1>5. Old(Empty)
  BY EmptyKnowsNothing DEF Old
<1>6. UNCHANGED <<oidc, store, cookie, used>>
  BY DEF Begin
<1>7. cookie \in Sid \cup {Null}
  BY DEF IInv
<1> QED
  BY <1>1, <1>2, <1>4, <1>5, <1>6, <1>7

LEMMA BeginPlaces ==
  ASSUME PInv, IInv', NEW t \in Tabs, NEW kind \in Kind, Begin(t, kind),
         tabs'[t].at = PlaceOf[kind], \A u \in Tabs : u # t => tabs'[u] = tabs[u],
         smooth' => smooth /\ kind # "logout"
  PROVE  PInv'
<1>1. PICK r \in Request :
              /\ reqs' = [reqs EXCEPT ![t] = r] /\ r.kind = kind
              /\ r.sid = Null => r.session = Empty
              /\ Old(Empty) /\ (r.session = Empty \/ (cookie \in Sid /\ r.session = store[cookie] /\ store[cookie] # Null))
  BY Begun DEF PInv
<1>2. UNCHANGED <<oidc, store, cookie, used>>
  BY Begun DEF PInv
<1>3. reqs'[t] = r /\ \A u \in Tabs : u # t => reqs'[u] = reqs[u]
  BY <1>1 DEF PInv, IInv, Asking
<1>4. Placed'
  BY <1>1, <1>3 DEF PInv, Placed
<1>5. Bare'
  BY <1>1, <1>3 DEF PInv, Bare
<1>6. Old(r.session)
  BY <1>1 DEF PInv, Olds
<1>7. Olds'
  BY <1>2, <1>3, <1>6 DEF PInv, Olds, Old
<1> QED
  BY <1>4, <1>5, <1>7 DEF PInv

\* A request that begins leaves whoever will end signed in the prospect.
LEMMA BeginSettles ==
  ASSUME PInv, Settles, NEW t \in Tabs, NEW kind \in Kind, Begin(t, kind),
         \A u \in Tabs : u # t => tabs'[u] = tabs[u],
         Will(t) => tabs'[t] = tabs[t], tabs'[t].login \in {Null, tabs[t].login}
  PROVE  Settles'
<1>1. PICK r \in Request :
              /\ reqs' = [reqs EXCEPT ![t] = r] /\ r.kind = kind
              /\ r.sid \in {Null, cookie}
              /\ cookie # Null /\ store[cookie] # Null =>
                   r.sid = cookie /\ r.session = store[cookie]
  BY Begun DEF PInv
<1>2. reqs[t] = Null /\ UNCHANGED <<oidc, store, cookie, used>>
  BY Begun DEF PInv
<1>3. reqs'[t] = r /\ \A u \in Tabs : u # t => reqs'[u] = reqs[u]
  BY <1>1 DEF PInv, IInv, Asking
<1>4. CASE Before
  <2>1. r.sid = Null
    BY <1>1, <1>4 DEF Before
  <2>2. Before'
    BY <1>2, <1>3, <1>4, <2>1 DEF Before
  <2> QED
    BY <2>2 DEF Settles
<1>5. CASE In
  <2>1. In'
    BY <1>2, <1>5 DEF In
  <2> QED
    BY <2>1 DEF Settles
<1>6. ASSUME NEW w \in Tabs, Will(w) PROVE Settles'
  <2>1. CASE w = t
    <3>1. CASE tabs[t].at = "login"
      BY <1>1, <1>2, <1>3, <1>6, <2>1, <3>1 DEF Will, Settles
    <3>2. CASE tabs[t].at # "login"
      <4>1. /\ tabs[t].at = "provider" /\ cookie \in Sid /\ tabs[t].login # Null
            /\ store[cookie] # Null /\ store[cookie].login = tabs[t].login
        BY <1>2, <1>6, <2>1, <3>2 DEF Will
      <4>2. cookie # Null
        BY <4>1, SessionsAssumption DEF Sid
      <4>3. r.sid = cookie /\ r.session = store[cookie]
        BY <1>1, <4>1, <4>2
      <4>4. tabs'[t] = tabs[t]
        BY <1>6, <2>1
      <4>5. Will(t)'
        BY <1>2, <1>3, <4>1, <4>3, <4>4 DEF Will
      <4> QED
        BY <4>5 DEF Settles
    <3> QED
      BY <3>1, <3>2
  <2>2. CASE w # t
    <3>1. Will(w)'
      BY <1>2, <1>3, <1>6, <2>2 DEF Will
    <3> QED
      BY <3>1 DEF Settles
  <2> QED
    BY <2>1, <2>2
<1> QED
  BY <1>4, <1>5, <1>6 DEF Settles

\* Nobody writes a session back without its user, but for a login.
LEMMA EndSettles ==
  ASSUME PInv, Settles, NEW t \in Tabs, reqs[t] # Null, NEW s \in Session, NEW n \in Nat, NEW k,
         End(t, s, n, k),
         s # reqs[t].session => s.user /\ reqs[t].sid # Null,
         s = reqs[t].session => ~Will(t),
         \A u \in Tabs : u # t => tabs'[u] = tabs[u],
         tabs'[t].login = tabs[t].login
  PROVE  Settles'
<1> DEFINE c == reqs[t].session
           sid == reqs[t].sid
<1>1. reqs' = [reqs EXCEPT ![t] = Null]
  BY Ended DEF PInv
<1>2. reqs'[t] = Null /\ \A u \in Tabs : u # t => reqs'[u] = reqs[u]
  BY <1>1 DEF PInv, IInv, Asking
<1>3. cookie' = cookie
  BY Ended DEF PInv
<1>4. CASE s = c
  <2>1. store' = store
    BY <1>4, Ended DEF PInv
  <2>2. Before => Before'
    BY <1>2, <1>3 DEF Before
  <2>3. In => In'
    BY <1>3, <2>1 DEF In
  <2>4. ASSUME NEW w \in Tabs, Will(w) PROVE Will(w)'
    <3>1. w # t
      BY <1>4, <2>4
    <3> QED
      BY <1>2, <1>3, <2>1, <2>4, <3>1 DEF Will
  <2> QED
    BY <2>2, <2>3, <2>4 DEF Settles
<1>5. CASE s # c
  <2>1. sid \in Sid /\ store' = [store EXCEPT ![sid] = s]
    BY <1>5, Ended DEF PInv
  <2>2. store'[sid] = s /\ \A x \in Sid : x # sid => store'[x] = store[x]
    BY <2>1 DEF PInv, IInv, Stored
  <2>3. sid # Null /\ s # Null
    BY <1>5, SessionsAssumption
  <2>4. CASE sid = cookie
    <3>1. In'
      BY <1>3, <1>5, <2>2, <2>3, <2>4 DEF In
    <3> QED
      BY <3>1 DEF Settles
  <2>5. CASE sid # cookie
    <3>1. ~Before
      BY <2>3 DEF Before
    <3>2. In => In'
      <4>1. ASSUME In PROVE cookie \in Sid
        BY <4>1 DEF In, PInv, IInv
      <4> QED
        BY <1>3, <2>2, <2>5, <4>1 DEF In
    <3>3. ASSUME NEW w \in Tabs, Will(w) PROVE Will(w)'
      <4>1. w # t
        BY <2>3, <2>5, <3>3 DEF Will
      <4> QED
        BY <1>2, <1>3, <2>2, <2>5, <3>3, <4>1 DEF Will
    <3> QED
      BY <3>1, <3>2, <3>3 DEF Settles
  <2> QED
    BY <2>4, <2>5
<1> QED
  BY <1>4, <1>5

------------------------------------------------------------------------------
(* Each step *)

LEMMA BeginLogins ==
  ASSUME LInv, NEW t \in Tabs, NEW kind \in Kind, Begin(t, kind), tabs' = tabs,
         tabs[t].at = PlaceOf[kind], kind \in {"mutation", "logout"} => tabs[t].token \in Number,
         smooth' => smooth /\ kind # "logout"
  PROVE  LInv'
<1>1. IInv'
  BY BeginStep DEF LInv, PInv
<1>2. PInv'
  BY <1>1, BeginPlaces DEF LInv
<1>3. smooth' /\ oidc' => Settles'
  BY BeginSettles DEF LInv, Begin
<1> QED
  BY <1>2, <1>3 DEF LInv

LEMMA OpenLogins == ASSUME LInv, NEW t \in Tabs, Open(t) PROVE LInv'
<1>1. PICK r : r = [at |-> "blank", token |-> Null, login |-> Null]
  OBVIOUS
<1>2. tabs' = [tabs EXCEPT ![t] = r] /\ tabs \in [Tabs -> TabState]
  BY <1>1 DEF Open, LInv, PInv, IInv, Opened
<1>3. tabs'[t] = r /\ \A u \in Tabs : u # t => tabs'[u] = tabs[u]
  BY <1>2
<1>4. Begin(t, "page") /\ smooth' = smooth /\ oidc' = oidc /\ "page" \in Kind
  BY DEF Open, Begin, Kind
<1>5. IInv'
  BY OpenStep DEF LInv, PInv
<1>6. PInv'
  <2>1. r.at = PlaceOf["page"]
    BY <1>1 DEF PlaceOf
  <2> QED
    BY <1>3, <1>4, <1>5, <2>1, BeginPlaces DEF LInv
<1>7. ~Will(t)
  BY DEF Open, Will
<1>8. smooth' /\ oidc' => Settles'
  BY <1>1, <1>3, <1>4, <1>7, BeginSettles DEF LInv
<1> QED
  BY <1>6, <1>8 DEF LInv

LEMMA LeaveLogins == ASSUME LInv, NEW t \in Tabs, Leave(t) PROVE LInv'
<1>1. IInv'
  BY LeaveStep DEF LInv, PInv
<1>2. /\ reqs[t] = Null /\ ~smooth' /\ UNCHANGED <<oidc, store, reqs, used>>
      /\ \A u \in Tabs : u # t => tabs'[u] = tabs[u]
      /\ tabs'[t].at = "blank" /\ tabs'[t].login = tabs[t].login
  BY DEF Leave, LInv, PInv, IInv, Opened, TabState
<1>3. Placed' /\ Bare' /\ Olds'
  BY <1>2 DEF LInv, PInv, Placed, Bare, Olds, Old
<1> QED
  BY <1>1, <1>2, <1>3 DEF LInv, PInv

\* A request ends without a login, and its tab is not one that will sign in.
LEMMA EndLogins ==
  ASSUME LInv, IInv', NEW t \in Tabs, reqs[t] # Null, NEW s \in Session, NEW n \in Nat, NEW k,
         End(t, s, n, k), s.login \in {Null, reqs[t].session.login},
         smooth' /\ oidc /\ s # reqs[t].session => s.user /\ reqs[t].sid # Null,
         smooth' /\ s = reqs[t].session => ~Will(t),
         \A u \in Tabs : u # t => tabs'[u] = tabs[u],
         tabs'[t].login = tabs[t].login, smooth' => smooth, oidc' = oidc
  PROVE  LInv'
<1>1. reqs[t].session \in Session /\ Old(reqs[t].session) /\ used.numbers \in Nat
  BY RequestTyped, Ended DEF LInv, PInv, Olds
<1>2. s.login = Null \/ s.login <= used.numbers + n
  <2>1. CASE s.login = Null
    BY <2>1
  <2>2. CASE s.login # Null
    <3>1. s.login \in Nat /\ s.login <= used.numbers
      BY <1>1, <2>2, SessionsAssumption DEF Old, Session, Number
    <3> QED
      BY <1>1, <3>1
  <2> QED
    BY <2>1, <2>2
<1>3. PInv'
  BY <1>2, EndPlaces DEF LInv
<1>4. smooth' /\ oidc' => Settles'
  BY EndSettles DEF LInv
<1> QED
  BY <1>3, <1>4 DEF LInv

LEMMA LoginsUntouched ==
  ASSUME NEW s \in Session
  PROVE  SignedIn(s).login = s.login /\ EnsureCsrfToken(s).login = s.login
BY DEF SignedIn, EnsureCsrfToken, Session

\* A tab that only moves, or only learns a token.
LEMMA TabMoves ==
  ASSUME LInv, NEW t \in Tabs, NEW x,
         \/ tabs' = [tabs EXCEPT ![t].at = x]
         \/ tabs' = [tabs EXCEPT ![t].token = x]
  PROVE  /\ \A u \in Tabs : u # t => tabs'[u] = tabs[u]
         /\ tabs'[t].login = tabs[t].login
         /\ tabs' = [tabs EXCEPT ![t].at = x] => tabs'[t].at = x
BY DEF LInv, PInv, IInv, Opened, TabState

\* Who has a page has nothing to do with the provider.
LEMMA PageWaits ==
  ASSUME LInv, NEW t \in Tabs, reqs[t] # Null,
         reqs[t].kind \in {"page", "me", "mutation", "logout"}
  PROVE  ~Will(t)
<1>1. tabs[t].at \in {"blank", "page"}
  BY DEF LInv, PInv, Placed, PlaceOf
<1> QED
  BY <1>1 DEF Will

\* A request whose session has a user or a login has been given one.
LEMMA HasSession ==
  ASSUME LInv, NEW t \in Tabs, reqs[t] # Null,
         reqs[t].session.user \/ reqs[t].session.login # Null
  PROVE  reqs[t].sid # Null
BY EmptyKnowsNothing DEF LInv, PInv, Bare

LEMMA ServePageLogins == ASSUME LInv, NEW t \in Tabs, ServePage(t) PROVE LInv'
<1> DEFINE c == reqs[t].session
<1>1. /\ reqs[t] # Null /\ reqs[t].kind = "page" /\ c \in Session
      /\ oidc' = oidc /\ smooth' = smooth
  BY RequestTyped DEF ServePage, Is, LInv, PInv
<1>2. IInv'
  BY ServePageStep DEF LInv, PInv
<1>3. ~Will(t)
  BY <1>1, PageWaits
<1>4. CASE Allowed(c)
  <2>1. End(t, SignedIn(c), 0, 0) /\ tabs' = [tabs EXCEPT ![t].at = "page"]
    BY <1>4 DEF ServePage, At
  <2>2. SignedIn(c) \in Session /\ SignedIn(c).login = c.login /\ SignedIn(c).user
    BY <1>1, SignedInTyped, LoginsUntouched
  <2>3. oidc => reqs[t].sid # Null
    BY <1>1, <1>4, HasSession DEF Allowed
  <2>4. /\ \A u \in Tabs : u # t => tabs'[u] = tabs[u]
        /\ tabs'[t].login = tabs[t].login /\ tabs'[t].at = "page"
    BY <2>1, TabMoves
  <2> QED
    BY <1>1, <1>2, <1>3, <2>1, <2>2, <2>3, <2>4, EndLogins
<1>5. CASE ~Allowed(c)
  <2>1. End(t, c, 0, 0) /\ tabs' = [tabs EXCEPT ![t].at = IF oidc THEN "login" ELSE "failed"]
    BY <1>5 DEF ServePage, At
  <2>2. /\ \A u \in Tabs : u # t => tabs'[u] = tabs[u]
        /\ tabs'[t].login = tabs[t].login
    BY <2>1, TabMoves
  <2> QED
    BY <1>1, <1>2, <1>3, <2>1, <2>2, EndLogins
<1> QED
  BY <1>4, <1>5

\* The answers to a page that asks for its token or sends a mutation.
LEMMA AnswerLogins ==
  ASSUME LInv, IInv', NEW t \in Tabs, reqs[t] # Null, reqs[t].kind \in {"me", "mutation"},
         oidc' = oidc, smooth' = smooth, NEW k,
         LET c == reqs[t].session
             s == EnsureCsrfToken(SignedIn(c))
         IN End(t, c, 0, k) \/ (Allowed(c) /\ End(t, s, Tokens(c), k)),
         \A u \in Tabs : u # t => tabs'[u] = tabs[u],
         tabs'[t].login = tabs[t].login
  PROVE  LInv'
<1> DEFINE c == reqs[t].session
           s == EnsureCsrfToken(SignedIn(c))
<1>1. c \in Session /\ used \in Used
  BY RequestTyped DEF LInv, PInv, IInv
<1>2. ~Will(t)
  BY PageWaits
<1>3. CASE End(t, c, 0, k)
  BY <1>1, <1>2, <1>3, EndLogins
<1>4. CASE Allowed(c) /\ End(t, s, Tokens(c), k)
  <2>1. SignedIn(c) \in Session /\ Tokens(SignedIn(c)) = Tokens(c) /\ Tokens(c) \in Nat
        /\ SignedIn(c).user
    BY <1>1, SignedInTyped, SignedTokens, TokensNatural
  <2>2. s \in Session /\ s.user
    BY <1>1, <1>4, <2>1, TokenTyped DEF End
  <2>3. s.login = c.login
    BY <1>1, <2>1, LoginsUntouched
  <2>4. oidc => reqs[t].sid # Null
    BY <1>4, HasSession DEF Allowed
  <2> HIDE DEF s
  <2> QED
    BY <1>1, <1>2, <1>4, <2>1, <2>2, <2>3, <2>4, EndLogins
<1> QED
  BY <1>3, <1>4

LEMMA ServeMeLogins == ASSUME LInv, NEW t \in Tabs, ServeMe(t) PROVE LInv'
<1> DEFINE c == reqs[t].session
           s == EnsureCsrfToken(SignedIn(c))
<1>1. reqs[t] # Null /\ reqs[t].kind = "me" /\ oidc' = oidc /\ smooth' = smooth
  BY DEF ServeMe, Is
<1>2. IInv'
  BY ServeMeStep DEF LInv, PInv
<1>3. PICK token : tabs' = [tabs EXCEPT ![t].token = token]
  BY DEF ServeMe
<1>4. /\ \A u \in Tabs : u # t => tabs'[u] = tabs[u]
      /\ tabs'[t].login = tabs[t].login
  BY <1>3, TabMoves
<1>5. End(t, c, 0, 0) \/ (Allowed(c) /\ End(t, s, Tokens(c), 0))
  BY DEF ServeMe
<1> QED
  BY <1>1, <1>2, <1>4, <1>5, AnswerLogins

LEMMA ServeMutationLogins == ASSUME LInv, NEW t \in Tabs, ServeMutation(t) PROVE LInv'
<1> DEFINE c == reqs[t].session
           s == EnsureCsrfToken(SignedIn(c))
<1>1. /\ reqs[t] # Null /\ reqs[t].kind = "mutation" /\ oidc' = oidc /\ smooth' = smooth
      /\ tabs' = tabs
  BY DEF ServeMutation, Is
<1>2. IInv'
  BY ServeMutationStep DEF LInv, PInv
<1>3. End(t, c, 0, 1) \/ (Allowed(c) /\ End(t, s, Tokens(c), 1))
  BY DEF ServeMutation
<1> QED
  BY <1>1, <1>2, <1>3, AnswerLogins

\* Who signs in writes the user; who is refused had another login overwritten.
LEMMA ServeCallbackLogins == ASSUME LInv, NEW t \in Tabs, ServeCallback(t) PROVE LInv'
<1> DEFINE c == reqs[t].session
           r == [c EXCEPT !.user = TRUE, !.login = Null]
<1>1. reqs[t] # Null /\ reqs[t].kind = "callback" /\ c \in Session /\ oidc' = oidc
  BY RequestTyped DEF ServeCallback, Is, LInv, PInv
<1>2. IInv'
  BY ServeCallbackStep DEF LInv, PInv
<1>3. tabs[t].at = "provider"
  BY <1>1 DEF LInv, PInv, Placed, PlaceOf
<1>4. CASE c.login # Null /\ End(t, r, 0, 0) /\ At(t, "blank") /\ smooth' = smooth
  <2>1. r \in Session /\ r.user
    BY <1>1, CallbackTyped
  <2>2. r.login = Null /\ r # c
    BY <1>1, <1>4 DEF Session
  <2>3. reqs[t].sid # Null
    BY <1>1, <1>4, HasSession
  <2>4. /\ \A u \in Tabs : u # t => tabs'[u] = tabs[u]
        /\ tabs'[t].login = tabs[t].login /\ tabs'[t].at = "blank"
    BY <1>4, TabMoves DEF At
  <2> HIDE DEF r
  <2> QED
    BY <1>1, <1>2, <1>4, <2>1, <2>2, <2>3, <2>4, EndLogins
<1>5. CASE /\ End(t, c, 0, 0) /\ At(t, "failed")
           /\ (c.login # tabs[t].login /\ smooth' = smooth) \/ ~smooth'
  <2>1. /\ \A u \in Tabs : u # t => tabs'[u] = tabs[u]
        /\ tabs'[t].login = tabs[t].login /\ tabs'[t].at = "failed"
    BY <1>5, TabMoves DEF At
  <2>2. smooth' => ~Will(t)
    BY <1>1, <1>3, <1>5 DEF Will
  <2> QED
    BY <1>1, <1>2, <1>5, <2>1, <2>2, EndLogins
<1> QED
  BY <1>4, <1>5 DEF ServeCallback, Refused

LEMMA ServeLogoutLogins == ASSUME LInv, NEW t \in Tabs, ServeLogout(t) PROVE LInv'
<1> DEFINE c == reqs[t].session
           s == EnsureCsrfToken(c)
<1>1. /\ reqs[t] # Null /\ reqs[t].kind = "logout" /\ c \in Session /\ used \in Used
      /\ oidc' = oidc /\ smooth' = smooth /\ tabs' = [tabs EXCEPT ![t].at = "blank"]
  BY RequestTyped DEF ServeLogout, Is, At, LInv, PInv, IInv
<1>2. IInv'
  BY ServeLogoutStep DEF LInv, PInv
<1>3. ~smooth
  BY <1>1 DEF LInv, PInv, Placed
<1>4. /\ \A u \in Tabs : u # t => tabs'[u] = tabs[u]
      /\ tabs'[t].login = tabs[t].login /\ tabs'[t].at = "blank"
  BY <1>1, TabMoves
<1>5. CASE s.csrf = tabs[t].token
  <2>1. /\ store' = [store EXCEPT ![reqs[t].sid] = Null]
        /\ reqs' = [reqs EXCEPT ![t] = Null] /\ used' = used
    BY <1>5 DEF ServeLogout
  <2>2. reqs'[t] = Null /\ \A u \in Tabs : u # t => reqs'[u] = reqs[u]
    BY <2>1 DEF LInv, PInv, IInv, Asking
  <2>3. \A x \in Sid : store'[x] \in {store[x], Null}
    BY <2>1 DEF LInv, PInv, IInv, Stored
  <2>4. Placed' /\ Bare'
    BY <1>1, <1>4, <2>2 DEF LInv, PInv, Placed, Bare
  <2>5. Olds'
    BY <2>1, <2>2, <2>3 DEF LInv, PInv, Olds, Old
  <2> QED
    BY <1>1, <1>2, <1>3, <2>4, <2>5 DEF LInv, PInv
<1>6. CASE End(t, s, Tokens(c), 0)
  <2>1. s \in Session /\ Tokens(c) \in Nat
    BY <1>1, <1>6, TokensNatural, TokenTyped DEF End
  <2>2. s.login = c.login
    BY <1>1, LoginsUntouched
  <2> HIDE DEF s
  <2> QED
    BY <1>1, <1>2, <1>3, <1>4, <1>6, <2>1, <2>2, EndLogins
<1> QED
  BY <1>5, <1>6 DEF ServeLogout

\* A login takes the session's place: its tab is now the one that will sign in,
\* unless it wrote to a session the browser no longer has.
LEMMA ServeLoginLogins == ASSUME LInv, NEW t \in Tabs, ServeLogin(t) PROVE LInv'
<1> DEFINE c == reqs[t].session
           n == used.numbers + 1
           s == [c EXCEPT !.login = n]
<1>1. reqs[t] # Null /\ reqs[t].kind = "login" /\ c \in Session /\ used \in Used /\ oidc' = oidc
  BY RequestTyped DEF ServeLogin, Is, LInv, PInv, IInv
<1>2. IInv'
  BY ServeLoginStep DEF LInv, PInv
<1>3. tabs[t].at = "login"
  BY <1>1 DEF LInv, PInv, Placed, PlaceOf
<1>4. CASE discovery' # "read"
  <2>1. End(t, c, 0, 0) /\ tabs' = [tabs EXCEPT ![t].at = "failed"] /\ ~smooth'
    BY <1>4 DEF ServeLogin, At
  <2>2. /\ \A u \in Tabs : u # t => tabs'[u] = tabs[u]
        /\ tabs'[t].login = tabs[t].login
    BY <2>1, TabMoves
  <2> QED
    BY <1>1, <1>2, <1>3, <2>1, <2>2, EndLogins
<1>5. CASE discovery' = "read"
  <2>1. /\ End(t, s, 1, 0) /\ smooth' = smooth
        /\ tabs' = [tabs EXCEPT ![t].at = "provider", ![t].login = n]
    BY <1>5 DEF ServeLogin
  <2>2. n \in Number /\ n # Null /\ used.numbers \in Nat
    BY <1>1, <2>1, SessionsAssumption DEF End, Used, Number
  <2>3. s \in Session
    BY <1>1, <2>2, LoginTyped
  <2>4. s.login = n
    BY <1>1 DEF Session
  <2>5. c.login # n
    <3>1. Old(c)
      BY <1>1 DEF LInv, PInv, Olds
    <3> QED
      BY <2>2, <3>1 DEF Old
  <2>6. s # c
    BY <2>4, <2>5
  <2>7. /\ \A u \in Tabs : u # t => tabs'[u] = tabs[u]
        /\ tabs'[t].at = "provider" /\ tabs'[t].login = n
    BY <2>1 DEF LInv, PInv, IInv, Opened, TabState
  <2> HIDE DEF s, n
  <2>8. PInv'
    <3>1. s.login <= used.numbers + 1
      BY <2>2, <2>4 DEF n
    <3> QED
      BY <1>1, <1>2, <2>1, <2>3, <2>7, <3>1, EndPlaces DEF LInv
  <2>9. reqs' = [reqs EXCEPT ![t] = Null]
    BY <1>1, <2>1, <2>3, Ended DEF LInv, PInv
  <2>10. reqs'[t] = Null /\ \A u \in Tabs : u # t => reqs'[u] = reqs[u]
    BY <2>9 DEF LInv, PInv, IInv, Asking
  <2>11. s # Null
    BY <2>3, SessionsAssumption
  <2>12. ASSUME NEW x \in Sid, store' = [store EXCEPT ![x] = s]
         PROVE  store'[x] = s /\ \A y \in Sid : y # x => store'[y] = store[y]
    BY <2>12 DEF LInv, PInv, IInv, Stored
  <2>13. ASSUME smooth, oidc PROVE Settles'
    <3>1. CASE reqs[t].sid \in {Null, cookie}
      <4>1. cookie' \in Sid /\ store' = [store EXCEPT ![cookie'] = s]
        BY <1>1, <2>1, <2>3, <2>6, <3>1, Ended DEF LInv, PInv
      <4>2. store'[cookie'] = s
        BY <2>12, <4>1
      <4>3. Will(t)'
        BY <2>2, <2>4, <2>7, <2>10, <2>11, <4>1, <4>2 DEF Will
      <4> QED
        BY <4>3 DEF Settles
    <3>2. CASE reqs[t].sid \notin {Null, cookie}
      <4>1. /\ reqs[t].sid \in Sid /\ cookie' = cookie
            /\ store' = [store EXCEPT ![reqs[t].sid] = s]
        BY <1>1, <2>1, <2>3, <2>6, <3>2, Ended DEF LInv, PInv
      <4>2. \A y \in Sid : y # reqs[t].sid => store'[y] = store[y]
        BY <2>12, <4>1
      <4>3. cookie \in Sid => store'[cookie] = store[cookie]
        BY <3>2, <4>2
      <4>4. ~Before /\ ~Will(t) /\ Settles
        BY <1>1, <1>3, <2>13, <3>2 DEF Before, Will, LInv
      <4>5. CASE In
        <5>1. cookie \in Sid
          BY <4>5 DEF In, LInv, PInv, IInv
        <5>2. In'
          BY <4>1, <4>3, <4>5, <5>1 DEF In
        <5> QED
          BY <5>2 DEF Settles
      <4>6. ASSUME NEW w \in Tabs, Will(w) PROVE Settles'
        <5>1. w # t
          BY <4>4, <4>6
        <5>2. Will(w)'
          BY <2>7, <2>10, <4>1, <4>3, <4>6, <5>1 DEF Will
        <5> QED
          BY <5>2 DEF Settles
      <4> QED
        BY <4>4, <4>5, <4>6 DEF Settles
    <3> QED
      BY <3>1, <3>2
  <2> QED
    BY <1>1, <2>1, <2>8, <2>13 DEF LInv
<1> QED
  BY <1>4, <1>5

LEMMA LoseLogins == ASSUME LInv, NEW t \in Tabs, Lose(t) PROVE LInv'
<1>1. IInv'
  BY LoseStep DEF LInv, PInv
<1>2. /\ ~smooth' /\ UNCHANGED <<oidc, store, used>> /\ reqs' = [reqs EXCEPT ![t] = Null]
      /\ \E at \in {"failed", tabs[t].at} : \E token :
           tabs' = [tabs EXCEPT ![t].at = at, ![t].token = token]
  BY DEF Lose
<1>3. reqs'[t] = Null /\ \A u \in Tabs : u # t => reqs'[u] = reqs[u]
  BY <1>2 DEF LInv, PInv, IInv, Asking
<1>4. /\ \A u \in Tabs : u # t => tabs'[u] = tabs[u]
      /\ tabs'[t].at \in {"failed", tabs[t].at} /\ tabs'[t].login = tabs[t].login
  BY <1>2 DEF LInv, PInv, IInv, Opened, TabState
<1>5. Placed' /\ Bare' /\ Olds'
  BY <1>2, <1>3, <1>4 DEF LInv, PInv, Placed, Bare, Olds, Old
<1> QED
  BY <1>1, <1>2, <1>5 DEF LInv, PInv

LEMMA RestartLogins == ASSUME LInv, Restart PROVE LInv'
<1>1. IInv'
  BY RestartStep DEF LInv, PInv
<1>2. /\ ~smooth' /\ UNCHANGED <<oidc, tabs, reqs>> /\ \A s \in Sid : store'[s] = Null
      /\ \A t \in Tabs : reqs[t] = Null
  BY DEF Restart
<1>3. Placed' /\ Bare' /\ Olds'
  BY <1>2 DEF LInv, PInv, Placed, Bare, Olds
<1> QED
  BY <1>1, <1>2, <1>3 DEF LInv, PInv

LEMMA InitLogins == Init => LInv
<1> SUFFICES ASSUME Init PROVE LInv
  OBVIOUS
<1>1. cookie = Null /\ (\A s \in Sid : store[s] = Null)
      /\ \A t \in Tabs : reqs[t] = Null /\ tabs[t].at = "blank" /\ tabs[t].login = Null
  BY DEF Init
<1>2. Placed /\ Bare /\ Olds
  BY <1>1 DEF Placed, Bare, Olds
<1>3. Before
  BY <1>1 DEF Before
<1> QED
  BY <1>2, <1>3, Initially DEF LInv, PInv, Settles

LEMMA StepLogins == LInv /\ [Next]_vars => LInv'
<1> SUFFICES ASSUME LInv, [Next]_vars PROVE LInv'
  OBVIOUS
<1>1. ASSUME NEW t \in Tabs, Login(t) PROVE LInv'
  BY <1>1, BeginLogins DEF Login, Kind, PlaceOf
<1>2. ASSUME NEW t \in Tabs, Callback(t) PROVE LInv'
  BY <1>2, BeginLogins DEF Callback, Kind, PlaceOf
<1>3. ASSUME NEW t \in Tabs, Me(t) PROVE LInv'
  BY <1>3, BeginLogins DEF Me, Kind, PlaceOf
<1>4. ASSUME NEW t \in Tabs, Mutate(t) PROVE LInv'
  BY <1>4, BeginLogins DEF Mutate, Kind, PlaceOf
<1>5. ASSUME NEW t \in Tabs, Logout(t) PROVE LInv'
  BY <1>5, BeginLogins DEF Logout, Kind, PlaceOf
<1>6. CASE UNCHANGED vars
  <2>1. IInv'
    BY <1>6, Inductive DEF LInv, PInv
  <2>2. UNCHANGED <<oidc, store, cookie, tabs, reqs, used, smooth>>
    BY <1>6 DEF vars
  <2>3. Placed' /\ Bare' /\ Olds'
    BY <2>2 DEF LInv, PInv, Placed, Bare, Olds, Old
  <2>4. Settles => Settles'
    BY <2>2 DEF Settles, Before, In, Will
  <2> QED
    BY <2>1, <2>2, <2>3, <2>4 DEF LInv, PInv
<1> QED
  BY <1>1, <1>2, <1>3, <1>4, <1>5, <1>6, OpenLogins, LeaveLogins, ServePageLogins, ServeMeLogins,
     ServeLoginLogins, ServeCallbackLogins, ServeLogoutLogins, ServeMutationLogins, LoseLogins,
     RestartLogins DEF Next

\* However many tabs sign in at the same time, each overwriting the other's state and
\* saving old copies of the session, when all is over and nothing failed the browser
\* is signed in (registerOidcRoutes).
THEOREM LoginsSucceed == Spec => []LoginsEndSignedIn
<1>1. LInv => LoginsEndSignedIn
  <2> SUFFICES ASSUME LInv, smooth, oidc, cookie # Null,
                      \A t \in Tabs : reqs[t] = Null /\ tabs[t].at \notin {"login", "provider"}
               PROVE  store[cookie] # Null /\ store[cookie].user
    BY DEF LoginsEndSignedIn
  <2>1. ~Before /\ \A t \in Tabs : ~Will(t)
    BY DEF Before, Will
  <2> QED
    BY <2>1 DEF LInv, Settles, In
<1> QED
  BY <1>1, InitLogins, StepLogins, PTL DEF Spec
=============================================================================
