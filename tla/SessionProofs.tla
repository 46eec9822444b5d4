--------------------------- MODULE SessionProofs ---------------------------
(* Theorems about Session, for every number of tabs, requests, accounts and *)
(* tokens.                                                                  *)
EXTENDS Session, ValidationProofs

USE AccountsAssumption, SessionAssumption

-----------------------------------------------------------------------------
(* What the router does to the requests in flight *)

BrowserPages == {"auth", "dashboard", "poll"}

\* A request of cs after a navigation or a page load: as it was, dropped, left
\* alone by its tab, or replaced by the request of a dashboard.
Moved(s, cs) ==
    \/ calls'[s] = Free
    \/ calls'[s] = cs[s]
    \/ cs[s] # Free /\ cs[s].op = "signup" /\ calls'[s] = [cs[s] EXCEPT !.tab = None]
    \/ \E t \in Tabs : calls'[s] = NewCall(t, "my", None)

NoVoteOf(t, cs) ==
    \A s \in Slots : cs[s] # Free /\ cs[s].op = "vote" => cs[s].tab # t

LEMMA DetachEffect ==
    ASSUME NEW t \in Tabs, NEW ops, NEW cs, NEW s \in Slots
    PROVE  LET d == Detach(cs, t, ops)
           IN  /\ d = [r \in Slots |-> d[r]]
               /\ \/ d[s] = Free \/ d[s] = cs[s]
                  \/ /\ cs[s] # Free /\ cs[s].op = "signup"
                     /\ d[s] = [cs[s] EXCEPT !.tab = None]
               /\ "vote" \in ops /\ d[s] # Free /\ d[s].op = "vote" => d[s].tab # t
BY DEF Detach

LEMMA MountEffect ==
    ASSUME NEW t \in Tabs, NEW p \in BrowserPages, NEW cs, page \in [Tabs -> Pages],
           cs = [s \in Slots |-> cs[s]], Mount(t, p, cs)
    PROVE  /\ page' \in [Tabs -> Pages]
           /\ page'[t] = p
           /\ \A u \in Tabs : u # t => page'[u] = page[u]
           /\ calls' = [s \in Slots |-> calls'[s]]
           /\ \A s \in Slots : \/ calls'[s] = cs[s]
                               \/ p = "dashboard" /\ calls'[s] = NewCall(t, "my", None)
BY DEF Mount, BrowserPages, Pages

LEMMA NavigateEffect ==
    ASSUME NEW t \in Tabs, NEW to \in BrowserPages, NEW cs, page \in [Tabs -> Pages],
           cs = [s \in Slots |-> cs[s]], Navigate(t, to, cs)
    PROVE  /\ page' \in [Tabs -> Pages]
           /\ page'[t] = IF page[t] = "leaving" THEN "leaving" ELSE ProtectedRoute(to)
           /\ \A u \in Tabs : u # t => page'[u] = page[u]
           /\ calls' = [s \in Slots |-> calls'[s]]
           /\ \A s \in Slots : Moved(s, cs)
           /\ page'[t] = "poll" /\ page[t] # "poll" => NoVoteOf(t, calls')
<1> DEFINE p == ProtectedRoute(to)
           d == Detach(cs, t, {"vote"})
<1>0. p \in BrowserPages
  BY DEF ProtectedRoute, BrowserPages
<1>1. CASE page[t] \in {p, "leaving"}
  BY <1>1 DEF Navigate, Moved
<1>2. CASE page[t] \notin {p, "leaving"}
  <2>1. Mount(t, p, d)
    BY <1>2 DEF Navigate
  <2>2. /\ d = [s \in Slots |-> d[s]]
        /\ \A s \in Slots :
               /\ \/ d[s] = Free \/ d[s] = cs[s]
                  \/ /\ cs[s] # Free /\ cs[s].op = "signup"
                     /\ d[s] = [cs[s] EXCEPT !.tab = None]
               /\ d[s] # Free /\ d[s].op = "vote" => d[s].tab # t
    BY DEF Detach
  <2> HIDE DEF p, d
  <2>3. /\ page' \in [Tabs -> Pages]
        /\ page'[t] = p
        /\ \A u \in Tabs : u # t => page'[u] = page[u]
        /\ calls' = [s \in Slots |-> calls'[s]]
        /\ \A s \in Slots : \/ calls'[s] = d[s]
                            \/ p = "dashboard" /\ calls'[s] = NewCall(t, "my", None)
    BY <1>0, <2>1, <2>2, MountEffect
  <2>4. \A s \in Slots : Moved(s, cs)
    <3> SUFFICES ASSUME NEW s \in Slots PROVE Moved(s, cs)
      OBVIOUS
    <3>1. \/ d[s] = Free \/ d[s] = cs[s]
          \/ /\ cs[s] # Free /\ cs[s].op = "signup"
             /\ d[s] = [cs[s] EXCEPT !.tab = None]
      BY <2>2
    <3> QED
      BY <2>3, <3>1 DEF Moved
  <2>5. page'[t] = "poll" => NoVoteOf(t, calls')
    <3> SUFFICES ASSUME p = "poll", NEW s \in Slots, calls'[s] # Free, calls'[s].op = "vote"
                 PROVE  calls'[s].tab # t
      BY <2>3 DEF NoVoteOf
    <3>1. calls'[s] = d[s]
      BY <2>3
    <3> QED
      BY <2>2, <3>1
  <2> QED
    BY <1>2, <2>3, <2>4, <2>5 DEF p
<1> QED
  BY <1>1, <1>2

LEMMA OpenEffect ==
    ASSUME NEW t \in Tabs, NEW to \in BrowserPages, page \in [Tabs -> Pages], Open(t, to)
    PROVE  /\ page' \in [Tabs -> Pages]
           /\ page'[t] = ProtectedRoute(to)
           /\ \A u \in Tabs : u # t => page'[u] = page[u]
           /\ calls' = [s \in Slots |-> calls'[s]]
           /\ \A s \in Slots : Moved(s, calls)
           /\ NoVoteOf(t, calls')
<1> DEFINE p == ProtectedRoute(to)
           d == Detach(calls, t, Writes \union Reads)
<1>0. p \in BrowserPages
  BY DEF ProtectedRoute, BrowserPages
<1>1. Mount(t, p, d)
  BY DEF Open
<1>2. d = [s \in Slots |-> d[s]]
  BY DEF Detach
<1> HIDE DEF p, d
<1>3. /\ page' \in [Tabs -> Pages]
      /\ page'[t] = p
      /\ \A u \in Tabs : u # t => page'[u] = page[u]
      /\ calls' = [s \in Slots |-> calls'[s]]
      /\ \A s \in Slots : \/ calls'[s] = d[s]
                          \/ p = "dashboard" /\ calls'[s] = NewCall(t, "my", None)
  BY <1>0, <1>1, <1>2, MountEffect
<1>4. ASSUME NEW s \in Slots
      PROVE  /\ Moved(s, calls)
             /\ calls'[s] # Free /\ calls'[s].op = "vote" => calls'[s].tab # t
  <2>1. /\ \/ d[s] = Free \/ d[s] = calls[s]
           \/ /\ calls[s] # Free /\ calls[s].op = "signup"
              /\ d[s] = [calls[s] EXCEPT !.tab = None]
        /\ d[s] # Free /\ d[s].op = "vote" => d[s].tab # t
    BY DetachEffect DEF d, Writes
  <2> QED
    BY <1>3, <2>1 DEF Moved, NewCall
<1> QED
  BY <1>3, <1>4 DEF NoVoteOf, p

-----------------------------------------------------------------------------
(* Types *)

\* A credential or an address is on its way until the request is served.
CallOK(c) ==
    /\ CallTypeOK(c)
    /\ c.op \in {"signup", "login"} /\ c.answer = None => c.body \in Text

CallsOK == \A s \in Slots : calls[s] # Free => CallOK(calls[s])

TypeInv == SessionTypeOK /\ CallsOK

LEMMA NewCallOK ==
    ASSUME NEW t \in Tabs, NEW op \in Writes \union Reads, NEW body \in Bodies(op),
           op \in {"signup", "login"} => body \in Text, stored' \in StoredTokens
    PROVE  CallOK(NewCall(t, op, body))
BY DEF NewCall, CallOK, CallTypeOK, StoredTokens

LEMMA MovedOK ==
    ASSUME NEW s \in Slots, NEW cs, cs[s] # Free => CallOK(cs[s]),
           Moved(s, cs), stored' \in StoredTokens, calls'[s] # Free
    PROVE  CallOK(calls'[s])
<1>1. CASE calls'[s] = cs[s]
  BY <1>1
<1>2. CASE cs[s] # Free /\ cs[s].op = "signup" /\ calls'[s] = [cs[s] EXCEPT !.tab = None]
  BY <1>2 DEF CallOK, CallTypeOK
<1>3. CASE \E t \in Tabs : calls'[s] = NewCall(t, "my", None)
  BY <1>3, NewCallOK DEF Bodies, Reads
<1> QED
  BY <1>1, <1>2, <1>3 DEF Moved

\* A request is sent, and nothing else but the voter id changes.
LEMMA SendOK ==
    ASSUME TypeInv, NEW t \in Tabs, NEW op \in Writes \union Reads, NEW body \in Bodies(op),
           op \in {"signup", "login"} => body \in Text, Send(t, op, body),
           voterId' \in VoterIds \union {None},
           UNCHANGED <<accountVars, stored, page, token, writer>>
    PROVE  TypeInv'
<1>1. CallOK(NewCall(t, op, body))
  BY NewCallOK DEF TypeInv, SessionTypeOK
<1>2. /\ calls' = [s \in Slots |-> calls'[s]]
      /\ \A s \in Slots : calls'[s] = calls[s] \/ calls'[s] = NewCall(t, op, body)
  BY DEF TypeInv, SessionTypeOK, Send
<1>3. CallsOK'
  BY <1>1, <1>2 DEF TypeInv, CallsOK
<1> QED
  BY <1>2, <1>3 DEF TypeInv, SessionTypeOK, AccountsTypeOK, accountVars, CallsOK, CallOK, Used

\* The router takes a step, after requests have ended and the token may have
\* been written.
LEMMA NavigateOK ==
    ASSUME TypeInv, NEW t \in Tabs, NEW to \in BrowserPages, NEW cs, Navigate(t, to, cs),
           cs = [s \in Slots |-> cs[s]],
           \A s \in Slots : cs[s] = calls[s] \/ cs[s] = Free,
           stored' \in StoredTokens, token' \in [Tabs -> StoredTokens],
           writer' \in Tabs \union {None}, UNCHANGED <<accountVars, voterId>>
    PROVE  TypeInv'
<1>1. /\ page' \in [Tabs -> Pages]
      /\ calls' = [s \in Slots |-> calls'[s]]
      /\ \A s \in Slots : Moved(s, cs)
  BY NavigateEffect DEF TypeInv, SessionTypeOK
<1>2. CallsOK'
  BY <1>1, MovedOK DEF TypeInv, CallsOK
<1> QED
  BY <1>1, <1>2 DEF TypeInv, SessionTypeOK, AccountsTypeOK, accountVars, CallsOK, CallOK, Used

LEMMA TypeInit == Init => TypeInv
BY DEF Init, AccountsInit, TypeInv, SessionTypeOK, AccountsTypeOK, CallsOK, Used,
       StoredTokens, Pages

LEMMA TypeServe == ASSUME TypeInv, NEW s \in Slots, Serve(s) PROVE TypeInv'
<1> DEFINE c == calls[s]
<1>0. c # Free /\ CallOK(c) /\ c.answer = None /\ c.op \in Writes
  BY DEF Serve, TypeInv, CallsOK
<1>1. PICK a \in Answers :
        /\ \/ c.op = "signup" /\ Signup(c.body, a)
           \/ c.op = "login" /\ Login(c.body, a)
           \/ c.op = "vote" /\ Vote(c.sent, c.body, a)
        /\ calls' = [calls EXCEPT ![s].answer = a, ![s].body =
               IF c.op = "vote" THEN VoterKey(c.sent, c.body) ELSE None]
  BY DEF Serve
<1>2. AccountsTypeOK'
  <2>1. CASE c.op = "signup" /\ Signup(c.body, a)
    <3>1. Normalise(c.body) \in Text
      BY <1>0, <2>1 DEF CallOK, Normalise, TrimSpace, ToLower, Text
    <3> QED
      BY <2>1, <3>1 DEF Signup, CreateUser, AccountsTypeOK, TypeInv, SessionTypeOK
  <2>2. CASE c.op = "login" /\ Login(c.body, a)
    BY <2>2 DEF Login, GenerateToken, AccountsTypeOK, TypeInv, SessionTypeOK
  <2>3. CASE c.op = "vote" /\ Vote(c.sent, c.body, a)
    BY <2>3 DEF Vote, accountVars, AccountsTypeOK, TypeInv, SessionTypeOK
  <2> QED
    BY <1>1, <2>1, <2>2, <2>3
<1>3. VoterKey(c.sent, c.body) \in VoterIds \union Text \union {None} \/ c.op # "vote"
  BY <1>0 DEF CallOK, CallTypeOK, Bodies, VoterKey, Identity, Live, TypeInv,
              SessionTypeOK, AccountsTypeOK
<1>4. /\ calls' = [r \in Slots |-> calls'[r]]
      /\ \A r \in Slots \ {s} : calls'[r] = calls[r]
      /\ calls'[s] = [c EXCEPT !.answer = a, !.body =
               IF c.op = "vote" THEN VoterKey(c.sent, c.body) ELSE None]
  BY <1>1 DEF TypeInv, SessionTypeOK
<1>5. CallOK(calls'[s])
  BY <1>0, <1>3, <1>4 DEF CallOK, CallTypeOK, Bodies, Writes
<1>6. CallsOK'
  BY <1>4, <1>5 DEF TypeInv, CallsOK
<1> QED
  BY <1>2, <1>4, <1>6 DEF Serve, TypeInv, SessionTypeOK, CallsOK, CallOK, Used

LEMMA TypeTab == ASSUME TypeInv, NEW t \in Tabs, TabNext(t) PROVE TypeInv'
<1>0. /\ stored \in StoredTokens /\ token \in [Tabs -> StoredTokens]
      /\ voterId \in VoterIds \union {None} /\ writer \in Tabs \union {None}
      /\ calls = [s \in Slots |-> calls[s]] /\ page \in [Tabs -> Pages]
  BY DEF TypeInv, SessionTypeOK
<1>1. ASSUME NEW to \in BrowserPages, Open(t, to) PROVE TypeInv'
  <2>1. /\ page' \in [Tabs -> Pages]
        /\ calls' = [s \in Slots |-> calls'[s]]
        /\ \A s \in Slots : Moved(s, calls)
    BY <1>0, <1>1, OpenEffect
  <2>2. /\ UNCHANGED <<accountVars, stored, voterId, writer>>
        /\ token' = [token EXCEPT ![t] = stored]
    BY <1>1 DEF Open
  <2>3. CallsOK'
    BY <2>1, <2>2, <1>0, MovedOK DEF TypeInv, CallsOK
  <2> QED
    BY <1>0, <2>1, <2>2, <2>3
       DEF TypeInv, SessionTypeOK, AccountsTypeOK, accountVars, CallsOK, CallOK, Used
<1>2. ASSUME NEW to \in BrowserPages, Follow(t, to) PROVE TypeInv'
  BY <1>0, <1>2, NavigateOK DEF Follow
<1>3. ASSUME NEW e \in Typed, SubmitSignup(t, e) \/ SubmitLogin(t, e) PROVE TypeInv'
  <2>1. TrimSpace(e) \in Text
    BY <1>3, TrimmedText
  <2> QED
    BY <1>0, <1>3, <2>1, SendOK DEF SubmitSignup, SubmitLogin, Bodies, Writes
<1>4. ASSUME NEW d \in Drafts, SubmitDraft(t, d) PROVE TypeInv'
  BY <1>0, <1>4, SendOK DEF SubmitDraft, Bodies, Reads
<1>5. CASE HandleVote(t)
  <2>1. /\ voterId' \in VoterIds \union {None}
        /\ Send(t, "vote", IF token[t] = None THEN voterId' ELSE None)
        /\ UNCHANGED <<accountVars, stored, page, token, writer>>
    BY <1>0, <1>5 DEF HandleVote
  <2>2. (IF token[t] = None THEN voterId' ELSE None) \in Bodies("vote")
    BY <2>1 DEF Bodies
  <2> QED
    BY <1>0, <2>1, <2>2, SendOK DEF Writes
<1>6. CASE HandleLogout(t)
  <2>1. /\ stored' = None /\ token' = [token EXCEPT ![t] = None] /\ writer' = t
        /\ UNCHANGED <<accountVars, voterId>>
        /\ Navigate(t, "auth", calls)
    BY <1>6 DEF HandleLogout, SetToken
  <2> QED
    BY <1>0, <2>1, NavigateOK DEF StoredTokens, BrowserPages
<1> QED
  BY <1>1, <1>2, <1>3, <1>4, <1>5, <1>6 DEF TabNext, BrowserPages, Pages

LEMMA DoneEffect ==
    ASSUME NEW s \in Slots, calls = [r \in Slots |-> calls[r]]
    PROVE  /\ Done(s) = [r \in Slots |-> Done(s)[r]]
           /\ Done(s)[s] = Free
           /\ \A r \in Slots \ {s} : Done(s)[r] = calls[r]
BY DEF Done

LEMMA TypeCall == ASSUME TypeInv, NEW s \in Slots, CallNext(s) PROVE TypeInv'
<1>0. /\ stored \in StoredTokens /\ token \in [Tabs -> StoredTokens]
      /\ voterId \in VoterIds \union {None} /\ writer \in Tabs \union {None}
      /\ calls = [r \in Slots |-> calls[r]] /\ page \in [Tabs -> Pages]
      /\ Done(s) = [r \in Slots |-> Done(s)[r]]
      /\ \A r \in Slots : Done(s)[r] = calls[r] \/ Done(s)[r] = Free
      /\ calls[s] # Free => calls[s].tab \in Tabs \union {None}
  BY DoneEffect DEF TypeInv, SessionTypeOK, CallsOK, CallOK, CallTypeOK
<1>1. CASE Serve(s)
  BY <1>1, TypeServe
<1>2. ASSUME calls' = Done(s), page' \in [Tabs -> Pages], stored' \in StoredTokens,
             writer' \in Tabs \union {None}, UNCHANGED <<accountVars, voterId, token>>
      PROVE  TypeInv'
  BY <1>0, <1>2
     DEF TypeInv, SessionTypeOK, AccountsTypeOK, accountVars, CallsOK, CallOK, Used
<1>3. CASE Drop(s)
  BY <1>0, <1>2, <1>3 DEF Drop
<1>4. CASE Unauthorized(s)
  BY <1>0, <1>2, <1>4 DEF Unauthorized, StoredTokens, Pages
<1>5. ASSUME NEW t \in Tabs, NEW to \in BrowserPages, Navigate(t, to, Done(s)),
             stored' \in StoredTokens, token' \in [Tabs -> StoredTokens],
             writer' \in Tabs \union {None}, UNCHANGED <<accountVars, voterId>>
      PROVE  TypeInv'
  BY <1>0, <1>5, NavigateOK
<1>6. CASE LoggedIn(s) \/ SignedUp(s)
  BY <1>0, <1>5, <1>6
     DEF LoggedIn, SignedUp, SetToken, Awaited, Used, StoredTokens, BrowserPages
<1>7. CASE Created(s)
  BY <1>0, <1>5, <1>7 DEF Created, Awaited, Used, BrowserPages
<1> QED
  BY <1>1, <1>3, <1>4, <1>6, <1>7 DEF CallNext

LEMMA TypeStep == TypeInv /\ [Next]_vars => TypeInv'
<1> SUFFICES ASSUME TypeInv, [Next]_vars PROVE TypeInv'
  OBVIOUS
<1>1. CASE TokenExpires
  BY <1>1 DEF TokenExpires, Expire, Live, TypeInv, SessionTypeOK, AccountsTypeOK,
              CallsOK, CallOK, Used
<1>2. CASE UNCHANGED vars
  BY <1>2 DEF vars, accountVars, TypeInv, SessionTypeOK, AccountsTypeOK, CallsOK,
              CallOK, Used
<1> QED
  BY <1>1, <1>2, TypeTab, TypeCall DEF Next

\* The browser's state, the accounts and the requests in flight are what
\* SessionTypeOK says: what a request carries fits what it asks for, and
\* localStorage holds a token, nothing or the string "undefined".
THEOREM TypeCorrect == Spec => []SessionTypeOK
<1>1. Spec => []TypeInv
  BY TypeInit, TypeStep, PTL DEF Spec
<1>2. TypeInv => SessionTypeOK
  BY DEF TypeInv
<1> QED
  BY <1>1, <1>2, PTL

-----------------------------------------------------------------------------
(* What a step does to a tab, and to everything else.  A step sends the      *)
(* request of a form or a vote, is served, or is "calm".                    *)

\* A tab after a calm step: another tab wrote the token; it is leaving; it
\* shows what it showed, or moved on; it loaded a page; it wrote the token.
TabEffect(t) ==
    /\ page'[t] = "dashboard" /\ page[t] # "dashboard" => stored' # None
    /\ \/ \E u \in Tabs \ {t} : writer' = u
       \/ page'[t] = "leaving"
       \/ /\ UNCHANGED <<writer, stored>>
          /\ token'[t] = token[t]
          /\ page[t] = "leaving" => page'[t] = "leaving"
          /\ page'[t] = "poll" /\ page[t] # "poll" => NoVoteOf(t, calls')
       \/ /\ UNCHANGED <<writer, stored>>
          /\ token'[t] = stored
          /\ page'[t] = "dashboard" => stored' # None
          /\ NoVoteOf(t, calls')
       \/ /\ writer' = t
          /\ token'[t] = stored' \/ (token'[t] = None /\ stored' = Undefined)
          /\ page'[t] # "poll"
          /\ page'[t] = "dashboard" => stored' # None

LEMMA NotTokens == None \notin Tokens /\ Undefined \notin Tokens
BY DEF Answers

\* A token that the browser holds, or is about to.
Held(k) ==
    \/ k = stored
    \/ \E t \in Tabs : k = token[t]
    \/ \E s \in Slots : calls[s] # Free /\ calls[s].op = "login" /\ calls[s].answer = k

Calm ==
    /\ UNCHANGED <<accounts, owner, voterId>>
    /\ expired \subseteq expired'
    /\ \A s \in Slots : Moved(s, calls)
    /\ stored' \in Tokens => Held(stored')
    /\ \A t \in Tabs : TabEffect(t) /\ (token'[t] \in Tokens => Held(token'[t]))

\* What the form lets through.
Accepted == {Sent(d) : d \in {x \in Drafts : FormAccepts(x)}}

Sends(t, op, body) ==
    /\ UNCHANGED <<accountVars, stored, page, token, writer>>
    /\ Send(t, op, body)
    /\ op = "create" => body \in Accepted
    /\ op # "vote" => UNCHANGED voterId
    /\ op = "vote" => /\ page[t] = "poll"
                      /\ voterId' \in IF token[t] # None \/ voterId # None
                                      THEN {voterId} ELSE VoterIds
                      /\ body = IF token[t] = None THEN voterId' ELSE None

LEMMA SendEffect ==
    ASSUME TypeInv, NEW t, NEW op, NEW body, Send(t, op, body)
    PROVE  \A s \in Slots : calls'[s] = calls[s] \/ calls'[s] = NewCall(t, op, body)
BY DEF Send, TypeInv, SessionTypeOK

\* The router's step after the requests cs is calm, if what was written is.
LEMMA NavigateCalm ==
    ASSUME TypeInv, NEW t \in Tabs, NEW to \in BrowserPages, NEW cs, Navigate(t, to, cs),
           cs = [s \in Slots |-> cs[s]],
           \A s \in Slots : cs[s] = calls[s] \/ cs[s] = Free,
           UNCHANGED <<accountVars, voterId>>,
           stored' \in Tokens => Held(stored'),
           \A u \in Tabs \ {t} : token'[u] = token[u],
           token'[t] \in Tokens => Held(token'[t]),
           \/ UNCHANGED <<stored, token, writer>>
           \/ /\ writer' = t /\ to # "poll"
              /\ token'[t] = stored' \/ (token'[t] = None /\ stored' = Undefined)
    PROVE  Calm
<1>1. /\ page'[t] = IF page[t] = "leaving" THEN "leaving" ELSE ProtectedRoute(to)
      /\ \A u \in Tabs : u # t => page'[u] = page[u]
      /\ \A s \in Slots : Moved(s, cs)
      /\ page'[t] = "poll" /\ page[t] # "poll" => NoVoteOf(t, calls')
  BY NavigateEffect DEF TypeInv, SessionTypeOK
<1>2. page'[t] = "dashboard" => stored' # None
  BY <1>1 DEF ProtectedRoute
<1>3. page'[t] = "poll" => to = "poll"
  BY <1>1 DEF ProtectedRoute
<1>4. \A s \in Slots : Moved(s, calls)
  BY <1>1 DEF Moved
<1>5. TabEffect(t)
  <2>1. CASE UNCHANGED <<stored, token, writer>>
    BY <1>1, <1>2, <2>1 DEF TabEffect
  <2>2. CASE ~UNCHANGED <<stored, token, writer>>
    BY <1>1, <1>2, <1>3, <2>2 DEF TabEffect
  <2> QED
    BY <2>1, <2>2
<1>6. ASSUME NEW u \in Tabs \ {t} PROVE TabEffect(u) /\ (token'[u] \in Tokens => Held(token'[u]))
  BY <1>1 DEF TabEffect, Held
<1> QED
  BY <1>4, <1>5, <1>6 DEF Calm, accountVars, TypeInv, SessionTypeOK, AccountsTypeOK

LEMMA OpenCalm ==
    ASSUME TypeInv, NEW t \in Tabs, NEW to \in BrowserPages, Open(t, to)
    PROVE  Calm
<1>1. /\ page'[t] = ProtectedRoute(to)
      /\ \A u \in Tabs : u # t => page'[u] = page[u]
      /\ \A s \in Slots : Moved(s, calls)
      /\ NoVoteOf(t, calls')
  BY OpenEffect DEF TypeInv, SessionTypeOK
<1>2. /\ UNCHANGED <<accountVars, stored, voterId, writer>>
      /\ token'[t] = stored
      /\ \A u \in Tabs : u # t => token'[u] = token[u]
  BY DEF Open, TypeInv, SessionTypeOK
<1>3. page'[t] = "dashboard" => stored' # None
  BY <1>1 DEF ProtectedRoute
<1>4. \A u \in Tabs : TabEffect(u) /\ (token'[u] \in Tokens => Held(token'[u]))
  BY <1>1, <1>2, <1>3 DEF TabEffect, Held
<1> QED
  BY <1>1, <1>2, <1>4 DEF Calm, Held, accountVars

\* A request ends and the router does not move.
LEMMA EndsCalm ==
    ASSUME TypeInv, NEW s \in Slots, Drop(s) \/ Unauthorized(s)
    PROVE  Calm
<1>1. /\ calls' = Done(s) /\ UNCHANGED <<accountVars, voterId, token>>
      /\ \A r \in Slots : Done(s)[r] = calls[r] \/ Done(s)[r] = Free
  BY DoneEffect DEF Drop, Unauthorized, TypeInv, SessionTypeOK
<1>2. \A r \in Slots : Moved(r, calls)
  BY <1>1 DEF Moved
<1>3. CASE Drop(s)
  BY <1>1, <1>2, <1>3 DEF Drop, Calm, TabEffect, Held, accountVars
<1>4. CASE Unauthorized(s)
  <2> DEFINE t == calls[s].tab
  <2>1. /\ t \in Tabs /\ writer' = t /\ page' = [page EXCEPT ![t] = "leaving"]
        /\ stored' = None
    BY <1>4 DEF Unauthorized, TypeInv, CallsOK, CallOK, CallTypeOK
  <2>2. \A u \in Tabs : TabEffect(u)
    BY <2>1 DEF TabEffect, TypeInv, SessionTypeOK
  <2>3. \A u \in Tabs : Held(token'[u])
    BY <1>1 DEF Held
  <2> QED
    BY <1>1, <1>2, <2>1, <2>2, <2>3, NotTokens DEF Calm, accountVars
<1> QED
  BY <1>3, <1>4

LEMMA StepEffect ==
    ASSUME TypeInv, [Next]_vars
    PROVE  \/ Calm
           \/ \E t \in Tabs, op \in {"signup", "login", "create", "vote"} :
                  \E body \in Bodies(op) : Sends(t, op, body)
           \/ \E s \in Slots : Serve(s)
<1>0. /\ calls = [s \in Slots |-> calls[s]] /\ token \in [Tabs -> StoredTokens]
      /\ voterId \in VoterIds \union {None}
  BY DEF TypeInv, SessionTypeOK
<1> DEFINE Sending == \E t \in Tabs, op \in {"signup", "login", "create", "vote"} :
                          \E body \in Bodies(op) : Sends(t, op, body)
<1>1. ASSUME NEW t \in Tabs, TabNext(t) PROVE Calm \/ Sending
  <2>1. ASSUME NEW to \in BrowserPages, Open(t, to) PROVE Calm
    BY <2>1, OpenCalm
  <2>2. ASSUME NEW to \in BrowserPages, Follow(t, to) PROVE Calm
    <3>1. UNCHANGED <<accountVars, stored, voterId, writer, token>> /\ Navigate(t, to, calls)
      BY <2>2 DEF Follow
    <3>2. (stored' \in Tokens => Held(stored')) /\ (token'[t] \in Tokens => Held(token'[t]))
      BY <3>1 DEF Held
    <3> QED
      BY <1>0, <3>1, <3>2, NavigateCalm
  <2>3. ASSUME NEW e \in Typed, SubmitSignup(t, e) \/ SubmitLogin(t, e) PROVE Sending
    <3>1. TrimSpace(e) \in Bodies("signup") /\ TrimSpace(e) \in Bodies("login")
      BY <2>3, TrimmedText DEF Bodies
    <3> QED
      BY <2>3, <3>1 DEF SubmitSignup, SubmitLogin, Sends
  <2>4. ASSUME NEW d \in Drafts, SubmitDraft(t, d) PROVE Sending
    <3>1. Sent(d) \in Bodies("create") /\ Sent(d) \in Accepted
      BY <2>4 DEF Bodies, SubmitDraft, Accepted
    <3> QED
      BY <2>4, <3>1 DEF SubmitDraft, Sends
  <2>5. CASE HandleVote(t)
    <3> DEFINE b == IF token[t] = None THEN voterId' ELSE None
    <3>1. b \in Bodies("vote")
      BY <1>0, <2>5 DEF HandleVote, Bodies
    <3>2. Sends(t, "vote", b)
      BY <2>5 DEF HandleVote, Sends
    <3> QED
      BY <3>1, <3>2
  <2>6. CASE HandleLogout(t)
    <3>1. /\ stored' = None /\ token' = [token EXCEPT ![t] = None] /\ writer' = t
          /\ UNCHANGED <<accountVars, voterId>>
          /\ Navigate(t, "auth", calls)
      BY <2>6 DEF HandleLogout, SetToken
    <3> QED
      BY <1>0, <3>1, NotTokens, NavigateCalm DEF BrowserPages
  <2> QED
    BY <1>1, <2>1, <2>2, <2>3, <2>4, <2>5, <2>6 DEF TabNext, BrowserPages, Pages
<1>2. ASSUME NEW s \in Slots, CallNext(s) PROVE Calm \/ Serve(s)
  <2>0. /\ Done(s) = [r \in Slots |-> Done(s)[r]]
        /\ \A r \in Slots : Done(s)[r] = calls[r] \/ Done(s)[r] = Free
        /\ calls[s] # Free => calls[s].tab \in Tabs \union {None}
    BY <1>0, DoneEffect DEF TypeInv, CallsOK, CallOK, CallTypeOK
  <2> DEFINE t == calls[s].tab
  <2>1. CASE Drop(s) \/ Unauthorized(s)
    BY <2>1, EndsCalm
  <2>2. CASE LoggedIn(s)
    <3>1. /\ t \in Tabs /\ stored' = calls[s].answer
          /\ token' = [token EXCEPT ![t] = calls[s].answer] /\ writer' = t
          /\ UNCHANGED <<accountVars, voterId>>
          /\ Navigate(t, "dashboard", Done(s))
          /\ Held(calls[s].answer)
      BY <2>0, <2>2 DEF LoggedIn, SetToken, Awaited, Used, Held
    <3> QED
      BY <1>0, <2>0, <3>1, NavigateCalm DEF BrowserPages
  <2>3. CASE SignedUp(s)
    <3>1. /\ t \in Tabs /\ stored' = Undefined
          /\ token' = [token EXCEPT ![t] = None] /\ writer' = t
          /\ UNCHANGED <<accountVars, voterId>>
          /\ Navigate(t, "dashboard", Done(s))
      BY <2>0, <2>3 DEF SignedUp, SetToken, Awaited, Used
    <3> QED
      BY <1>0, <2>0, <3>1, NotTokens, NavigateCalm DEF BrowserPages
  <2>4. CASE Created(s)
    <3>1. /\ t \in Tabs /\ UNCHANGED <<accountVars, stored, voterId, writer, token>>
          /\ Navigate(t, "poll", Done(s))
      BY <2>0, <2>4 DEF Created, Awaited, Used
    <3>2. (stored' \in Tokens => Held(stored')) /\ (token'[t] \in Tokens => Held(token'[t]))
      BY <3>1 DEF Held
    <3> QED
      BY <1>0, <2>0, <3>1, <3>2, NavigateCalm DEF BrowserPages
  <2> QED
    BY <1>2, <2>1, <2>2, <2>3, <2>4 DEF CallNext
<1>3. CASE TokenExpires \/ UNCHANGED vars
  BY <1>3 DEF TokenExpires, Expire, vars, accountVars, Calm, Moved, TabEffect, Held
<1> QED
  BY <1>1, <1>2, <1>3 DEF Next

-----------------------------------------------------------------------------
(* Accounts and voter ids *)

\* Stored addresses are normalised.
NormalInv == \A e \in accounts : ~e.upper /\ ~e.padded

LEMMA ServeEffect ==
    ASSUME TypeInv, NEW s \in Slots, Serve(s)
    PROVE  /\ calls[s] # Free /\ CallOK(calls[s])
           /\ calls[s].op \in Writes /\ calls[s].answer = None
           /\ \E a \in Answers :
                 /\ \/ calls[s].op = "signup" /\ Signup(calls[s].body, a)
                    \/ calls[s].op = "login" /\ Login(calls[s].body, a)
                    \/ calls[s].op = "vote" /\ Vote(calls[s].sent, calls[s].body, a)
                 /\ calls'[s] = [calls[s] EXCEPT !.answer = a, !.body =
                       IF calls[s].op = "vote" THEN VoterKey(calls[s].sent, calls[s].body)
                       ELSE None]
           /\ \A r \in Slots \ {s} : calls'[r] = calls[r]
           /\ UNCHANGED <<stored, voterId, page, token, writer>>
<1>1. /\ calls[s] # Free /\ CallOK(calls[s])
      /\ calls[s].op \in Writes /\ calls[s].answer = None
  BY DEF Serve, TypeInv, CallsOK
<1> QED
  BY <1>1 DEF Serve, TypeInv, SessionTypeOK

\* A vote or login that is in flight after a calm step has been so before it.
LEMMA CalmKept ==
    ASSUME NEW s \in Slots, Moved(s, calls), calls'[s] # Free,
           calls'[s].op \in {"vote", "login"}
    PROVE  calls'[s] = calls[s]
<1>1. \A t \in Tabs : calls'[s] # NewCall(t, "my", None)
  BY DEF NewCall
<1>2. CASE calls[s] # Free /\ calls[s].op = "signup"
           /\ calls'[s] = [calls[s] EXCEPT !.tab = None]
  <2>1. calls'[s].op = calls[s].op
    BY <1>2
  <2> QED
    BY <1>2, <2>1
<1> QED
  BY <1>1, <1>2 DEF Moved

LEMMA NormalStep == ASSUME TypeInv, NormalInv, [Next]_vars PROVE NormalInv'
<1>1. ASSUME NEW s \in Slots, Serve(s) PROVE NormalInv'
  <2>1. CASE calls[s].op = "signup"
    <3>1. PICK a \in Answers : Signup(calls[s].body, a)
      BY <1>1, <2>1, ServeEffect
    <3>2. calls[s].body \in Text
      BY <1>1, <2>1, ServeEffect DEF CallOK
    <3>3. ~Normalise(calls[s].body).upper /\ ~Normalise(calls[s].body).padded
      BY <3>2 DEF Normalise, TrimSpace, ToLower, Text
    <3> QED
      BY <3>1, <3>3 DEF Signup, CreateUser, NormalInv
  <2>2. CASE calls[s].op # "signup"
    BY <1>1, <2>2, ServeEffect DEF Login, Vote, accountVars, NormalInv
  <2> QED
    BY <2>1, <2>2
<1> QED
  BY <1>1, StepEffect DEF Calm, Sends, accountVars, NormalInv

\* However an address is typed, in whatever order signups are sent and
\* served, it has one account: SignUp stores what ValidateEmail made of it.
THEOREM OneAccount == Spec => []OneAccountPerAddress
<1>1. Init => NormalInv
  BY DEF Init, AccountsInit, NormalInv
<1>2. TypeInv /\ NormalInv /\ [Next]_vars => NormalInv'
  BY NormalStep
<1>3. TypeInv /\ NormalInv => OneAccountPerAddress
  <2> SUFFICES ASSUME TypeInv, NormalInv, NEW e \in accounts, NEW f \in accounts,
                      e.word = f.word
               PROVE  e = f
    BY DEF OneAccountPerAddress
  <2>1. e \in Text /\ f \in Text
    BY DEF TypeInv, SessionTypeOK, AccountsTypeOK
  <2> QED
    BY <2>1 DEF NormalInv, Text
<1> QED
  BY <1>1, <1>2, <1>3, TypeInit, TypeStep, PTL DEF Spec

LEMMA VoterKeyOfServed ==
    ASSUME TypeInv, NEW sent, NEW header, VoterKey(sent, header) \in VoterIds
    PROVE  VoterKey(sent, header) = header
BY DEF VoterKey, Identity, Live, TypeInv, SessionTypeOK, AccountsTypeOK

LEMMA OneKeyStep == ASSUME TypeInv, OneAnonymousKey, [Next]_vars PROVE OneAnonymousKey'
<1> SUFFICES ASSUME NEW s \in Slots, calls'[s] # Free, calls'[s].op = "vote",
                    calls'[s].body \in VoterIds
             PROVE  calls'[s].body = voterId'
  BY DEF OneAnonymousKey, Used
<1>0. None \notin VoterIds
  OBVIOUS
<1>1. ASSUME calls'[s] = calls[s] PROVE calls'[s].body = voterId
  BY <1>1 DEF OneAnonymousKey, Used
<1>2. CASE Calm
  BY <1>1, <1>2, CalmKept DEF Calm
<1>3. ASSUME NEW t \in Tabs, NEW op \in {"signup", "login", "create", "vote"},
             NEW body \in Bodies(op), Sends(t, op, body)
      PROVE  calls'[s].body = voterId'
  <2>1. CASE calls'[s] = calls[s]
    <3>1. voterId \in VoterIds
      BY <1>1, <2>1
    <3> QED
      BY <1>0, <1>1, <1>3, <2>1, <3>1 DEF Sends
  <2>2. CASE calls'[s] = NewCall(t, op, body)
    <3>1. op = "vote" /\ body \in VoterIds /\ calls'[s].body = body
      BY <2>2 DEF NewCall
    <3> QED
      BY <1>0, <1>3, <3>1 DEF Sends
  <2> QED
    BY <1>3, <2>1, <2>2, SendEffect DEF Sends
<1>4. ASSUME NEW r \in Slots, Serve(r) PROVE calls'[s].body = voterId'
  <2>1. CASE r # s
    BY <1>1, <1>4, <2>1, ServeEffect
  <2>2. CASE r = s
    <3>0. PICK a \in Answers :
             calls'[s] = [calls[s] EXCEPT !.answer = a, !.body =
                 IF calls[s].op = "vote" THEN VoterKey(calls[s].sent, calls[s].body)
                 ELSE None]
      BY <1>4, <2>2, ServeEffect
    <3>1. /\ calls[s] # Free /\ voterId' = voterId /\ calls[s].op = "vote"
          /\ calls'[s].body = VoterKey(calls[s].sent, calls[s].body)
      BY <1>4, <2>2, <3>0, ServeEffect DEF CallOK, CallTypeOK
    <3>2. calls'[s].body = calls[s].body
      BY <3>1, VoterKeyOfServed
    <3> QED
      BY <3>1, <3>2 DEF OneAnonymousKey, Used
  <2> QED
    BY <2>1, <2>2
<1> QED
  BY <1>2, <1>3, <1>4, StepEffect

\* The anonymous votes of a browser are all stored under its one voter id,
\* whatever its tabs do and whatever answers are lost: handleVote makes an id
\* only when localStorage has none, and no step changes one that is there.
THEOREM OneKey == Spec => []OneAnonymousKey
<1>1. Init => OneAnonymousKey
  BY DEF Init, OneAnonymousKey, Used
<1>2. TypeInv /\ OneAnonymousKey /\ [Next]_vars => OneAnonymousKey'
  BY OneKeyStep
<1> QED
  BY <1>1, <1>2, TypeInit, TypeStep, PTL DEF Spec

-----------------------------------------------------------------------------
(* What the tabs show *)

LEMMA StaleStep == ASSUME TypeInv, OnlyOthersMakeStale, [Next]_vars PROVE OnlyOthersMakeStale'
<1> SUFFICES ASSUME NEW t \in Tabs, writer' \in {t, None}, page'[t] # "leaving"
             PROVE  /\ \/ token'[t] = stored'
                       \/ token'[t] = None /\ stored' = Undefined
                    /\ page'[t] = "dashboard" => stored' # None
  BY DEF OnlyOthersMakeStale, Own
<1>0. ASSUME writer = writer', page[t] # "leaving"
      PROVE  /\ \/ token[t] = stored
                \/ token[t] = None /\ stored = Undefined
             /\ page[t] = "dashboard" => stored # None
  BY <1>0 DEF OnlyOthersMakeStale, Own
<1>1. CASE Calm
  <2>1. TabEffect(t)
    BY <1>1 DEF Calm
  <2>2. \A u \in Tabs \ {t} : writer' # u
    OBVIOUS
  <2> QED
    BY <1>0, <2>1, <2>2 DEF TabEffect
<1>2. ASSUME UNCHANGED <<stored, page, token, writer>>
      PROVE  /\ \/ token'[t] = stored'
                \/ token'[t] = None /\ stored' = Undefined
             /\ page'[t] = "dashboard" => stored' # None
  BY <1>0, <1>2
<1> QED
  BY <1>1, <1>2, StepEffect, ServeEffect DEF Sends

\* A tab shows a token that is not stored, or a page that wants a session when
\* there is none, only after another tab has written the token: what login,
\* logout, reload and the interceptor do to localStorage and to React's copy
\* agrees within a tab, in whatever order the answers arrive.
THEOREM StaleOnlyByOthers == Spec => []OnlyOthersMakeStale
<1>1. Init => OnlyOthersMakeStale
  BY DEF Init, OnlyOthersMakeStale
<1>2. TypeInv /\ OnlyOthersMakeStale /\ [Next]_vars => OnlyOthersMakeStale'
  BY StaleStep
<1> QED
  BY <1>1, <1>2, TypeInit, TypeStep, PTL DEF Spec

\* A token that the browser holds has been signed for somebody.
IssuedInv == \A k \in Tokens : Held(k) => owner[k] # None

\* Tokens keep their owner, and one that is not live does not come to life
\* once it has been signed.
LEMMA ServeTokens ==
    ASSUME TypeInv, NEW s \in Slots, Serve(s)
    PROVE  /\ expired' = expired
           /\ \A k \in Tokens : owner[k] # None => owner'[k] = owner[k]
           /\ calls[s].op = "login" /\ calls'[s].answer \in Tokens =>
                  owner'[calls'[s].answer] # None
<1>1. PICK a \in Answers :
         /\ \/ calls[s].op = "signup" /\ Signup(calls[s].body, a)
            \/ calls[s].op = "login" /\ Login(calls[s].body, a)
            \/ calls[s].op = "vote" /\ Vote(calls[s].sent, calls[s].body, a)
         /\ calls'[s] = [calls[s] EXCEPT !.answer = a, !.body =
                IF calls[s].op = "vote" THEN VoterKey(calls[s].sent, calls[s].body)
                ELSE None]
  BY ServeEffect
<1>2. calls'[s].answer = a
  BY <1>1, ServeEffect DEF CallOK, CallTypeOK
<1>3. accounts \subseteq Text /\ owner \in [Tokens -> Text \union {None}]
  BY DEF TypeInv, SessionTypeOK, AccountsTypeOK
<1>4. CASE calls[s].op = "login" /\ Login(calls[s].body, a)
  <2> DEFINE email == Normalise(calls[s].body)
  <2>1. CASE a = "401" /\ UNCHANGED owner
    BY <1>2, <1>4, <2>1 DEF Login, Codes
  <2>2. CASE email \in accounts /\ a \in Tokens /\ GenerateToken(a, email)
    BY <1>2, <1>3, <1>4, <2>2 DEF Login, GenerateToken
  <2> QED
    BY <1>4, <2>1, <2>2 DEF Login
<1>5. CASE calls[s].op # "login"
  BY <1>1, <1>5 DEF Signup, CreateUser, Vote, accountVars
<1> QED
  BY <1>1, <1>4, <1>5

LEMMA IssuedStep == ASSUME TypeInv, IssuedInv, [Next]_vars PROVE IssuedInv'
<1>0. \A op, t, b :
         /\ NewCall(t, op, b).op = op
         /\ NewCall(t, op, b).answer = None
  BY DEF NewCall
<1>1. CASE Calm
  <2> SUFFICES ASSUME NEW k \in Tokens, Held(k)' PROVE Held(k)
    BY <1>1 DEF IssuedInv, Calm
  <2>1. ASSUME NEW s \in Slots, calls'[s] # Free, calls'[s].op = "login",
               calls'[s].answer = k
        PROVE  Held(k)
    <3>1. calls'[s] = calls[s]
      BY <1>1, <2>1, CalmKept DEF Calm
    <3> QED
      BY <2>1, <3>1 DEF Held
  <2> QED
    BY <1>1, <2>1 DEF Calm, Held
<1>2. ASSUME NEW t \in Tabs, NEW op \in {"signup", "login", "create", "vote"},
             NEW body \in Bodies(op), Sends(t, op, body)
      PROVE  IssuedInv'
  <2> SUFFICES ASSUME NEW k \in Tokens, Held(k)' PROVE Held(k)
    BY <1>2 DEF IssuedInv, Sends, accountVars
  <2>1. \A s \in Slots : calls'[s] = calls[s] \/ calls'[s].answer = None
    BY <1>0, <1>2, SendEffect DEF Sends
  <2> QED
    BY <1>2, <2>1, NotTokens DEF Sends, Held
<1>3. ASSUME NEW s \in Slots, Serve(s) PROVE IssuedInv'
  <2> SUFFICES ASSUME NEW k \in Tokens, Held(k)' PROVE owner'[k] # None
    BY DEF IssuedInv
  <2>1. CASE Held(k)
    BY <1>3, <2>1, ServeTokens DEF IssuedInv
  <2>2. CASE ~Held(k)
    <3>1. /\ UNCHANGED <<stored, token>>
          /\ \A r \in Slots \ {s} : calls'[r] = calls[r]
          /\ calls'[s].op = calls[s].op
      <4>1. PICK a \in Answers :
               calls'[s] = [calls[s] EXCEPT !.answer = a, !.body =
                   IF calls[s].op = "vote" THEN VoterKey(calls[s].sent, calls[s].body)
                   ELSE None]
        BY <1>3, ServeEffect
      <4> QED
        BY <1>3, <4>1, ServeEffect DEF CallOK, CallTypeOK
    <3>2. calls'[s].op = "login" /\ calls'[s].answer = k
      BY <2>2, <3>1 DEF Held
    <3> QED
      BY <1>3, <3>1, <3>2, ServeTokens
  <2> QED
    BY <2>1, <2>2
<1> QED
  BY <1>1, <1>2, <1>3, StepEffect

-----------------------------------------------------------------------------
(* Who votes *)

\* What a vote carries, and how it was answered, as tab t sees it.
VoteAs(t, c) ==
    /\ c.answer \in {None, "400", "ok"}
    /\ c.answer = None =>
           IF token[t] = None
           THEN c.body = voterId /\ voterId \in VoterIds /\ c.sent \notin Tokens
           ELSE c.body = None /\ c.sent = token[t]
    /\ c.answer = "400" => token[t] # None /\ ~Live(token[t])
    /\ c.answer = "ok" =>
           IF token[t] = None THEN c.body = voterId /\ voterId \in VoterIds
           ELSE token[t] \in Tokens /\ c.body = owner[token[t]]

VoteInv ==
    \A s \in Slots, t \in Tabs :
        /\ calls[s] # Free /\ calls[s].op = "vote" /\ calls[s].tab = t
        /\ Own(t) /\ page[t] = "poll"
        => VoteAs(t, calls[s])

\* A vote is served as its tab sees it.
LEMMA ServedAs ==
    ASSUME TypeInv, NEW t \in Tabs, NEW c, CallOK(c), c.answer = None, VoteAs(t, c),
           NEW a \in Answers, Vote(c.sent, c.body, a),
           NEW d, d.answer = a, d.body = VoterKey(c.sent, c.body)
    PROVE  VoteAs(t, d)
<1>1. /\ a = IF d.body = None THEN "400" ELSE "ok"
      /\ a # None
  BY DEF CallOK, CallTypeOK, Vote
<1>2. owner \in [Tokens -> Text \union {None}]
  BY DEF TypeInv, SessionTypeOK, AccountsTypeOK
<1>3. CASE token[t] = None
  <2>1. d.body = voterId /\ voterId \in VoterIds
    BY <1>1, <1>3 DEF VoteAs, VoterKey, Identity, Live
  <2> QED
    BY <1>1, <1>3, <2>1 DEF VoteAs
<1>4. CASE token[t] # None
  <2>1. d.body = Identity(token[t])
    BY <1>1, <1>4 DEF VoteAs, VoterKey
  <2> QED
    BY <1>1, <1>2, <1>4, <2>1 DEF VoteAs, Identity, Live
<1> QED
  BY <1>3, <1>4

LEMMA VoteStep ==
    ASSUME TypeInv, OnlyOthersMakeStale, IssuedInv, VoteInv, [Next]_vars
    PROVE  VoteInv'
<1> SUFFICES ASSUME NEW s \in Slots, NEW t \in Tabs,
                    calls'[s] # Free, calls'[s].op = "vote", calls'[s].tab = t,
                    Own(t)', page'[t] = "poll"
             PROVE  VoteAs(t, calls[s])'
  BY DEF VoteInv
<1>0. /\ voterId \in VoterIds \union {None}
      /\ stored \in StoredTokens /\ token \in [Tabs -> StoredTokens]
  BY DEF TypeInv, SessionTypeOK
<1>1. ASSUME calls[s] = calls'[s], writer = writer', page[t] = page'[t]
      PROVE  VoteAs(t, calls[s])
  BY <1>1 DEF VoteInv, Own
<1>2. CASE Calm
  <2>1. calls'[s] = calls[s] /\ TabEffect(t)
    BY <1>2, CalmKept DEF Calm
  <2>2. ~NoVoteOf(t, calls') /\ \A u \in Tabs \ {t} : writer' # u
    BY DEF NoVoteOf, Own
  <2>3. writer' = writer /\ token'[t] = token[t] /\ page[t] = "poll"
    BY <2>1, <2>2 DEF TabEffect
  <2> QED
    BY <1>1, <1>2, <2>1, <2>3 DEF Calm, VoteAs, Live
<1>3. ASSUME NEW u \in Tabs, NEW op \in {"signup", "login", "create", "vote"},
             NEW body \in Bodies(op), Sends(u, op, body)
      PROVE  VoteAs(t, calls[s])'
  <2>0. UNCHANGED <<accountVars, stored, page, token, writer>>
    BY <1>3 DEF Sends
  <2>1. CASE calls'[s] = calls[s]
    <3>1. voterId \in VoterIds => voterId' = voterId
      BY <1>0, <1>3 DEF Sends
    <3> QED
      BY <1>1, <2>0, <2>1, <3>1 DEF VoteAs, Live, accountVars
  <2>2. CASE calls'[s] = NewCall(u, op, body)
    <3>1. /\ op = "vote" /\ u = t /\ calls'[s].sent = stored
          /\ calls'[s].body = body /\ calls'[s].answer = None
      BY <2>0, <2>2 DEF NewCall
    <3>2. \/ token[t] = stored
          \/ token[t] = None /\ stored = Undefined
      BY <2>0 DEF OnlyOthersMakeStale, Own
    <3>3. token[t] = None => voterId' \in VoterIds /\ body = voterId'
      BY <1>0, <1>3, <3>1 DEF Sends
    <3>4. token[t] # None => body = None
      BY <1>3, <3>1 DEF Sends
    <3>5. None \notin {"400", "ok"}
      BY DEF Answers, Codes
    <3> QED
      BY <2>0, <3>1, <3>2, <3>3, <3>4, <3>5, NotTokens DEF VoteAs
  <2> QED
    BY <1>3, <2>1, <2>2, SendEffect DEF Sends
<1>4. ASSUME NEW r \in Slots, Serve(r) PROVE VoteAs(t, calls[s])'
  <2>0. UNCHANGED <<voterId, page, token, writer>>
    BY <1>4, ServeEffect
  <2>1. CASE r # s
    <3>1. VoteAs(t, calls[s]) /\ calls'[s] = calls[s]
      BY <1>1, <1>4, <2>0, <2>1, ServeEffect
    <3>2. token[t] \in Tokens => owner[token[t]] # None
      BY DEF IssuedInv, Held
    <3>3. token[t] \in Tokens => owner'[token[t]] = owner[token[t]]
      BY <1>4, <3>2, ServeTokens
    <3>4. ~Live(token[t]) => ~Live(token[t])'
      BY <1>4, <2>0, <3>2, <3>3, ServeTokens DEF Live
    <3> QED
      BY <2>0, <3>1, <3>3, <3>4 DEF VoteAs
  <2>2. CASE r = s
    <3>1. PICK a \in Answers :
             /\ \/ calls[s].op = "signup" /\ Signup(calls[s].body, a)
                \/ calls[s].op = "login" /\ Login(calls[s].body, a)
                \/ calls[s].op = "vote" /\ Vote(calls[s].sent, calls[s].body, a)
             /\ calls'[s] = [calls[s] EXCEPT !.answer = a, !.body =
                    IF calls[s].op = "vote" THEN VoterKey(calls[s].sent, calls[s].body)
                    ELSE None]
      BY <1>4, <2>2, ServeEffect
    <3>2. calls[s] # Free /\ CallOK(calls[s]) /\ calls[s].answer = None
      BY <1>4, <2>2, ServeEffect
    <3>3. calls[s].op = "vote" /\ calls[s].tab = t
      BY <3>1, <3>2 DEF CallOK, CallTypeOK
    <3>4. /\ Vote(calls[s].sent, calls[s].body, a)
          /\ calls'[s].answer = a
          /\ calls'[s].body = VoterKey(calls[s].sent, calls[s].body)
      BY <3>1, <3>2, <3>3 DEF CallOK, CallTypeOK
    <3>5. VoteAs(t, calls[s])
      BY <2>0, <3>2, <3>3 DEF VoteInv, Own
    <3>6. VoteAs(t, calls'[s])
      BY <3>2, <3>4, <3>5, ServedAs
    <3>7. UNCHANGED accountVars
      BY <3>4 DEF Vote
    <3> QED
      BY <2>0, <3>6, <3>7 DEF VoteAs, Live, accountVars
  <2> QED
    BY <2>1, <2>2
<1> QED
  BY <1>2, <1>3, <1>4, StepEffect

LEMMA SessionInvariants ==
    Spec => [](TypeInv /\ OnlyOthersMakeStale /\ IssuedInv /\ VoteInv)
<1>1. Init => OnlyOthersMakeStale /\ IssuedInv /\ VoteInv
  BY NotTokens DEF Init, OnlyOthersMakeStale, IssuedInv, Held, VoteInv
<1> QED
  BY <1>1, TypeInit, TypeStep, StaleStep, IssuedStep, VoteStep, PTL DEF Spec

\* Whoever the page shows to be voting is who votes: handleVote decides by
\* React's token whether to send the voter id, the interceptor sends the token
\* of localStorage, and voterKey prefers the user to the header; unless
\* another tab has written the token, the three come to the same voter.
THEOREM VoterAsShown == Spec => []VoterIsWhoThePageSays
<1>1. TypeInv /\ VoteInv => VoterIsWhoThePageSays
  <2> SUFFICES ASSUME TypeInv, VoteInv, NEW s \in Awaited("vote"),
                      Own(calls[s].tab), page[calls[s].tab] = "poll"
               PROVE  LET t == calls[s].tab
                      IN  /\ calls[s].answer = "400" => token[t] # None /\ ~Live(token[t])
                          /\ calls[s].answer = "ok" =>
                                 calls[s].body =
                                     IF token[t] = None THEN voterId ELSE owner[token[t]]
    BY DEF VoterIsWhoThePageSays
  <2>1. /\ s \in Slots /\ calls[s] # Free /\ calls[s].op = "vote"
        /\ calls[s].tab \in Tabs
    BY DEF Awaited, Used, TypeInv, CallsOK, CallOK, CallTypeOK
  <2>2. VoteAs(calls[s].tab, calls[s])
    BY <2>1 DEF VoteInv
  <2> QED
    BY <2>2 DEF VoteAs
<1> QED
  BY <1>1, SessionInvariants, PTL

-----------------------------------------------------------------------------
(* What ends a session *)

\* A vote is never refused as a session is.
VoteCodes ==
    \A s \in Slots : calls[s] # Free /\ calls[s].op = "vote" => calls[s].answer # "401"

LEMMA VoteCodesStep == ASSUME TypeInv, VoteCodes, [Next]_vars PROVE VoteCodes'
<1> SUFFICES ASSUME NEW s \in Slots, calls'[s] # Free, calls'[s].op = "vote"
             PROVE  calls'[s].answer # "401"
  BY DEF VoteCodes
<1>1. ASSUME calls'[s] = calls[s] PROVE calls'[s].answer # "401"
  BY <1>1 DEF VoteCodes
<1>2. CASE Calm
  BY <1>1, <1>2, CalmKept DEF Calm
<1>3. ASSUME NEW u \in Tabs, NEW op \in {"signup", "login", "create", "vote"},
             NEW body \in Bodies(op), Sends(u, op, body)
      PROVE  calls'[s].answer # "401"
  <2>1. None # "401"
    BY DEF Answers, Codes
  <2>2. NewCall(u, op, body).answer = None
    BY DEF NewCall
  <2>3. calls'[s] = calls[s] \/ calls'[s] = NewCall(u, op, body)
    BY <1>3, SendEffect DEF Sends
  <2> QED
    BY <1>1, <2>1, <2>2, <2>3
<1>4. ASSUME NEW r \in Slots, Serve(r) PROVE calls'[s].answer # "401"
  <2>1. CASE r # s
    BY <1>1, <1>4, <2>1, ServeEffect
  <2>2. CASE r = s
    <3>1. PICK a \in Answers :
             /\ \/ calls[s].op = "signup" /\ Signup(calls[s].body, a)
                \/ calls[s].op = "login" /\ Login(calls[s].body, a)
                \/ calls[s].op = "vote" /\ Vote(calls[s].sent, calls[s].body, a)
             /\ calls'[s] = [calls[s] EXCEPT !.answer = a, !.body =
                    IF calls[s].op = "vote" THEN VoterKey(calls[s].sent, calls[s].body)
                    ELSE None]
      BY <1>4, <2>2, ServeEffect
    <3>2. calls[s].op = "vote" /\ calls'[s].answer = a
      BY <1>4, <2>2, <3>1, ServeEffect DEF CallOK, CallTypeOK
    <3> QED
      BY <3>1, <3>2 DEF Vote
  <2> QED
    BY <2>1, <2>2
<1> QED
  BY <1>2, <1>3, <1>4, StepEffect

\* What may take a live token out of localStorage.
MayEnd ==
    \/ \E t \in Tabs : page[t] = "dashboard" /\ page'[t] = "auth"
    \/ \E s \in Used : /\ calls'[s] # calls[s]
                       /\ \/ calls[s].op \in {"login", "signup"}
                          \/ AnsweredWith(s, "401") /\ calls[s].sent # stored

LEMMA LiveStep ==
    ASSUME TypeInv, VoteCodes, [Next]_vars, Live(stored), stored' # stored
    PROVE  MayEnd
<1>0. calls = [r \in Slots |-> calls[r]] /\ page \in [Tabs -> Pages]
  BY DEF TypeInv, SessionTypeOK
<1>1. ASSUME NEW t \in Tabs, HandleLogout(t) PROVE MayEnd
  <2>1. page[t] = "dashboard" /\ Navigate(t, "auth", calls)
    BY <1>1 DEF HandleLogout
  <2>2. page'[t] = "auth"
    BY <1>0, <2>1, NavigateEffect DEF BrowserPages, ProtectedRoute
  <2> QED
    BY <2>1, <2>2 DEF MayEnd
<1>2. ASSUME NEW s \in Slots, LoggedIn(s) \/ SignedUp(s) PROVE MayEnd
  <2>1. /\ calls[s] # Free /\ calls[s].op \in {"login", "signup"} /\ calls[s].tab \in Tabs
        /\ Navigate(calls[s].tab, "dashboard", Done(s))
    BY <1>2 DEF LoggedIn, SignedUp, Awaited, Used, TypeInv, CallsOK, CallOK, CallTypeOK
  <2>2. Moved(s, Done(s)) /\ Done(s)[s] = Free
    BY <1>0, <2>1, DoneEffect, NavigateEffect DEF BrowserPages
  <2>3. \A t : NewCall(t, "my", None).op = "my"
    BY DEF NewCall
  <2>4. calls'[s] # calls[s]
    BY <2>1, <2>2, <2>3 DEF Moved
  <2> QED
    BY <2>1, <2>4 DEF MayEnd, Used
<1>3. ASSUME NEW s \in Slots, Unauthorized(s) PROVE MayEnd
  <2>1. calls[s] # Free /\ AnsweredWith(s, "401") /\ calls'[s] = Free
    BY <1>0, <1>3, DoneEffect DEF Unauthorized
  <2>2. CASE calls[s].op \in {"login", "signup"}
    BY <2>1, <2>2 DEF MayEnd, Used
  <2>3. CASE calls[s].op \notin {"login", "signup"}
    <3>1. calls[s].op # "vote"
      BY <2>1 DEF AnsweredWith, VoteCodes, Writes
    <3>2. ~Live(calls[s].sent)
      BY <2>1, <2>3, <3>1 DEF AnsweredWith, Writes, GetMyPolls, CreatePoll
    <3> QED
      BY <2>1, <3>2 DEF MayEnd, Used
  <2> QED
    BY <2>2, <2>3
<1> QED
  BY <1>1, <1>2, <1>3
     DEF Next, vars, TabNext, CallNext, TokenExpires, Open, Follow, SubmitSignup,
         SubmitLogin, SubmitDraft, HandleVote, Serve, Drop, Created

\* A live session is ended by a logout, replaced by the answer to a login or
\* signup, or dropped for the 401 of a request that carried another token:
\* the interceptor, which clears whatever is stored, is never set off by a
\* request that carried a live token, nor by a vote.
THEOREM LiveSessionsEndThus == Spec => LiveSessionKept
<1>1. Init => VoteCodes
  BY DEF Init, VoteCodes
<1>2. TypeInv /\ VoteCodes /\ [Next]_vars => VoteCodes'
  BY VoteCodesStep
<1>3. TypeInv /\ VoteCodes /\ [Next]_vars =>
          [Live(stored) /\ stored' # stored => MayEnd]_vars
  BY LiveStep
<1>4. Spec => [][Live(stored) /\ stored' # stored => MayEnd]_vars
  BY <1>1, <1>2, <1>3, TypeInit, TypeStep, PTL DEF Spec
<1> QED
  BY <1>4 DEF LiveSessionKept, MayEnd

-----------------------------------------------------------------------------
(* Drafts *)

\* A request for a new poll carries what the form let through.
CreateInv ==
    \A s \in Slots :
        calls[s] # Free /\ calls[s].op = "create" => calls[s].body \in Accepted

LEMMA CreateStep == TypeInv /\ CreateInv /\ [Next]_vars => CreateInv'
<1> SUFFICES ASSUME TypeInv, CreateInv, [Next]_vars, NEW s \in Slots,
                    calls'[s] # Free, calls'[s].op = "create"
             PROVE  calls'[s].body \in Accepted
  BY DEF CreateInv, Accepted
<1>0. calls[s] # Free => CallOK(calls[s])
  BY DEF TypeInv, CallsOK
<1>1. calls[s] # Free /\ calls[s].op = "create" => calls[s].body \in Accepted
  BY DEF CreateInv
<1>2. CASE Calm
  <2>1. Moved(s, calls)
    BY <1>2 DEF Calm
  <2>2. ASSUME calls[s] # Free, calls[s].op = "signup",
               calls'[s] = [calls[s] EXCEPT !.tab = None]
        PROVE  calls'[s].op = "signup"
    BY <1>0, <2>2 DEF CallOK, CallTypeOK
  <2>3. ASSUME NEW t \in Tabs, calls'[s] = NewCall(t, "my", None)
        PROVE  calls'[s].op = "my"
    BY <2>3 DEF NewCall
  <2>4. calls'[s] = calls[s]
    BY <2>1, <2>2, <2>3 DEF Moved
  <2> QED
    BY <1>1, <2>4
<1>3. ASSUME NEW t \in Tabs, NEW op \in {"signup", "login", "create", "vote"},
             NEW body \in Bodies(op), Sends(t, op, body)
      PROVE  calls'[s].body \in Accepted
  <2>1. CASE calls'[s] = NewCall(t, op, body)
    BY <1>3, <2>1 DEF NewCall, Sends
  <2>2. CASE calls'[s] = calls[s]
    BY <1>1, <2>2
  <2> QED
    BY <1>3, <2>1, <2>2, SendEffect DEF Sends
<1>4. ASSUME NEW r \in Slots, Serve(r) PROVE calls'[s].body \in Accepted
  <2>1. r # s
    <3> SUFFICES ASSUME r = s PROVE FALSE
      OBVIOUS
    <3>1. calls[s] # Free /\ calls[s].op \in Writes
      BY <1>4, ServeEffect
    <3>2. PICK a \in Answers :
             calls'[s] = [calls[s] EXCEPT !.answer = a, !.body =
                    IF calls[s].op = "vote" THEN VoterKey(calls[s].sent, calls[s].body)
                    ELSE None]
      BY <1>4, ServeEffect
    <3>3. calls'[s].op = calls[s].op
      BY <1>0, <3>1, <3>2 DEF CallOK, CallTypeOK
    <3> QED
      BY <3>1, <3>3 DEF Writes
  <2> QED
    BY <1>1, <1>4, <2>1, ServeEffect
<1> QED
  BY <1>2, <1>3, <1>4, StepEffect

\* A poll that the form let through is refused by the server only for its
\* length, whatever the drafts and however many requests and tabs: the form's
\* filter and the server's loop agree about empty and equal options.
THEOREM RefusedForLength == Spec => []RefusedForLengthOnly
<1>1. Init => CreateInv
  BY DEF Init, CreateInv
<1>2. CreateInv => RefusedForLengthOnly
  <2> SUFFICES ASSUME CreateInv, NEW s \in Used, calls[s].op = "create",
                      AnsweredWith(s, "400"), ~TooLong(calls[s].body)
               PROVE  FALSE
    BY DEF RefusedForLengthOnly
  <2>1. PICK d \in Drafts : FormAccepts(d) /\ calls[s].body = Sent(d)
    BY DEF CreateInv, Accepted, Used
  <2>2. ValidQuestion(Sent(d).question) /\ ValidateOptions(Sent(d).options) # Invalid
    BY <2>1, FormAgreesWithServer
  <2>3. CreatePoll(calls[s].sent, calls[s].body, "400")
    BY DEF AnsweredWith, Writes
  <2> QED
    BY <2>1, <2>2, <2>3 DEF CreatePoll
<1> QED
  BY <1>1, <1>2, CreateStep, TypeInit, TypeStep, PTL DEF Spec

=============================================================================
