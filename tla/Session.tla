------------------------------- MODULE Session -------------------------------
(***************************************************************************)
(* The tabs of one browser: AuthContext, the interceptors of api.js, the    *)
(* routes and the forms.  All tabs share localStorage, and each keeps its   *)
(* own copy of the token in React state, which no other tab updates.        *)
(* Requests are answered in any order, or never, and the interceptor of     *)
(* a 401 acts on whatever the browser holds by then.                        *)
(***************************************************************************)
EXTENDS Accounts

CONSTANTS
    Tabs,
    Slots,      \* bounds the number of requests in flight
    Free,       \* a slot without a request
    Typed,      \* the e-mails that visitors type
    Drafts,     \* the polls that visitors draft
    Undefined   \* the string "undefined", which localStorage makes of undefined

ASSUME SessionAssumption ==
    /\ Typed \subseteq Text
    /\ Drafts \subseteq Draft
    /\ \A d \in Drafts : Len(d.options) <= MaxOptions
    /\ None \notin Tabs
    /\ Undefined \notin Tokens \union {None}

VARIABLES
    stored,     \* localStorage "token"
    voterId,    \* localStorage "voterId"
    page,       \* [Tabs -> Pages]
    token,      \* [Tabs -> AuthContext's token, None if it is falsy]
    calls,      \* [Slots -> the request in flight there, or Free]
    writer      \* history: the tab that wrote "token" last

vars == <<accountVars, stored, voterId, page, token, calls, writer>>

\* "auth" is /login and /signup, which differ in their forms only; "dashboard"
\* is the protected pages, whose requests are refused alike; "leaving" is a
\* page whose interceptor has set window.location and that still runs.
Pages == {"auth", "dashboard", "poll", "leaving"}

\* CreatePoll and GetMyPolls change nothing that matters to sessions.
Writes == {"signup", "login", "vote"}
Reads == {"my", "create"}
StoredTokens == Tokens \union {None, Undefined}

\* What a request carries: an address, a voter id or a draft.  Once a vote is
\* answered, the key that it is stored under.
Bodies(op) ==
    CASE op \in {"signup", "login"} -> Text \union {None}
      [] op = "vote" -> VoterIds \union Text \union {None}
      [] op = "create" -> {Sent(d) : d \in Drafts}
      [] op = "my" -> {None}

\* sent is the token in the header, for the routes that read it.  The tab is
\* None when nothing awaits the answer any more.
CallTypeOK(c) ==
    /\ c.op \in Writes \union Reads
    /\ c = [op |-> c.op, tab |-> c.tab, sent |-> c.sent, body |-> c.body,
            answer |-> c.answer]
    /\ c.tab \in Tabs \union {None}
    /\ c.sent \in StoredTokens
    /\ c.body \in Bodies(c.op)
    /\ c.answer \in Answers \union {None}

Used == {s \in Slots : calls[s] # Free}
Awaited(op) == {s \in Used : calls[s].op = op /\ calls[s].tab # None}

SessionTypeOK ==
    /\ AccountsTypeOK
    /\ stored \in StoredTokens
    /\ voterId \in VoterIds \union {None}
    /\ page \in [Tabs -> Pages]
    /\ token \in [Tabs -> StoredTokens]
    /\ calls = [s \in Slots |-> calls[s]]
    /\ \A s \in Used : CallTypeOK(calls[s])
    /\ writer \in Tabs \union {None}

\* A browser that has not been here before.
Init ==
    /\ AccountsInit
    /\ stored = None
    /\ voterId = None
    /\ page = [t \in Tabs |-> "auth"]
    /\ token = [t \in Tabs |-> None]
    /\ calls = [s \in Slots |-> Free]
    /\ writer = None

-----------------------------------------------------------------------------
(* Requests and routes *)

\* The request interceptor reads localStorage, not React's state.
NewCall(t, op, body) ==
    [op |-> op, tab |-> t, body |-> body, answer |-> None,
     sent |-> IF op \in {"signup", "login"} THEN None ELSE stored']

\* Of the forms, buttons and votes, one request is in flight at a time: a bound.
Send(t, op, body) ==
    /\ \A s \in Used : calls[s].op = "my"
    /\ \E s \in Slots :
           /\ calls[s] = Free
           /\ calls' = [calls EXCEPT ![s] = NewCall(t, op, body)]

\* Nothing in tab t awaits the answers to these requests any more.  Served all
\* the same, only a signup leaves a trace here.
Detach(cs, t, ops) ==
    [s \in Slots |->
        IF cs[s] # Free /\ cs[s].tab = t /\ cs[s].op \in ops
        THEN IF cs[s].op = "signup" /\ cs[s].answer = None
             THEN [cs[s] EXCEPT !.tab = None] ELSE Free
        ELSE cs[s]]

\* The page, and the request of the dashboard's first effect.
Mount(t, p, cs) ==
    /\ page' = [page EXCEPT ![t] = p]
    /\ \/ p # "dashboard" /\ calls' = cs
       \/ \E s \in Slots :
              /\ p = "dashboard"
              /\ cs[s] = Free
              /\ calls' = [cs EXCEPT ![s] = NewCall(t, "my", None)]

ProtectedRoute(p) == IF p = "dashboard" /\ stored' = None THEN "auth" ELSE p

\* A step of the router.  What the poll page awaits only sets its own state,
\* which is gone with it; the interceptors and the forms' navigation stay.
Navigate(t, to, cs) ==
    LET p == ProtectedRoute(to)
    IN  IF page[t] \in {p, "leaving"}
        THEN calls' = cs /\ UNCHANGED page
        ELSE Mount(t, p, Detach(cs, t, {"vote"}))

\* The tab loads a page, reloads it, or ends up where it was sent by a 401:
\* AuthProvider takes the token from localStorage.
Open(t, to) ==
    /\ UNCHANGED <<accountVars, stored, voterId, writer>>
    /\ token' = [token EXCEPT ![t] = stored]
    /\ Mount(t, ProtectedRoute(to), Detach(calls, t, Writes \union Reads))

\* A link, or the browser's history.
Follow(t, to) ==
    /\ UNCHANGED <<accountVars, stored, voterId, writer, token>>
    /\ Navigate(t, to, calls)

-----------------------------------------------------------------------------
(* What the visitor does *)

SubmitSignup(t, email) ==
    /\ page[t] = "auth" /\ email.word # Blank
    /\ UNCHANGED <<accountVars, stored, voterId, page, token, writer>>
    /\ Send(t, "signup", TrimSpace(email))

SubmitLogin(t, email) ==
    /\ page[t] = "auth" /\ email.word # Blank
    /\ UNCHANGED <<accountVars, stored, voterId, page, token, writer>>
    /\ Send(t, "login", TrimSpace(email))

SubmitDraft(t, draft) ==
    /\ page[t] = "dashboard"
    /\ FormAccepts(draft)
    /\ UNCHANGED <<accountVars, stored, voterId, page, token, writer>>
    /\ Send(t, "create", Sent(draft))

\* Variant: a new voter id each time.
HandleVoteForgetful(t) ==
    /\ page[t] = "poll"
    /\ UNCHANGED <<accountVars, stored, voterId, page, token, writer>>
    /\ \/ token[t] # None /\ Send(t, "vote", None)
       \/ token[t] = None /\ \E v \in VoterIds : Send(t, "vote", v)

\* Variant: the voter id is sent by the token in localStorage, not by React's.
HandleVoteByStorage(t) ==
    /\ page[t] = "poll"
    /\ voterId' \in IF stored # None \/ voterId # None THEN {voterId} ELSE VoterIds
    /\ UNCHANGED <<accountVars, stored, page, token, writer>>
    /\ Send(t, "vote", IF stored = None THEN voterId' ELSE None)

\* Without a token in React's state the voter id goes along, made if need be.
HandleVote(t) ==
    /\ page[t] = "poll"
    /\ voterId' \in IF token[t] # None \/ voterId # None THEN {voterId} ELSE VoterIds
    /\ UNCHANGED <<accountVars, stored, page, token, writer>>
    /\ Send(t, "vote", IF token[t] = None THEN voterId' ELSE None)

SetToken(t, inStorage, inReact) ==
    /\ stored' = inStorage
    /\ token' = [token EXCEPT ![t] = inReact]
    /\ writer' = t
    /\ UNCHANGED <<accountVars, voterId>>

\* Variant: localStorage.setItem('token', null) stores the string "null".
HandleLogoutStoresNull(t) ==
    /\ page[t] = "dashboard"
    /\ SetToken(t, "null", None)
    /\ Navigate(t, "auth", calls)

\* Variant: logout forgets React's copy.
HandleLogoutKeepsCopy(t) ==
    /\ page[t] = "dashboard"
    /\ SetToken(t, None, token[t])
    /\ Navigate(t, "auth", calls)

HandleLogout(t) ==
    /\ page[t] = "dashboard"
    /\ SetToken(t, None, None)
    /\ Navigate(t, "auth", calls)

-----------------------------------------------------------------------------
(* The server, and the answers *)

Serve(s) ==
    /\ calls[s] # Free /\ calls[s].op \in Writes /\ calls[s].answer = None
    /\ \E a \in Answers :
           /\ \/ calls[s].op = "signup" /\ Signup(calls[s].body, a)
              \/ calls[s].op = "login" /\ Login(calls[s].body, a)
              \/ calls[s].op = "vote" /\ Vote(calls[s].sent, calls[s].body, a)
           /\ calls' = [calls EXCEPT ![s].answer = a, ![s].body =
                  IF calls[s].op = "vote" THEN VoterKey(calls[s].sent, calls[s].body)
                  ELSE None]
    /\ UNCHANGED <<stored, voterId, page, token, writer>>

\* A read may as well be served when its answer arrives: a token that is not
\* live by then was not live or has expired, and nothing else decides.
AnsweredWith(s, a) ==
    \/ calls[s].op \in Writes /\ calls[s].answer = a
    \/ calls[s].op = "my" /\ GetMyPolls(calls[s].sent, a)
    \/ calls[s].op = "create" /\ CreatePoll(calls[s].sent, calls[s].body, a)

Done(s) == [calls EXCEPT ![s] = Free]

\* The request or its answer is lost, nothing awaits the answer, or it changes
\* nothing here but messages.
Drop(s) ==
    /\ calls[s] # Free
    /\ calls' = Done(s)
    /\ UNCHANGED <<accountVars, stored, voterId, page, token, writer>>

\* login in AuthContext, then the form's navigation.
LoggedIn(s) ==
    /\ s \in Awaited("login") /\ calls[s].answer \in Tokens
    /\ SetToken(calls[s].tab, calls[s].answer, calls[s].answer)
    /\ Navigate(calls[s].tab, "dashboard", Done(s))

\* The answer to a signup has neither token nor user.
SignedUp(s) ==
    /\ s \in Awaited("signup") /\ AnsweredWith(s, "ok")
    /\ SetToken(calls[s].tab, Undefined, None)
    /\ Navigate(calls[s].tab, "dashboard", Done(s))

Created(s) ==
    /\ s \in Awaited("create") /\ AnsweredWith(s, "ok")
    /\ UNCHANGED <<accountVars, stored, voterId, token, writer>>
    /\ Navigate(calls[s].tab, "poll", Done(s))

\* The response interceptor, whatever request was refused.
Unauthorized(s) ==
    /\ calls[s] # Free /\ calls[s].tab # None /\ AnsweredWith(s, "401")
    /\ page[calls[s].tab] # "auth"
    /\ stored' = None
    /\ page' = [page EXCEPT ![calls[s].tab] = "leaving"]
    /\ writer' = calls[s].tab
    /\ calls' = Done(s)
    /\ UNCHANGED <<accountVars, voterId, token>>

-----------------------------------------------------------------------------
TabNext(t) ==
    \/ \E p \in Pages \ {"leaving"} : Open(t, p) \/ Follow(t, p)
    \/ \E e \in Typed : SubmitSignup(t, e) \/ SubmitLogin(t, e)
    \/ \E d \in Drafts : SubmitDraft(t, d)
    \/ HandleVote(t) \/ HandleLogout(t)

CallNext(s) ==
    \/ Serve(s) \/ Drop(s)
    \/ LoggedIn(s) \/ SignedUp(s) \/ Created(s)
    \/ Unauthorized(s)

\* Tokens expire by themselves.
TokenExpires ==
    /\ \E k \in Tokens : Expire(k)
    /\ UNCHANGED <<stored, voterId, page, token, calls, writer>>

Next ==
    \/ \E t \in Tabs : TabNext(t)
    \/ \E s \in Slots : CallNext(s)
    \/ TokenExpires

Spec == Init /\ [][Next]_vars

-----------------------------------------------------------------------------
\* No other tab has written the token since tab t did, or none ever did.
Own(t) == writer \in {t, None}

\* What a tab shows follows localStorage through its own logins, logouts,
\* reloads and refusals: only another tab can leave it with a token that is no
\* longer stored, or on a page that wants a session when there is none.  After
\* a signup it shows no token while "undefined" is stored.
OnlyOthersMakeStale ==
    \A t \in Tabs : Own(t) /\ page[t] # "leaving" =>
        /\ token[t] = stored \/ (token[t] = None /\ stored = Undefined)
        /\ page[t] = "dashboard" => stored # None

\* The page's own view of who votes is the server's: unless another tab
\* changed the session, a vote is stored under the account of the token the
\* page holds, or under the browser's voter id if it holds none, and it is
\* refused for want of an identity only if that token is not live any more.
VoterIsWhoThePageSays ==
    \A s \in Awaited("vote") :
        LET t == calls[s].tab
        IN  Own(t) /\ page[t] = "poll" =>
                /\ calls[s].answer = "400" => token[t] # None /\ ~Live(token[t])
                /\ calls[s].answer = "ok" =>
                       calls[s].body =
                           IF token[t] = None THEN voterId ELSE owner[token[t]]

\* All anonymous votes of a browser have one key, so that the index on votes
\* admits one, whatever its tabs, reloads, logins and lost answers.
OneAnonymousKey ==
    \A s \in Used :
        calls[s].op = "vote" /\ calls[s].body \in VoterIds =>
            calls[s].body = voterId

\* However an address is typed, it has one account.
OneAccountPerAddress ==
    \A e, f \in accounts : e.word = f.word => e = f

\* The form and the server check a poll apart from each other: the server
\* refuses what the form let through only for its length, which the form does
\* not check.
RefusedForLengthOnly ==
    \A s \in Used :
        calls[s].op = "create" /\ AnsweredWith(s, "400") => TooLong(calls[s].body)

\* A live token leaves localStorage only by a logout, by the answer to a login
\* or signup, or by the 401 of a request that was sent without that token: a
\* refusal of what a session may not do never ends the session.
LiveSessionKept ==
    [][Live(stored) /\ stored' # stored =>
           \/ \E t \in Tabs : page[t] = "dashboard" /\ page'[t] = "auth"
           \/ \E s \in Used : /\ calls'[s] # calls[s]
                              /\ \/ calls[s].op \in {"login", "signup"}
                                 \/ AnsweredWith(s, "401") /\ calls[s].sent # stored]_vars

=============================================================================
