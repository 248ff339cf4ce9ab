----------------------------- MODULE AuthSession -----------------------------
(***************************************************************************)
(* The sign-in to the web application and its session.  A password, a new  *)
(* account or Google buys a pair of access and refresh token, which the    *)
(* tabs share in localStorage.  A call renews the pair before it is sent   *)
(* when the access token is about to expire, and once after it was         *)
(* refused; the calls of a tab share one refresh, tabs do not.  The        *)
(* backend passes sign-ins and refreshes on to WorkOS, and after each      *)
(* refreshes once more, in the background, to bind the session to the      *)
(* organization, and drops what it gets.                                   *)
(***************************************************************************)
EXTENDS Integers, FiniteSets

CONSTANTS
    Tabs,
    ApiCalls,      \* calls of apiFetch at a time
    MaxTokens      \* bound of token pairs WorkOS issues

ASSUME AuthAssumption == MaxTokens \in Nat \ {0}

VARIABLES
    session,     \* localStorage: the stored pair, 0 when signed out
    away,        \* a tab on the way to Google and back, its flow stored
    defaultOrg,  \* an organization is configured, or none is known
    issued,      \* pairs issued so far; pairs are numbered
    live,        \* refresh tokens WorkOS still accepts
    age,         \* access tokens: fresh, about to expire, expired
    flight,      \* refreshInFlight of a tab, and its answer on the way
    fetching,    \* locals of a call
    binding      \* pairs the backend is binding to the organization

workosVars == <<issued, live, binding>>
authVars == <<session, away, defaultOrg, workosVars, age, flight, fetching>>

Pair == 1..MaxTokens
NoFlight == [at |-> "none", token |-> 0, answer |-> 0]
\* A call that has returned is idle again.
NoFetch == [at |-> "idle", tab |-> {}, token |-> 0, status |-> 0]

AuthTypeOK ==
    /\ session \in 0..issued /\ issued \in 0..MaxTokens
    /\ live \subseteq 1..issued /\ binding \subseteq 1..issued
    /\ away \subseteq Tabs
    /\ defaultOrg \in BOOLEAN
    /\ age \in [Pair -> {"fresh", "soon", "expired"}]
    /\ \A t \in Tabs :
        /\ flight[t].at \in {"none", "asked", "answered", "stuck"}
        /\ flight[t].token \in 0..issued /\ flight[t].answer \in 0..issued
    /\ \A c \in ApiCalls :
        /\ fetching[c].at \in {"idle", "early", "send", "sent", "late", "resend", "resent"}
        /\ fetching[c].tab \subseteq Tabs /\ fetching[c].token \in 0..issued /\ fetching[c].status \in {0, 401, 500}

AuthInit ==
    /\ session = 0
    /\ away = {}
    /\ defaultOrg \in BOOLEAN
    /\ issued = 0
    /\ live = {}
    /\ age = [n \in Pair |-> "fresh"]
    /\ flight = [t \in Tabs |-> NoFlight]
    /\ fetching = [c \in ApiCalls |-> NoFetch]
    /\ binding = {}
-----------------------------------------------------------------------------
(***************************************************************************)
(* WorkOS, as the backend uses it.  A sign-in or a refresh token it        *)
(* accepts buys a new pair, and the refresh token may be used up by that.  *)
(***************************************************************************)
Issue(used) ==
    /\ issued < MaxTokens
    /\ issued' = issued + 1
    /\ \E kept \in {{}, used} : live' = (live \ used) \cup kept \cup {issued + 1}

Expire(n) ==
    /\ n <= issued /\ age[n] # "expired"
    /\ age' = [age EXCEPT ![n] = IF @ = "fresh" THEN "soon" ELSE "expired"]
    /\ UNCHANGED <<session, away, defaultOrg, workosVars, flight, fetching>>
-----------------------------------------------------------------------------
(***************************************************************************)
(* The backend's side of signing in and of refreshing.  It records the     *)
(* user, without which nothing is answered, and starts the binding.        *)
(***************************************************************************)
\* Without an organization there is nothing to bind to.  A binding that never
\* runs is that of an access token that names the organization already.
FinalizeSession == binding' = IF defaultOrg THEN binding \cup {issued + 1} ELSE binding

Bind(n) ==
    /\ n \in binding
    /\ binding' = binding \ {n}
    /\ IF n \in live THEN Issue({n}) ELSE UNCHANGED <<issued, live>>
    /\ UNCHANGED <<session, away, defaultOrg, age, flight, fetching>>

\* setAuthSession, or clearAuthSession for none.
SetAuthSession(pair) == session' = pair
PersistSession(pair) == SetAuthSession(pair)

\* What a sign-in is answered is stored.  When the user cannot be recorded or
\* the answer is lost, WorkOS has issued a pair that nobody holds.
Admit ==
    \/ FinalizeSession /\ PersistSession(issued + 1)
    \/ FinalizeSession /\ UNCHANGED session
    \/ UNCHANGED <<binding, session>>

\* An answer that asks for the organization first is answered with the one
\* configured, and buys the same pair.
Authenticated == Issue({})
AuthenticatePassword == Authenticated
ExchangeCode == Authenticated
Exchange == ExchangeCode /\ Admit

\* A new account is created first, and then signed in like an old one.
PasswordSignIn ==
    /\ session = 0
    /\ AuthenticatePassword /\ Admit
    /\ UNCHANGED <<away, defaultOrg, age, flight, fetching>>

\* The state and the code verifier wait in the tab's sessionStorage.  Leaving
\* the page starts the tab afresh, and so does a reload.
Leave(t) ==
    /\ flight' = [flight EXCEPT ![t] = NoFlight]
    /\ fetching' = [c \in ApiCalls |-> IF t \in fetching[c].tab THEN NoFetch ELSE fetching[c]]

\* The backend makes up the URL, the state and the verifier and keeps nothing:
\* it is the flow of the one tab that asked.
AuthorizationURL(t) == {t}

GoToGoogle(t) ==
    /\ session = 0 /\ away = {}
    /\ away' = AuthorizationURL(t)
    /\ Leave(t)
    /\ UNCHANGED <<session, defaultOrg, workosVars, age>>

\* On return the code is exchanged once, or Google refused, or the code, the
\* state or the flow is missing.
Callback(t) ==
    /\ t \in away
    /\ away' = {}
    /\ Exchange \/ UNCHANGED <<session, workosVars>>
    /\ UNCHANGED <<defaultOrg, age, flight, fetching>>

Reload(t) ==
    /\ Leave(t)
    /\ UNCHANGED <<session, away, defaultOrg, workosVars, age>>

SignOut ==
    /\ session # 0
    /\ SetAuthSession(0)
    /\ UNCHANGED <<away, defaultOrg, workosVars, age, flight, fetching>>
-----------------------------------------------------------------------------
(***************************************************************************)
(* refreshAuthSession.                                                     *)
(***************************************************************************)
\* A call that asks joins the refresh under way, or starts one with the pair
\* that is stored.  Without a pair the answer is no at once, and as only the
\* try block's end clears refreshInFlight, it stays so until the tab reloads.
Stuck == [NoFlight EXCEPT !.at = "stuck"]
Asked(t) == IF flight[t].at # "none" THEN flight[t]
            ELSE IF session = 0 THEN Stuck
            ELSE [at |-> "asked", token |-> session, answer |-> 0]
AskRefresh(t) == flight' = [flight EXCEPT ![t] = Asked(t)]

\* A refresh ends as a sign-in does.  Its answer may fail or be lost.
BackendRefresh(t) ==
    /\ flight[t].at = "asked"
    /\ IF flight[t].token \in live
       THEN /\ Issue({flight[t].token})
            /\ \/ FinalizeSession
                  /\ flight' = [flight EXCEPT ![t] =
                        [at |-> "answered", token |-> flight[t].token, answer |-> issued + 1]]
               \/ flight' = [flight EXCEPT ![t].at = "answered"]
                  /\ (FinalizeSession \/ UNCHANGED binding)
       ELSE /\ flight' = [flight EXCEPT ![t].at = "answered"]
            /\ UNCHANGED workosVars
    /\ UNCHANGED <<session, away, defaultOrg, age, fetching>>

\* After a refused call a failed refresh signs out, after a server error not.
\* The calls of the tab that wait go on with the answer.
AfterRefresh(call, ok) ==
    IF call.at = "early" THEN [call EXCEPT !.at = "send"]
    ELSE IF ok THEN [call EXCEPT !.at = "resend"] ELSE NoFetch

Waiting(t) == {c \in ApiCalls : t \in fetching[c].tab /\ fetching[c].at \in {"early", "late"}}
GivesUp(t) == \E c \in Waiting(t) : fetching[c].at = "late" /\ fetching[c].status = 401

EndRefresh(t) ==
    LET ok == flight[t].answer # 0
    IN  /\ flight[t].at = "answered"
        /\ SetAuthSession(IF ok THEN flight[t].answer ELSE IF GivesUp(t) THEN 0 ELSE session)
        /\ fetching' = [c \in ApiCalls |-> IF c \in Waiting(t) THEN AfterRefresh(fetching[c], ok) ELSE fetching[c]]
        /\ flight' = [flight EXCEPT ![t] = NoFlight]
        /\ UNCHANGED <<away, defaultOrg, workosVars, age>>
-----------------------------------------------------------------------------
(***************************************************************************)
(* apiFetch.                                                               *)
(***************************************************************************)
\* AppShell shows no workspace page, and so makes no call, without a session.
BeginCall(c, t) ==
    LET early == age[session] # "fresh"
    IN  /\ fetching[c].at = "idle" /\ session # 0
        /\ fetching' = [fetching EXCEPT ![c] =
              [at |-> IF early /\ flight[t] # Stuck THEN "early" ELSE "send",
               tab |-> {t}, token |-> 0, status |-> 0]]
        /\ IF early THEN AskRefresh(t) ELSE UNCHANGED flight
        /\ UNCHANGED <<session, away, defaultOrg, workosVars, age>>

\* getAuthHeaders reads the store when the request is made.
TokenOfFirst(c) == IF fetching[c].at = "send" THEN session ELSE fetching[c].token
TokenStored(c) == session

SendCall(c) ==
    /\ fetching[c].at \in {"send", "resend"}
    /\ fetching' = [fetching EXCEPT ![c].token = TokenStored(c),
          ![c].at = IF @ = "send" THEN "sent" ELSE "resent"]
    /\ UNCHANGED <<session, away, defaultOrg, workosVars, age, flight>>

\* The backend verifies the access token and looks for the organization: in
\* the token, in the user's row, or the default.
VerifyAccessToken(k) == k # 0 /\ age[k] # "expired"
ResolveOrganization == defaultOrg
Accepted(k) == VerifyAccessToken(k) /\ ResolveOrganization

\* The first answer.  A 401, or a 500, asks for a refresh.
Refused(c, t, status) ==
    /\ fetching[c].at = "sent" /\ fetching[c].tab = {t}
    /\ status = 401 => ~Accepted(fetching[c].token)
    /\ AskRefresh(t)
    /\ IF Asked(t) = Stuck
       THEN /\ fetching' = [fetching EXCEPT ![c] = NoFetch]
            /\ session' = IF status = 401 THEN 0 ELSE session
       ELSE /\ fetching' = [fetching EXCEPT ![c] =
                 [at |-> "late", tab |-> {t}, token |-> fetching[c].token, status |-> status]]
            /\ UNCHANGED session
    /\ UNCHANGED <<away, defaultOrg, workosVars, age>>

Answered(c) ==
    /\ fetching[c].at \in {"sent", "resent"} /\ Accepted(fetching[c].token)
    /\ fetching' = [fetching EXCEPT ![c] = NoFetch]
    /\ UNCHANGED <<session, away, defaultOrg, workosVars, age, flight>>

\* The second answer is final; a 401 clears whatever session is stored.
RefusedAgain(c, status) ==
    /\ fetching[c].at = "resent"
    /\ status = 401 => ~Accepted(fetching[c].token)
    /\ session' = IF status = 401 THEN 0 ELSE session
    /\ fetching' = [fetching EXCEPT ![c] = NoFetch]
    /\ UNCHANGED <<away, defaultOrg, workosVars, age, flight>>

AuthNext ==
    \/ \E n \in Pair : Expire(n) \/ Bind(n)
    \/ PasswordSignIn \/ SignOut
    \/ \E t \in Tabs :
        \/ GoToGoogle(t) \/ Callback(t) \/ Reload(t)
        \/ BackendRefresh(t) \/ EndRefresh(t)
    \/ \E c \in ApiCalls, t \in Tabs :
        BeginCall(c, t) \/ \E status \in {401, 500} : Refused(c, t, status)
    \/ \E c \in ApiCalls :
        \/ SendCall(c) \/ Answered(c)
        \/ \E status \in {401, 500} : RefusedAgain(c, status)

AuthSpec == AuthInit /\ [][AuthNext]_authVars
-----------------------------------------------------------------------------
\* A token the backend refused is not presented again by the call's second
\* try, although other calls and other tabs renew, drop and replace the
\* session meanwhile (web/lib/api.ts:121).
RetryCarriesNewToken ==
    [][\A c \in ApiCalls :
         fetching[c].at = "resend" /\ fetching'[c].at = "resent"
           /\ fetching[c].status = 401 /\ fetching[c].token # 0
           => fetching'[c].token # fetching[c].token]_authVars
=============================================================================
