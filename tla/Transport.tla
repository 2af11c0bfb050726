----------------------------- MODULE Transport -----------------------------
(* The one transport of the web client (web/lib/api/client.ts) over the     *)
(* browser's OIDC state (web/lib/auth.ts): the interceptor that attaches    *)
(* the access token, and the one that renews the session once when a        *)
(* request comes back Unauthenticated.  Many requests run at the same time; *)
(* the module's variables `renewing` and `lastRenewMs` are shared by them.  *)
(*                                                                          *)
(* A token is the number of its issue.  The identity provider and the API   *)
(* are modelled by what the client sees of them: a silent renewal yields a  *)
(* new token or fails, and the API accepts a token or does not.             *)
EXTENDS Integers

CONSTANTS
    Requests,   \* the requests the client has in flight at the same time
    MaxTokens,  \* bound: tokens the identity provider issues
    MaxMishaps  \* bound: answers lost, renewals timed out, tokens and sessions ended

ASSUME TransportAssumption == MaxTokens \in Nat \ {0} /\ MaxMishaps \in Nat

VARIABLES
    user,      \* the stored OIDC user: its access token (0: none), expired
    minted,    \* the last token the provider issued
    live,      \* the tokens the API accepts
    provider,  \* the user's session at the identity provider is alive
    renewing,  \* a silent renewal is in flight
    cooling,   \* Date.now() - lastRenewMs < renewCooldownMs
    req,       \* per request, where it is and what it carries
    mishaps

oidc == <<user, minted, live, provider>>
renewal == <<renewing, cooling>>
tvars == <<oidc, renewal, req, mishaps>>

Tokens == 1..MaxTokens

Codes == {"none", "ok", "refused", "unauthenticated", "unavailable"}

Users == [token: 0..MaxTokens, expired: BOOLEAN]

RequestStates ==
    [at: {"idle", "ready", "sent", "answered", "waiting", "settled"},
     token: 0..MaxTokens,     \* the token of the last send
     rejected: 0..MaxTokens,  \* the token of the send before it
     tries: 0..2, code: Codes]

NoUser == [token |-> 0, expired |-> FALSE]

Idle == [at |-> "idle", token |-> 0, rejected |-> 0, tries |-> 0, code |-> "none"]

Ready == [Idle EXCEPT !.at = "ready"]

\* accessToken: null when signed out or expired.
accessToken == IF user.expired THEN 0 ELSE user.token

TransportInit ==
    /\ user = NoUser /\ minted = 0 /\ live = {} /\ provider = FALSE
    /\ renewing = FALSE /\ cooling = FALSE
    /\ req = [r \in Requests |-> Idle]
    /\ mishaps \in 0..MaxMishaps

-----------------------------------------------------------------------------
(* A request.                                                               *)

Mishap == mishaps < MaxMishaps /\ mishaps' = mishaps + 1

Settle(q, c) == [q EXCEPT !.at = "settled", !.code = c]

\* A call site issues r: it enters the interceptor chain.
Issue(r) == req' = [req EXCEPT ![r] = Ready] /\ UNCHANGED <<oidc, renewal, mishaps>>

\* auth: attach the token there is now, and send.
auth(r) ==
    /\ req[r].at = "ready"
    /\ req' = [req EXCEPT ![r].at = "sent",
                          ![r].rejected = req[r].token,
                          ![r].token = accessToken,
                          ![r].tries = @ + 1]
    /\ UNCHANGED <<oidc, renewal, mishaps>>

\* The API answers: c is what the handler says once the caller is known.
Serve(r, c) ==
    /\ req[r].at = "sent"
    /\ req' = [req EXCEPT ![r].at = "answered",
                          ![r].code = IF req[r].token \in live THEN c ELSE "unauthenticated"]
    /\ UNCHANGED <<oidc, renewal, mishaps>>

\* The network, a server that is down, or a provider not discovered yet.
ServeFails(r) ==
    /\ req[r].at = "sent" /\ Mishap
    /\ req' = [req EXCEPT ![r].at = "answered", ![r].code = "unavailable"]
    /\ UNCHANGED <<oidc, renewal>>

\* renewOnce meets the first Unauthenticated of r, and calls renewSession: the
\* cooldown is tested before a renewal in flight is joined.
renewSession(r) ==
    /\ req[r].at = "answered" /\ req[r].code = "unauthenticated" /\ req[r].tries = 1
    /\ IF cooling
       THEN req' = [req EXCEPT ![r] = Settle(@, "unauthenticated")] /\ UNCHANGED renewing
       ELSE req' = [req EXCEPT ![r].at = "waiting"] /\ renewing' = TRUE
    /\ UNCHANGED <<oidc, cooling, mishaps>>

\* renewOnce hands any other answer, and the answer of a retry, to the caller.
renewOnce(r) ==
    /\ req[r].at = "answered"
    /\ req[r].code # "unauthenticated" \/ req[r].tries = 2
    /\ req' = [req EXCEPT ![r].at = "settled"]
    /\ UNCHANGED <<oidc, renewal, mishaps>>

-----------------------------------------------------------------------------
(* The renewal in flight settles: the finally clause, then every waiter.    *)

\* One callback kept in place of the promise: only one waiter hears of it.
WakesOne(w) ==
    LET waiting == {r \in Requests : req[r].at = "waiting"}
    IN  IF waiting = {} THEN UNCHANGED req
        ELSE \E one \in waiting : req' = [req EXCEPT ![one] = w[one]]

\* Every waiter goes on, as w says.
Wake(w) == req' = [r \in Requests |-> IF req[r].at = "waiting" THEN w[r] ELSE req[r]]

\* The finally clause, whatever the outcome.
Finally == renewing' = FALSE /\ cooling' = TRUE

\* A new token, which the API accepts unless its audience is misconfigured.
NewUser(accepted) ==
    /\ provider /\ minted < MaxTokens
    /\ minted' = minted + 1
    /\ user' = [token |-> minted + 1, expired |-> FALSE]
    /\ live' = IF accepted THEN live \cup {minted + 1} ELSE live
    /\ UNCHANGED provider

Renewed ==
    /\ renewing
    /\ \E accepted \in BOOLEAN : NewUser(accepted)
    /\ Wake([r \in Requests |-> [req[r] EXCEPT !.at = "ready"]])
    /\ Finally
    /\ UNCHANGED mishaps

\* No session to renew, a timed-out iframe, or a provider that issues no more.
RenewFailed ==
    /\ renewing
    /\ \/ (~provider \/ minted = MaxTokens) /\ UNCHANGED mishaps
       \/ Mishap
    /\ Wake([r \in Requests |-> Settle(req[r], "unauthenticated")])
    /\ Finally
    /\ UNCHANGED oidc

CooldownOver ==
    /\ cooling /\ cooling' = FALSE
    /\ UNCHANGED <<oidc, renewing, req, mishaps>>

-----------------------------------------------------------------------------
(* oidc-client-ts, the provider and the API, beside the requests.           *)

\* automaticSilentRenew: the library renews a stored token by itself.
BackgroundRenew ==
    /\ user.token # 0 /\ NewUser(TRUE)
    /\ UNCHANGED <<renewal, req, mishaps>>

\* The token expires or is revoked: the API, the browser and the provider
\* notice it apart, their clocks and policies are their own.
TokenRejected ==
    /\ live # {} /\ live' = {} /\ Mishap
    /\ UNCHANGED <<user, minted, provider, renewal, req>>

ClientExpiry ==
    /\ user.token # 0 /\ ~user.expired /\ Mishap
    /\ user' = [user EXCEPT !.expired = TRUE]
    /\ UNCHANGED <<minted, live, provider, renewal, req>>

ProviderEnds ==
    /\ provider /\ provider' = FALSE /\ Mishap
    /\ UNCHANGED <<user, minted, live, renewal, req>>

\* A page that leaves the screen aborts the requests of its queries.
Abort(S) ==
    /\ req' = [r \in Requests |-> IF r \in S THEN Idle ELSE req[r]]
    /\ UNCHANGED <<renewal, mishaps>>

RemoveUser(S) == Abort(S) /\ user' = NoUser /\ UNCHANGED <<minted, live, provider>>

\* A page load: the client's variables start over, the stored user stays.
Load ==
    /\ renewing' = FALSE /\ cooling' = FALSE
    /\ req' = [r \in Requests |-> Idle]
    /\ UNCHANGED mishaps

\* A signoutRedirect that fails may have removed the user before it loads "/".
Reload == Load /\ user' \in {user, NoUser} /\ UNCHANGED <<minted, live, provider>>

\* The user signs in at the provider; the callback page stores the user and
\* loads the app.
SignInAtProvider ==
    /\ minted < MaxTokens /\ minted' = minted + 1
    /\ user' = [token |-> minted + 1, expired |-> FALSE]
    /\ live' = live \cup {minted + 1}
    /\ provider' = TRUE
    /\ Load

SignInFails == Mishap /\ UNCHANGED <<oidc, renewal, req>>

SignOutAtProvider ==
    /\ user' = NoUser /\ provider' = FALSE /\ live' = {}
    /\ Load
    /\ UNCHANGED minted

Answers == {"ok", "refused"}

TransportNext ==
    \/ \E r \in Requests : \/ Issue(r) \/ auth(r) \/ ServeFails(r)
                           \/ \E c \in Answers : Serve(r, c)
                           \/ renewSession(r) \/ renewOnce(r)
    \/ Renewed \/ RenewFailed \/ CooldownOver \/ BackgroundRenew
    \/ TokenRejected \/ ClientExpiry \/ ProviderEnds
    \/ \E S \in SUBSET Requests : RemoveUser(S) \/ (Abort(S) /\ UNCHANGED oidc)
    \/ Reload \/ SignInAtProvider \/ SignInFails \/ SignOutAtProvider

TransportSpec == TransportInit /\ [][TransportNext]_tvars

-----------------------------------------------------------------------------
TransportTypeOK ==
    /\ user \in Users /\ minted \in 0..MaxTokens
    /\ live \in SUBSET Tokens /\ provider \in BOOLEAN
    /\ renewing \in BOOLEAN /\ cooling \in BOOLEAN
    /\ req \in [Requests -> RequestStates]
    /\ mishaps \in 0..MaxMishaps

\* renewSession is single-flight and shared: whoever awaits a renewal has one
\* in flight to await, so that no waiter is left behind when the renewal it
\* joined settles.
NoWaiterLeftBehind == \A r \in Requests : req[r].at = "waiting" => renewing

\* "The retry re-runs `auth` with the fresh token": whatever renewed, expired
\* or removed the user in between, a retry never carries the token that was
\* just rejected, nor an older one.
RetryIsFresh ==
    \A r \in Requests : req[r].tries = 2 => req[r].token = 0 \/ req[r].token > req[r].rejected

\* The strengthening that makes the two inductive: a request about to be sent
\* again finds no user, or one newer than the token it was rejected with.
Tried(q) ==
    /\ q.at = "idle" => q.tries = 0
    /\ q.at = "ready" => q.tries \in {0, 1}
    /\ q.at = "waiting" => q.tries = 1
    /\ q.at \in {"sent", "answered", "settled"} => q.tries \in {1, 2}

RetryWillBeFresh ==
    /\ user.token <= minted
    /\ \A r \in Requests :
          /\ Tried(req[r])
          /\ req[r].token <= minted
          /\ req[r].tries = 1 /\ req[r].at = "ready"
                => user.token = 0 \/ user.token > req[r].token

TransportInv == TransportTypeOK /\ NoWaiterLeftBehind /\ RetryIsFresh /\ RetryWillBeFresh

=============================================================================
