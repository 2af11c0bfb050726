--------------------------- MODULE SessionProofs ---------------------------
(* What renewing on a 401 guarantees for any number of requests at the same *)
(* time, any number of tokens and any number of mishaps; and what the       *)
(* session and its gates, which send those requests, guarantee for every    *)
(* set of use cases and regions and any number of retries and visits.       *)
EXTENDS Session, TLAPS

-----------------------------------------------------------------------------
(* The transport.                                                           *)

(* What an action leaves of one request: its type, and its place in the     *)
(* order of the interceptors.                                               *)
Sound(x) ==
    /\ x \in RequestStates
    /\ Tried(x)
    /\ x.token <= minted
    /\ x.tries = 2 => x.token = 0 \/ x.token > x.rejected
    /\ x.tries = 1 /\ x.at = "ready" => user.token = 0 \/ user.token > x.token

(* The variables that are not the requests.                                 *)
Scalars ==
    /\ user \in Users /\ minted \in 0..MaxTokens /\ live \in SUBSET Tokens
    /\ provider \in BOOLEAN /\ renewing \in BOOLEAN /\ cooling \in BOOLEAN
    /\ mishaps \in 0..MaxMishaps
    /\ user.token <= minted

Waits(x) == x.at = "waiting"

(* The invariant, request by request.                                       *)
ByRequest ==
    /\ Scalars
    /\ req \in [Requests -> RequestStates]
    /\ \A r \in Requests : Sound(req[r]) /\ (Waits(req[r]) => renewing)

(* That is the invariant of the transport.                                  *)
LEMMA InvByRequest == TransportInv <=> ByRequest
BY DEF TransportInv, TransportTypeOK, NoWaiterLeftBehind, RetryIsFresh, RetryWillBeFresh,
       Sound, ByRequest, Scalars, Waits

(* A request that is not under way is sound whoever is signed in.           *)
LEMMA RestingSound ==
    ASSUME minted \in Nat
    PROVE  /\ Sound(Idle) /\ ~Waits(Idle) /\ Idle \in RequestStates
           /\ Sound(Ready) /\ ~Waits(Ready) /\ Ready \in RequestStates
BY TransportAssumption DEF Sound, Idle, Ready, RequestStates, Codes, Tried, Waits

(* The first page load.                                                     *)
LEMMA TransportInitInv == TransportInit => ByRequest
<1> SUFFICES ASSUME TransportInit PROVE ByRequest
  OBVIOUS
<1>0. NoUser \in Users /\ NoUser.token = 0
  BY TransportAssumption DEF NoUser, Users
<1>1. Scalars
  <2>1. provider \in BOOLEAN /\ renewing \in BOOLEAN /\ cooling \in BOOLEAN
    BY Zenon DEF TransportInit
  <2>2. /\ user \in Users /\ minted \in 0..MaxTokens /\ live \in SUBSET Tokens
        /\ mishaps \in 0..MaxMishaps /\ user.token <= minted
    BY <1>0, TransportAssumption DEF TransportInit
  <2> QED
    BY <2>1, <2>2 DEF Scalars
<1>2. Sound(Idle) /\ ~Waits(Idle) /\ Idle \in RequestStates
  BY <1>1, RestingSound DEF Scalars
<1> QED
  BY <1>1, <1>2 DEF TransportInit, ByRequest

(* A step of one request, the user and the tokens staying as they are.      *)
LEMMA OneRequest ==
    ASSUME ByRequest, NEW r \in Requests, NEW x,
           req' = [req EXCEPT ![r] = x], Sound(x),
           Waits(x) => renewing', renewing => renewing',
           UNCHANGED <<user, minted>>, Scalars'
    PROVE  ByRequest'
<1>1. x \in RequestStates
  BY DEF Sound
<1>2. req' \in [Requests -> RequestStates]
  BY <1>1 DEF ByRequest
<1>3. \A s \in Requests : req'[s] = IF s = r THEN x ELSE req[s]
  BY DEF ByRequest
<1>4. \A s \in Requests : Sound(req[s])' /\ (Waits(req[s])' => renewing')
  BY <1>3 DEF ByRequest, Sound, Waits
<1> QED
  BY <1>2, <1>4 DEF ByRequest

(* A step that leaves each request alone or puts it to rest.                *)
LEMMA Resting ==
    ASSUME ByRequest, Scalars', NEW S \in SUBSET Requests,
           req' = [r \in Requests |-> IF r \in S THEN Idle ELSE req[r]],
           S = Requests \/ (renewing' = renewing /\ minted' = minted /\ user' \in {user, NoUser})
    PROVE  ByRequest'
<1>1. minted' \in Nat /\ minted \in Nat
  BY TransportAssumption DEF Scalars, ByRequest
<1>2. Sound(Idle)' /\ ~Waits(Idle) /\ Idle \in RequestStates
  BY <1>1, TransportAssumption DEF Sound, Idle, RequestStates, Codes, Tried, Waits
<1>3. req' \in [Requests -> RequestStates]
  BY <1>2 DEF ByRequest
<1>4. ASSUME NEW r \in Requests PROVE Sound(req[r])' /\ (Waits(req[r])' => renewing')
  <2>1. CASE r \in S
    BY <1>2, <2>1 DEF Sound, Waits, Idle
  <2>2. CASE r \notin S
    BY <2>2 DEF ByRequest, Sound, Waits, NoUser
  <2> QED
    BY <2>1, <2>2
<1> QED
  BY <1>3, <1>4 DEF ByRequest

(* Every action of a request keeps the invariant.                           *)
LEMMA RequestSteps ==
    ASSUME ByRequest, NEW r \in Requests,
           \/ Issue(r) \/ auth(r) \/ ServeFails(r) \/ (\E c \in Answers : Serve(r, c))
           \/ renewSession(r) \/ renewOnce(r)
    PROVE  ByRequest'
<1> USE TransportAssumption
<1>0. Sound(req[r]) /\ Scalars /\ req \in [Requests -> RequestStates]
  BY DEF ByRequest
<1>1. CASE Issue(r)
  <2>1. Sound(Ready) /\ ~Waits(Ready)
    BY <1>0, RestingSound DEF Scalars
  <2>2. Scalars' /\ UNCHANGED <<user, minted, renewing>>
    BY <1>0, <1>1 DEF Issue, Scalars, oidc, renewal
  <2> QED
    BY <1>1, <2>1, <2>2, OneRequest, Zenon DEF Issue
<1>2. CASE auth(r)
  <2> DEFINE x == [req[r] EXCEPT !.at = "sent", !.rejected = req[r].token,
                                 !.token = accessToken, !.tries = @ + 1]
  <2>1. req' = [req EXCEPT ![r] = x] /\ req[r].at = "ready"
    BY <1>0, <1>2, Zenon DEF auth
  <2>2. accessToken \in {0, user.token} /\ user.token \in 0..MaxTokens
    BY <1>0 DEF accessToken, Scalars, Users
  <2>3. /\ x \in RequestStates /\ x.at = "sent" /\ x.token = accessToken
        /\ x.rejected = req[r].token /\ x.tries = req[r].tries + 1
    <3>1. req[r] \in RequestStates /\ req[r].tries \in {0, 1} /\ accessToken \in 0..MaxTokens
      BY <1>0, <2>1, <2>2 DEF Sound, Tried
    <3>2. PICK p \in RequestStates, t \in 0..MaxTokens, n \in 0..2 :
              p = req[r] /\ t = accessToken /\ n = req[r].tries + 1
      BY <3>1
    <3>3. x = [p EXCEPT !.at = "sent", !.rejected = p.token, !.token = t, !.tries = n]
      BY <3>2
    <3>4. /\ x \in RequestStates
          /\ x.at = "sent" /\ x.token = t /\ x.rejected = p.token /\ x.tries = n
      <4> HIDE DEF x
      <4> QED BY <3>3, Zenon DEF RequestStates
    <3> QED
      BY <3>2, <3>4
  <2>4. Sound(x) /\ ~Waits(x)
    <3> HIDE DEF x
    <3> QED BY <1>0, <2>1, <2>2, <2>3 DEF Sound, Tried, Waits, Scalars
  <2>5. Scalars' /\ UNCHANGED <<user, minted, renewing>>
    BY <1>0, <1>2 DEF auth, Scalars, oidc, renewal
  <2> HIDE DEF x
  <2> QED
    BY <2>1, <2>4, <2>5, OneRequest, Zenon
<1>3. ASSUME NEW c \in Codes, req[r].at = "sent",
             req' = [req EXCEPT ![r].at = "answered", ![r].code = c],
             UNCHANGED <<user, minted, renewing>>, Scalars'
      PROVE  ByRequest'
  <2> DEFINE x == [req[r] EXCEPT !.at = "answered", !.code = c]
  <2>1. req' = [req EXCEPT ![r] = x]
    BY <1>0, <1>3, Zenon
  <2>2. Sound(x) /\ ~Waits(x)
    BY <1>0, <1>3, Zenon DEF Sound, Tried, RequestStates, Waits
  <2> HIDE DEF x
  <2> QED
    BY <1>3, <2>1, <2>2, OneRequest, Zenon
<1>4. CASE ServeFails(r)
  <2>1. Scalars' /\ UNCHANGED <<user, minted, renewing>>
    BY <1>0, <1>4 DEF ServeFails, Mishap, Scalars, oidc, renewal
  <2> QED
    BY <1>3, <1>4, <2>1 DEF ServeFails, Codes
<1>5. CASE \E c \in Answers : Serve(r, c)
  <2>1. Scalars' /\ UNCHANGED <<user, minted, renewing>>
    BY <1>0, <1>5, Zenon DEF Serve, Scalars, oidc, renewal
  <2>2. PICK c \in Answers : Serve(r, c)
    BY <1>5
  <2> DEFINE d == IF req[r].token \in live THEN c ELSE "unauthenticated"
  <2>3. d \in Codes /\ req[r].at = "sent"
        /\ req' = [req EXCEPT ![r].at = "answered", ![r].code = d]
    BY <2>2 DEF Serve, Codes, Answers
  <2> HIDE DEF d
  <2> QED
    BY <1>3, <2>1, <2>3, Zenon
<1>6. CASE renewSession(r)
  <2> DEFINE x == IF cooling THEN Settle(req[r], "unauthenticated")
                  ELSE [req[r] EXCEPT !.at = "waiting"]
  <2>1. req' = [req EXCEPT ![r] = x]
    BY <1>0, <1>6 DEF renewSession
  <2>2. Sound(x) /\ (Waits(x) => ~cooling)
    BY <1>0, <1>6, Zenon DEF renewSession, Sound, Tried, RequestStates, Settle, Waits, Codes
  <2>3. Scalars' /\ UNCHANGED <<user, minted>> /\ (renewing => renewing') /\ (~cooling => renewing')
    BY <1>0, <1>6, Zenon DEF renewSession, Scalars, oidc
  <2> HIDE DEF x
  <2> QED
    BY <2>1, <2>2, <2>3, OneRequest, Zenon
<1>7. CASE renewOnce(r)
  <2> DEFINE x == [req[r] EXCEPT !.at = "settled"]
  <2>1. req' = [req EXCEPT ![r] = x]
    BY <1>0, <1>7 DEF renewOnce
  <2>2. Sound(x) /\ ~Waits(x)
    BY <1>0, <1>7 DEF renewOnce, Sound, Tried, RequestStates, Waits
  <2>3. Scalars' /\ UNCHANGED <<user, minted, renewing>>
    BY <1>0, <1>7 DEF renewOnce, Scalars, oidc, renewal
  <2> HIDE DEF x
  <2> QED
    BY <2>1, <2>2, <2>3, OneRequest, Zenon
<1> QED
  BY <1>1, <1>2, <1>4, <1>5, <1>6, <1>7

(* The renewal settles: every waiter goes on, and nobody waits any more.    *)
LEMMA RenewalSettles ==
    ASSUME ByRequest, Renewed \/ RenewFailed
    PROVE  ByRequest'
<1> USE TransportAssumption
<1>0. Scalars /\ req \in [Requests -> RequestStates] /\ \A r \in Requests : Sound(req[r])
  BY DEF ByRequest
<1>1. CASE Renewed
  <2>1. PICK accepted \in BOOLEAN : NewUser(accepted)
    BY <1>1 DEF Renewed
  <2>2. /\ minted' = minted + 1 /\ minted' \in 1..MaxTokens /\ minted \in 0..MaxTokens
        /\ user' = [token |-> minted', expired |-> FALSE]
        /\ live' \in SUBSET Tokens
    BY <1>0, <2>1 DEF NewUser, Scalars, Tokens
  <2>3. user' \in Users /\ user.token' = minted'
    BY <2>2 DEF Users
  <2>4. provider' \in BOOLEAN /\ renewing' \in BOOLEAN /\ cooling' \in BOOLEAN
    BY <1>0, <1>1, <2>1, Zenon DEF NewUser, Renewed, Finally, Scalars
  <2>5. Scalars'
    BY <1>0, <1>1, <2>2, <2>3, <2>4 DEF Scalars, Renewed
  <2>6. req' = [r \in Requests |-> IF req[r].at = "waiting" THEN [req[r] EXCEPT !.at = "ready"]
                                   ELSE req[r]]
    BY <1>1 DEF Renewed, Wake
  <2>7. ASSUME NEW r \in Requests PROVE Sound(req[r])' /\ ~Waits(req[r])'
    <3>1. PICK x \in RequestStates : x = req[r]
      BY <1>0
    <3>2. req[r]' = IF x.at = "waiting" THEN [x EXCEPT !.at = "ready"] ELSE x
      BY <2>6, <3>1
    <3>3. Sound(x)
      BY <1>0, <3>1
    <3>4. CASE x.at = "waiting"
      <4>1. /\ req[r]' \in RequestStates /\ req[r]'.at = "ready" /\ req[r]'.tries = 1
            /\ req[r]'.token = x.token
        BY <3>2, <3>3, <3>4 DEF RequestStates, Sound, Tried
      <4>2. x.token <= minted /\ x.token \in 0..MaxTokens
        BY <3>3 DEF Sound, RequestStates
      <4> QED
        BY <4>1, <4>2, <2>2, <2>3 DEF Sound, Tried, Waits
    <3>5. CASE x.at # "waiting"
      <4>1. req[r]' = x /\ x.token \in 0..MaxTokens
        BY <3>2, <3>5 DEF RequestStates
      <4> QED
        BY <4>1, <3>3, <3>5, <2>2, <2>3 DEF Sound, Tried, Waits
    <3> QED
      BY <3>4, <3>5
  <2>8. req' \in [Requests -> RequestStates]
    BY <2>6, <2>7 DEF Sound
  <2> QED
    BY <2>5, <2>7, <2>8 DEF ByRequest
<1>2. CASE RenewFailed
  <2>1. Scalars' /\ UNCHANGED <<user, minted>>
    <3>1. renewing' \in BOOLEAN /\ cooling' \in BOOLEAN
      BY <1>2, Zenon DEF RenewFailed, Finally
    <3>2. mishaps' \in 0..MaxMishaps
      BY <1>0, <1>2 DEF RenewFailed, Mishap, Scalars
    <3> QED
      BY <1>0, <1>2, <3>1, <3>2 DEF RenewFailed, Scalars, oidc
  <2>2. req' = [r \in Requests |-> IF req[r].at = "waiting" THEN Settle(req[r], "unauthenticated")
                                   ELSE req[r]]
    BY <1>2 DEF RenewFailed, Wake
  <2>3. ASSUME NEW r \in Requests PROVE Sound(req[r])' /\ ~Waits(req[r])'
    <3>1. PICK x \in RequestStates : x = req[r]
      BY <1>0
    <3>2. req[r]' = IF x.at = "waiting" THEN [x EXCEPT !.at = "settled", !.code = "unauthenticated"]
                    ELSE x
      BY <2>2, <3>1, Zenon DEF Settle
    <3>3. Sound(x)
      BY <1>0, <3>1
    <3> QED
      BY <2>1, <3>2, <3>3, ZenonT(60) DEF Sound, Tried, Waits, RequestStates, Codes
  <2>4. req' \in [Requests -> RequestStates]
    BY <2>2, <2>3 DEF Sound
  <2> QED
    BY <2>1, <2>3, <2>4 DEF ByRequest
<1> QED
  BY <1>1, <1>2

(* A step that leaves every request alone, and the user alone or newer.     *)
LEMMA Untouched ==
    ASSUME ByRequest, Scalars', UNCHANGED <<req, renewing>>, minted' >= minted,
           user.token' = user.token \/ user.token' > minted
    PROVE  ByRequest'
<1> USE TransportAssumption
<1>1. minted \in Nat /\ minted' \in Nat /\ user.token' \in Nat
  BY DEF ByRequest, Scalars, Users
<1>2. ASSUME NEW r \in Requests PROVE Sound(req[r])' /\ (Waits(req[r])' => renewing')
  <2>1. Sound(req[r]) /\ req[r].token \in Nat
    BY DEF ByRequest, Sound, RequestStates
  <2> QED
    BY <1>1, <2>1 DEF ByRequest, Sound, Tried, Waits
<1> QED
  BY <1>2 DEF ByRequest

(* The token's life beside the requests.                                    *)
LEMMA Beside ==
    ASSUME ByRequest,
           \/ CooldownOver \/ BackgroundRenew \/ TokenRejected \/ ClientExpiry
           \/ ProviderEnds \/ SignInFails \/ UNCHANGED tvars
    PROVE  ByRequest'
<1> USE TransportAssumption
<1>0. Scalars
  BY DEF ByRequest
<1>1. CASE BackgroundRenew
  <2>1. /\ minted' = minted + 1 /\ minted' \in 1..MaxTokens /\ minted \in 0..MaxTokens
        /\ user' = [token |-> minted', expired |-> FALSE]
        /\ live' \in SUBSET Tokens
    BY <1>0, <1>1 DEF BackgroundRenew, NewUser, Scalars, Tokens
  <2>2. user' \in Users /\ user.token' = minted'
    BY <2>1 DEF Users
  <2>3. UNCHANGED <<provider, renewing, cooling, req, mishaps>>
    BY <1>1 DEF BackgroundRenew, NewUser, renewal
  <2>4. Scalars'
    BY <1>0, <2>1, <2>2, <2>3 DEF Scalars
  <2> QED
    BY <2>1, <2>2, <2>3, <2>4, Untouched
<1>2. CASE ClientExpiry
  <2>1. user' \in Users /\ user.token' = user.token
    BY <1>0, <1>2, Zenon DEF ClientExpiry, Users, Scalars
  <2>2. UNCHANGED <<minted, live, provider, renewing, cooling, req>> /\ mishaps' \in 0..MaxMishaps
    BY <1>0, <1>2 DEF ClientExpiry, Mishap, renewal, Scalars
  <2>3. Scalars' /\ minted' >= minted
    BY <1>0, <2>1, <2>2 DEF Scalars
  <2> QED
    BY <2>1, <2>2, <2>3, Untouched
<1>3. CASE CooldownOver \/ TokenRejected \/ ProviderEnds \/ SignInFails \/ UNCHANGED tvars
  <2>1. UNCHANGED <<user, minted, renewing, req>> /\ minted' >= minted
    BY <1>0, <1>3 DEF CooldownOver, TokenRejected, ProviderEnds, SignInFails, tvars, oidc,
                      renewal, Scalars
  <2>2. /\ cooling' \in BOOLEAN /\ provider' \in BOOLEAN /\ live' \in SUBSET Tokens
        /\ mishaps' \in 0..MaxMishaps
    <3>1. cooling' \in BOOLEAN
      BY <1>0, <1>3, Zenon DEF CooldownOver, TokenRejected, ProviderEnds, SignInFails, tvars, oidc,
                        renewal, Scalars
    <3>2. provider' \in BOOLEAN
      BY <1>0, <1>3, Zenon DEF CooldownOver, TokenRejected, ProviderEnds, SignInFails, tvars, oidc,
                        renewal, Scalars
    <3>3. live' \in SUBSET Tokens
      BY <1>0, <1>3 DEF CooldownOver, TokenRejected, ProviderEnds, SignInFails, tvars, oidc,
                        renewal, Scalars
    <3>4. mishaps' \in 0..MaxMishaps
      BY <1>0, <1>3 DEF CooldownOver, TokenRejected, ProviderEnds, SignInFails, tvars, oidc,
                        renewal, Scalars, Mishap
    <3> QED
      BY <3>1, <3>2, <3>3, <3>4
  <2>3. Scalars'
    BY <1>0, <2>1, <2>2 DEF Scalars
  <2> QED
    BY <2>1, <2>3, Untouched
<1> QED
  BY <1>1, <1>2, <1>3

(* Requests aborted, and page loads.                                        *)
LEMMA PutToRest ==
    ASSUME ByRequest,
           \/ \E S \in SUBSET Requests : RemoveUser(S) \/ (Abort(S) /\ UNCHANGED oidc)
           \/ Reload \/ SignInAtProvider \/ SignOutAtProvider
    PROVE  ByRequest'
<1> USE TransportAssumption
<1>0. Scalars /\ req \in [Requests -> RequestStates]
  BY DEF ByRequest
<1>1. NoUser \in Users /\ NoUser.token = 0
  BY DEF NoUser, Users
<1>2. ASSUME NEW S \in SUBSET Requests, RemoveUser(S) \/ (Abort(S) /\ UNCHANGED oidc)
      PROVE  ByRequest'
  <2>1. /\ req' = [r \in Requests |-> IF r \in S THEN Idle ELSE req[r]]
        /\ UNCHANGED <<renewing, cooling, mishaps, minted, live, provider>>
        /\ user' \in {user, NoUser}
    BY <1>2 DEF RemoveUser, Abort, oidc, renewal
  <2>2. Scalars'
    BY <1>0, <1>1, <2>1 DEF Scalars
  <2> QED
    BY <2>1, <2>2, Resting
<1>3. CASE Reload \/ SignInAtProvider \/ SignOutAtProvider
  <2>1. /\ req' = [r \in Requests |-> IF r \in Requests THEN Idle ELSE req[r]]
        /\ renewing' = FALSE /\ cooling' = FALSE /\ UNCHANGED mishaps
    BY <1>3 DEF Reload, SignInAtProvider, SignOutAtProvider, Load
  <2>2. /\ user' \in Users /\ minted' \in 0..MaxTokens /\ live' \in SUBSET Tokens
        /\ user.token' <= minted'
    <3>1. CASE Reload
      BY <1>0, <1>1, <3>1 DEF Reload, Scalars
    <3>2. CASE SignInAtProvider
      <4>1. /\ minted' = minted + 1 /\ minted' \in 1..MaxTokens
            /\ user' = [token |-> minted', expired |-> FALSE] /\ live' \in SUBSET Tokens
        BY <1>0, <3>2 DEF SignInAtProvider, Scalars, Tokens
      <4> QED
        BY <4>1 DEF Users
    <3>3. CASE SignOutAtProvider
      BY <1>0, <1>1, <3>3 DEF SignOutAtProvider, Scalars
    <3> QED
      BY <1>3, <3>1, <3>2, <3>3
  <2>3. provider' \in BOOLEAN
    BY <1>0, <1>3, Zenon DEF Reload, SignInAtProvider, SignOutAtProvider, Scalars
  <2>4. Scalars'
    <3>1. renewing' \in BOOLEAN /\ cooling' \in BOOLEAN
      BY <2>1, Zenon
    <3> QED
      BY <1>0, <2>1, <2>2, <2>3, <3>1 DEF Scalars
  <2> QED
    BY <2>1, <2>4, Resting
<1> QED
  BY <1>2, <1>3

(* The invariant of the transport, whatever the requests, the tokens and    *)
(* the mishaps: no request is left waiting for a renewal that is over, and  *)
(* no retry is sent with the token that was rejected (client.ts 12-58).     *)
THEOREM TransportSafe == TransportSpec => []TransportInv
<1>1. TransportInit => TransportInv
  BY TransportInitInv, InvByRequest
<1>2. TransportInv /\ [TransportNext]_tvars => TransportInv'
  <2>1. ByRequest' => TransportInv'
    BY DEF TransportInv, TransportTypeOK, NoWaiterLeftBehind, RetryIsFresh, RetryWillBeFresh,
           Sound, ByRequest, Scalars, Waits
  <2> SUFFICES ASSUME ByRequest, [TransportNext]_tvars PROVE ByRequest'
    BY <2>1, InvByRequest
  <2> QED
    BY RequestSteps, RenewalSettles, Beside, PutToRest DEF TransportNext
<1> QED
  BY <1>1, <1>2, PTL DEF TransportSpec

(* renewSession's promise is shared: whoever awaits a renewal has one in    *)
(* flight (client.ts 26-38).                                                *)
THEOREM WaitersAreServed == TransportSpec => []NoWaiterLeftBehind
<1>1. TransportInv => NoWaiterLeftBehind
  BY DEF TransportInv
<1> QED
  BY <1>1, TransportSafe, PTL

(* The retry of renewOnce runs auth again: it never carries the rejected    *)
(* token, nor an older one (client.ts 12-17 and 44-58).                     *)
THEOREM RetriesAreFresh == TransportSpec => []RetryIsFresh
<1>1. TransportInv => RetryIsFresh
  BY DEF TransportInv
<1> QED
  BY <1>1, TransportSafe, PTL

-----------------------------------------------------------------------------
(* The session is a transport.                                              *)

(* The steps that leave the transport alone.                                *)
LEMMA Apart ==
    \/ ColleagueOnboards \/ OrganizationPage \/ UseCasePage \/ RegionPage
    \/ Home \/ CallbackEffect \/ FinishPushes \/ GoesStale
    => UNCHANGED tvars
BY DEF ColleagueOnboards, OrganizationPage, UseCasePage, RegionPage, OptionGrid, toggleUseCase,
       OnboardingContinue, OnboardingBack, Set, GoTo, Home, CallbackEffect, FinishPushes, GoesStale

(* Every step of the pages is a step of the transport, or leaves it alone.  *)
LEMMA StepImplements == [Next]_vars => [TransportNext]_tvars
<1> SUFFICES ASSUME [Next]_vars PROVE TransportNext \/ UNCHANGED tvars
  OBVIOUS
<1>0. /\ "session" \in Requests /\ "page" \in Requests /\ "complete" \in Requests
      /\ "ok" \in Answers /\ "refused" \in Answers
  BY SessionAssumption DEF Answers
<1>1. \A r \in Requests : Issue(r) => TransportNext
  BY DEF TransportNext
<1>2. \A S \in SUBSET Requests : RemoveUser(S) \/ (Abort(S) /\ UNCHANGED oidc) => TransportNext
  BY DEF TransportNext
<1>3. Reload \/ SignInAtProvider \/ SignInFails \/ SignOutAtProvider => TransportNext
  BY DEF TransportNext
<1>4. \A r \in Requests, c \in Answers : Serve(r, c) => TransportNext
  BY DEF TransportNext
<1>5. StartFetch => TransportNext
  BY <1>0, <1>1 DEF StartFetch
<1>6. CASE TransportStep
  BY <1>0, <1>4, <1>6 DEF TransportStep, TransportNext
<1>7. CASE User
  BY <1>0, <1>1, <1>3, <1>5, <1>7, Apart DEF User, signIn, SignedOut, Visit, Refetch, PageQuery, finish
<1>8. CASE Effects
  BY <1>0, <1>2, <1>3, <1>5, <1>8, Apart DEF Effects, useSession, CallbackDone, AppGate, OnboardingLayout
<1>9. CASE SessionSettles
  BY <1>0, <1>1, <1>2, <1>9 DEF SessionSettles
<1>10. CASE PageSettles
  BY <1>0, <1>2, <1>10 DEF PageSettles
<1>11. CASE Finishing
  BY <1>0, <1>1, <1>11, Apart DEF Finishing, FinishSettles
<1>12. CASE GetSession \/ CompleteOnboarding
  BY <1>0, <1>4, <1>12 DEF GetSession, CompleteOnboarding
<1>13. CASE Exchange
  BY <1>3, <1>13 DEF Exchange
<1>14. CASE UNCHANGED vars
  BY <1>14 DEF vars
<1>15. CASE GoesStale
  BY <1>15, Apart
<1> QED
  BY <1>6, <1>7, <1>8, <1>9, <1>10, <1>11, <1>12, <1>13, <1>14, <1>15 DEF Next

(* The pages that load, leave, sign in and sign out under the transport     *)
(* never make it do what client.ts on its own would not.                    *)
THEOREM SessionImplementsTransport == Spec => ImplementsTransport
<1>1. SessionInit => TransportInit
  BY DEF SessionInit
<1> QED
  BY <1>1, StepImplements, PTL DEF Spec, ImplementsTransport, TransportSpec

(* So a renewal leaves no request of the pages behind, and no retry carries *)
(* the token that was rejected, whichever pages load and leave (client.ts   *)
(* 12-58).                                                                  *)
THEOREM TransportSafeInSession == Spec => []TransportInv
BY SessionImplementsTransport, TransportSafe, PTL DEF ImplementsTransport
-----------------------------------------------------------------------------
(* Types.                                                                   *)

(* The steps of the onboarding, as a set.                                   *)
LEMMA StepsAre ==
    /\ Steps = {"organization", "use-case", "region", "complete"}
    /\ \A p \in {"organization", "use-case", "region"} : nextPath(p) \in Steps
    /\ \A p \in {"use-case", "region"} : prevPath(p) \in Steps
<1>1. Len(ONBOARDING_STEPS) = 4 /\ DOMAIN ONBOARDING_STEPS = 1..4
  BY DEF ONBOARDING_STEPS
<1>2. /\ ONBOARDING_STEPS[1] = "organization" /\ ONBOARDING_STEPS[2] = "use-case"
      /\ ONBOARDING_STEPS[3] = "region" /\ ONBOARDING_STEPS[4] = "complete"
  BY DEF ONBOARDING_STEPS
<1>3. Steps = {ONBOARDING_STEPS[i] : i \in 1..4}
  BY <1>1 DEF Steps
<1>4. stepIndex("organization") = 1 /\ stepIndex("use-case") = 2 /\ stepIndex("region") = 3
  <2>1. \A i \in 1..4 : i \in {1, 2, 3, 4}
    OBVIOUS
  <2>2. \A p : stepIndex(p) = CHOOSE i \in 1..4 : ONBOARDING_STEPS[i] = p
    BY <1>1 DEF stepIndex
  <2>3. \A i \in 1..4 : ONBOARDING_STEPS[i] = "organization" <=> i = 1
    BY <1>2, <2>1
  <2>4. \A i \in 1..4 : ONBOARDING_STEPS[i] = "use-case" <=> i = 2
    BY <1>2, <2>1
  <2>5. \A i \in 1..4 : ONBOARDING_STEPS[i] = "region" <=> i = 3
    BY <1>2, <2>1
  <2> QED BY <2>2, <2>3, <2>4, <2>5
<1>5. Steps = {"organization", "use-case", "region", "complete"}
  <2>1. 1..4 = {1, 2, 3, 4}
    OBVIOUS
  <2> QED BY <1>2, <1>3, <2>1
<1> QED
  BY <1>2, <1>4, <1>5 DEF nextPath, prevPath

(* What the session query becomes in one step.                              *)
QueryNext ==
    {q, NoQuery, Fetched, [Fetched EXCEPT !.stale = TRUE], [q EXCEPT !.stale = TRUE],
     [q EXCEPT !.fetching = FALSE, !.failures = 0], [NoQuery EXCEPT !.data = answer]}

(* The values the query takes are query states.                             *)
LEMMA QueryValues ==
    ASSUME TypeOK
    PROVE  /\ QueryNext \subseteq QueryStates
           /\ q.failures < QueryRetries => [q EXCEPT !.failures = @ + 1] \in QueryStates
           /\ \A e \in {"auth", "transient"} :
                [q EXCEPT !.fetching = FALSE, !.stale = TRUE, !.error = e] \in QueryStates
<1>0. 0 \in 0..QueryRetries /\ QueryRetries \in Nat
  BY SessionAssumption
<1>1. /\ q \in QueryStates /\ answer \in {"none", "new", "onboarded"}
      /\ 0 \in 0..QueryRetries /\ QueryRetries \in Nat
  BY <1>0, Zenon DEF TypeOK
<1>2. NoQuery \in QueryStates /\ [NoQuery EXCEPT !.data = answer] \in QueryStates
  BY <1>1, Zenon DEF NoQuery, QueryStates
<1>3. Fetched \in QueryStates /\ [Fetched EXCEPT !.stale = TRUE] \in QueryStates
  <2>1. PICK e \in {"none", "auth", "transient"} : e = IF q.data = "none" THEN "none" ELSE q.error
    BY <1>1 DEF QueryStates
  <2>2. Fetched = [q EXCEPT !.fetching = TRUE, !.failures = 0, !.error = e]
    BY <2>1 DEF Fetched
  <2> QED BY <1>1, <2>2, Zenon DEF QueryStates
<1>4. [q EXCEPT !.stale = TRUE] \in QueryStates /\ [q EXCEPT !.fetching = FALSE, !.failures = 0] \in QueryStates
  BY <1>1, Zenon DEF QueryStates
<1>5. q.failures < QueryRetries => [q EXCEPT !.failures = @ + 1] \in QueryStates
  BY <1>1 DEF QueryStates
<1>6. \A e \in {"auth", "transient"} :
        [q EXCEPT !.fetching = FALSE, !.stale = TRUE, !.error = e] \in QueryStates
  BY <1>1, Zenon DEF QueryStates
<1> QED BY <1>1, <1>2, <1>3, <1>4, <1>5, <1>6 DEF QueryNext

(* Every step of Next, by name.                                             *)
Edits == OrganizationPage \/ UseCasePage \/ RegionPage

Reloads == signIn \/ SignedOut \/ Visit \/ CallbackDone

(* Every step of the client, the server or the provider is one of these.    *)
LEMMA EveryStep ==
    ASSUME [Next]_vars
    PROVE  \/ UNCHANGED svars
           \/ Edits \/ Reloads \/ ColleagueOnboards \/ CallbackEffect \/ Exchange
           \/ Refetch \/ useSession \/ SessionSettles \/ GoesStale \/ GetSession
           \/ Home \/ AppGate \/ OnboardingLayout
           \/ finish \/ CompleteOnboarding \/ FinishSettles \/ FinishPushes
BY DEF Next, vars, TransportStep, User, Effects, Finishing, Edits, Reloads, PageQuery, PageSettles

(* The onboarding pages change the answers, or the step shown.              *)
LEMMA EditsAre ==
    ASSUME TypeOK, Edits
    PROVE  /\ UNCHANGED <<tvars, checked, callback, mounted, q, answer, payload, finishing, told, tenant, visits>>
           /\ LayoutShown /\ path' \in Steps /\ form' \in Forms
<1>1. path \in Steps /\ LayoutShown
  BY Zenon DEF Edits, OrganizationPage, UseCasePage, RegionPage, LayoutShown
<1>2. form \in Forms /\ Unset \notin Regions
  BY SessionAssumption DEF TypeOK
<1>3. \A f : Set(f) => /\ UNCHANGED <<tvars, checked, callback, mounted, q, answer, payload, finishing, told, tenant, visits>>
                       /\ path' = path /\ form' = f
  BY DEF Set, page
<1>4. \A p : GoTo(p) => /\ UNCHANGED <<tvars, checked, callback, mounted, q, answer, payload, finishing, told, tenant, visits>>
                        /\ path' = p /\ form' = form
  BY DEF GoTo, onboarding
<1>5. OrganizationPage => (\E f \in Forms : Set(f)) \/ (\E p \in Steps : GoTo(p))
  <2> SUFFICES ASSUME OrganizationPage PROVE (\E f \in Forms : Set(f)) \/ (\E p \in Steps : GoTo(p))
    OBVIOUS
  <2>1. \A b \in BOOLEAN : [form EXCEPT !.name = b] \in Forms
    BY <1>2 DEF Forms
  <2>2. path = "organization" /\ nextPath(path) \in Steps
    BY StepsAre DEF OrganizationPage
  <2>3. (\E b \in BOOLEAN : Set([form EXCEPT !.name = b])) \/ GoTo(nextPath(path))
    BY Zenon DEF OrganizationPage, OnboardingContinue
  <2> QED BY <2>1, <2>2, <2>3, Zenon
<1>6. UseCasePage => (\E f \in Forms : Set(f)) \/ (\E p \in Steps : GoTo(p))
  <2> SUFFICES ASSUME UseCasePage PROVE (\E f \in Forms : Set(f)) \/ (\E p \in Steps : GoTo(p))
    OBVIOUS
  <2>1. \A b \in BOOLEAN : [form EXCEPT !.other = b] \in Forms
    BY <1>2 DEF Forms
  <2>2. \A id \in UseCases :
          [form EXCEPT !.cases = IF id \in @ THEN @ \ {id} ELSE @ \cup {id}] \in Forms
    BY <1>2 DEF Forms
  <2>3. path = "use-case" /\ nextPath(path) \in Steps /\ prevPath(path) \in Steps
    BY StepsAre DEF UseCasePage
  <2>4. \/ \E id \in UseCases :
              Set([form EXCEPT !.cases = IF id \in @ THEN @ \ {id} ELSE @ \cup {id}])
        \/ \E other \in BOOLEAN : Set([form EXCEPT !.other = other])
        \/ GoTo(nextPath(path)) \/ GoTo(prevPath(path))
    BY Zenon DEF UseCasePage, OnboardingContinue, OnboardingBack, toggleUseCase
  <2> QED BY <2>1, <2>2, <2>3, <2>4, Zenon
<1>7. RegionPage => (\E f \in Forms : Set(f)) \/ (\E p \in Steps : GoTo(p))
  <2> SUFFICES ASSUME RegionPage PROVE (\E f \in Forms : Set(f)) \/ (\E p \in Steps : GoTo(p))
    OBVIOUS
  <2>1. \A r \in Regions : [form EXCEPT !.region = r] \in Forms
    BY <1>2 DEF Forms
  <2>2. path = "region" /\ nextPath(path) \in Steps /\ prevPath(path) \in Steps
    BY StepsAre DEF RegionPage
  <2>3. \/ \E r \in Regions : Set([form EXCEPT !.region = r])
        \/ GoTo(nextPath(path)) \/ GoTo(prevPath(path))
    BY Zenon DEF RegionPage, OptionGrid, OnboardingContinue, OnboardingBack
  <2> QED BY <2>1, <2>2, <2>3, Zenon
<1>8. (\E f \in Forms : Set(f)) \/ (\E p \in Steps : GoTo(p))
  BY <1>5, <1>6, <1>7, Zenon DEF Edits
<1> QED BY <1>1, <1>2, <1>3, <1>4, <1>8, Zenon

(* A page load starts the client over.                                      *)
LEMMA ReloadsAre ==
    ASSUME TypeOK, Reloads
    PROVE  /\ path' \in Gated \cup {"/", "/callback"} /\ mounted' = FALSE /\ checked' = FALSE
           /\ q' = NoQuery /\ answer' = "none"
           /\ form' = initial /\ payload' = initial /\ finishing' = "idle" /\ told' = FALSE
           /\ tenant' = tenant /\ (visits' = visits \/ (visits < MaxVisits /\ visits' = visits + 1))
           /\ req' = [r \in Requests |-> Idle]
<1>1. PICK p \in Gated \cup {"/", "/callback"} : Loads(p)
  BY Zenon DEF Reloads, signIn, SignedOut, Visit, CallbackDone
<1>2. req' = [r \in Requests |-> Idle]
  BY Zenon DEF Reloads, signIn, SignedOut, Visit, CallbackDone, Reload, SignOutAtProvider, Load
<1>3. visits' = visits \/ (visits < MaxVisits /\ visits' = visits + 1)
  BY Zenon DEF Reloads, signIn, SignedOut, Visit, CallbackDone
<1> QED BY <1>1, <1>2, <1>3, Zenon DEF Loads

(* The query has a query state after every step.                            *)
LEMMA QueryKept ==
    ASSUME TypeOK, [Next]_vars
    PROVE  q' \in QueryStates /\ answer' \in {"none", "new", "onboarded"}
<1>0. q \in QueryStates /\ answer \in {"none", "new", "onboarded"} /\ QueryNext \subseteq QueryStates
  BY QueryValues, Zenon DEF TypeOK
<1>a. /\ q \in QueryNext /\ NoQuery \in QueryNext /\ Fetched \in QueryNext
      /\ [Fetched EXCEPT !.stale = TRUE] \in QueryNext /\ [q EXCEPT !.stale = TRUE] \in QueryNext
      /\ [q EXCEPT !.fetching = FALSE, !.failures = 0] \in QueryNext
      /\ [NoQuery EXCEPT !.data = answer] \in QueryNext
  BY Zenon DEF QueryNext
<1>1. CASE UNCHANGED svars
  BY <1>0, <1>1, Zenon DEF svars
<1>2. CASE Edits
  BY <1>0, <1>2, EditsAre, Zenon
<1>3. CASE Reloads
  BY <1>0, <1>a, <1>3, ReloadsAre, Zenon
<1>4. CASE ColleagueOnboards \/ CallbackEffect \/ Exchange \/ finish \/ CompleteOnboarding
  BY <1>0, <1>4, Zenon DEF ColleagueOnboards, CallbackEffect, Exchange, finish, CompleteOnboarding
<1>5. CASE Refetch \/ useSession
  BY <1>0, <1>a, <1>5, Zenon DEF Refetch, useSession, StartFetch
<1>6. CASE SessionSettles
  <2>1. answer' = "none"
    BY <1>6, Zenon DEF SessionSettles
  <2>2. \/ q' = [NoQuery EXCEPT !.data = answer]
        \/ q' = [q EXCEPT !.failures = @ + 1] /\ q.failures < QueryRetries
        \/ \E e \in {"auth", "transient"} : q' = [q EXCEPT !.fetching = FALSE, !.stale = TRUE, !.error = e]
    BY <1>6, Zenon DEF SessionSettles, retry
  <2> QED BY <1>0, <1>a, <2>1, <2>2, QueryValues, Zenon
<1>7. CASE GoesStale
  BY <1>0, <1>a, <1>7, Zenon DEF GoesStale
<1>8. CASE GetSession
  BY <1>0, <1>8, Zenon DEF GetSession
<1>9. CASE Home \/ AppGate \/ OnboardingLayout \/ FinishPushes
  BY <1>0, <1>a, <1>9, Zenon DEF Home, AppGate, OnboardingLayout, FinishPushes, Leave
<1>10. CASE FinishSettles
  BY <1>0, <1>a, <1>10, Zenon DEF FinishSettles
<1> QED
  BY <1>1, <1>2, <1>3, <1>4, <1>5, <1>6, <1>7, <1>8, <1>9, <1>10, EveryStep, Zenon

(* The page shown and the flags keep their types.                           *)
LEMMA PageKept ==
    ASSUME TypeOK, [Next]_vars
    PROVE  /\ path' \in Gated \cup {"/", "/callback"} /\ checked' \in BOOLEAN /\ mounted' \in BOOLEAN
           /\ told' \in BOOLEAN /\ finishing' \in {"idle", "sending", "refetching", "failed"}
<1>0. /\ path \in Gated \cup {"/", "/callback"} /\ checked \in BOOLEAN /\ mounted \in BOOLEAN
      /\ told \in BOOLEAN /\ finishing \in {"idle", "sending", "refetching", "failed"}
      /\ Steps \subseteq Gated /\ "/book" \in Gated /\ "organization" \in Gated
  BY StepsAre, Zenon DEF TypeOK, Gated
<1>1. CASE UNCHANGED svars
  BY <1>0, <1>1, Zenon DEF svars, page, onboarding
<1>2. CASE Edits
  BY <1>0, <1>2, EditsAre, Zenon
<1>3. CASE Reloads
  BY <1>0, <1>3, ReloadsAre, Zenon
<1>4. CASE \/ ColleagueOnboards \/ CallbackEffect \/ Exchange \/ CompleteOnboarding
           \/ GoesStale \/ GetSession \/ Refetch \/ SessionSettles
  BY <1>0, <1>4, Zenon DEF ColleagueOnboards, CallbackEffect, Exchange, CompleteOnboarding, GoesStale,
                           GetSession, Refetch, SessionSettles, page, onboarding
<1>5. CASE useSession \/ finish \/ FinishSettles
  BY <1>0, <1>5, Zenon DEF useSession, finish, FinishSettles, page
<1>6. CASE Home \/ AppGate \/ OnboardingLayout
  BY <1>0, <1>6, Zenon DEF Home, AppGate, OnboardingLayout, Leave, onboarding
<1>7. CASE FinishPushes
  <2>1. told' \in BOOLEAN /\ finishing' = "idle"
    BY <1>7, Zenon DEF FinishPushes
  <2> QED BY <1>0, <1>7, <2>1, Zenon DEF FinishPushes, Leave, page
<1> QED
  BY <1>1, <1>2, <1>3, <1>4, <1>5, <1>6, <1>7, EveryStep, Zenon

(* The answers keep their shape, on the page and in flight.                 *)
LEMMA FormKept ==
    ASSUME TypeOK, [Next]_vars
    PROVE  form' \in Forms /\ payload' \in Forms
<1>0. form \in Forms /\ payload \in Forms
  BY Zenon DEF TypeOK
<1>1. initial \in Forms
  BY DEF initial, Forms
<1>2. KeepAnswers => form' \in Forms
  BY <1>0, <1>1, Zenon DEF KeepAnswers
<1>3. CASE UNCHANGED svars
  BY <1>0, <1>3, Zenon DEF svars, onboarding
<1>4. CASE Edits \/ Reloads
  BY <1>0, <1>1, <1>4, EditsAre, ReloadsAre, Zenon
<1>5. CASE \/ ColleagueOnboards \/ CallbackEffect \/ Exchange \/ CompleteOnboarding
           \/ GoesStale \/ GetSession \/ Home \/ AppGate
  BY <1>0, <1>5, Zenon DEF ColleagueOnboards, CallbackEffect, Exchange, CompleteOnboarding, GoesStale,
                           GetSession, Home, AppGate, onboarding
<1>6. CASE Refetch \/ SessionSettles \/ useSession
  BY <1>0, <1>2, <1>6, Zenon DEF Refetch, SessionSettles, useSession
<1>7. CASE FinishSettles \/ FinishPushes \/ OnboardingLayout
  BY <1>0, <1>1, <1>2, <1>7, Zenon DEF FinishSettles, FinishPushes, OnboardingLayout
<1>8. CASE finish
  <2>1. PICK b \in BOOLEAN : b = ("other" \in form.cases /\ form.other)
    BY Zenon
  <2>2. payload' = [form EXCEPT !.other = b] /\ form' = form
    BY <1>8, <2>1, Zenon DEF finish
  <2> QED BY <1>0, <2>2 DEF Forms
<1> QED
  BY <1>3, <1>4, <1>5, <1>6, <1>7, <1>8, EveryStep, Zenon

(* What a step may do to the tenant's row: leave it, or store a set of      *)
(* valid answers.                                                           *)
LEMMA TenantStep ==
    ASSUME TypeOK, [Next]_vars
    PROVE  \/ tenant' = tenant
           \/ \E r \in AllRegions : tenant' = [onboarded |-> TRUE, name |-> TRUE, region |-> r]
<1>1. CASE UNCHANGED svars
  BY <1>1, Zenon DEF svars
<1>2. CASE Edits \/ Reloads
  BY <1>2, EditsAre, ReloadsAre, Zenon
<1>3. CASE ColleagueOnboards
  <2>1. PICK r \in AllRegions : StoreAnswers([initial EXCEPT !.region = r])
    BY <1>3, Zenon DEF ColleagueOnboards
  <2>2. [initial EXCEPT !.region = r].name = TRUE /\ [initial EXCEPT !.region = r].region = r
    BY DEF initial
  <2> QED BY <2>1, <2>2, Zenon DEF StoreAnswers
<1>4. CASE CompleteOnboarding
  <2>1. payload.name \in BOOLEAN /\ payload.region \in Regions \cup {Unset}
    BY DEF TypeOK, Forms
  <2>2. StoreAnswers(payload) \/ UNCHANGED tenant
    BY <1>4, Zenon DEF CompleteOnboarding
  <2>3. ASSUME Valid(payload) PROVE payload.name = TRUE /\ payload.region \in AllRegions
    BY <2>1, <2>3, SessionAssumption, Zenon DEF Valid
  <2>4. ASSUME StoreAnswers(payload)
        PROVE  \/ tenant' = tenant
               \/ Valid(payload) /\ tenant' = [onboarded |-> TRUE, name |-> payload.name, region |-> payload.region]
    BY <2>4, Zenon DEF StoreAnswers
  <2> QED BY <2>2, <2>3, <2>4, Zenon
<1>5. CASE \/ CallbackEffect \/ Exchange \/ Refetch \/ useSession \/ SessionSettles \/ GoesStale
           \/ GetSession \/ Home \/ AppGate \/ OnboardingLayout \/ finish \/ FinishSettles \/ FinishPushes
  BY <1>5, Zenon DEF CallbackEffect, Exchange, Refetch, useSession, SessionSettles, GoesStale,
                     GetSession, Home, AppGate, OnboardingLayout, finish, FinishSettles, FinishPushes
<1> QED BY <1>1, <1>2, <1>3, <1>4, <1>5, EveryStep, Zenon

(* The bound on visits is kept.                                             *)
LEMMA VisitsKept ==
    ASSUME TypeOK, [Next]_vars
    PROVE  visits' \in 0..MaxVisits
<1>1. visits' = visits \/ (visits < MaxVisits /\ visits' = visits + 1)
  <2>1. CASE UNCHANGED svars
    BY <2>1, Zenon DEF svars
  <2>2. CASE Edits \/ Reloads
    BY <2>2, EditsAre, ReloadsAre, Zenon
  <2>3. CASE ColleagueOnboards \/ GoesStale
    BY <2>3, Zenon DEF ColleagueOnboards, GoesStale
  <2>4. CASE \/ CallbackEffect \/ Exchange \/ Refetch \/ useSession \/ SessionSettles \/ CompleteOnboarding
             \/ GetSession \/ Home \/ AppGate \/ OnboardingLayout \/ finish \/ FinishSettles \/ FinishPushes
    BY <2>4, Zenon DEF CallbackEffect, Exchange, Refetch, useSession, SessionSettles, CompleteOnboarding,
                       GetSession, Home, AppGate, OnboardingLayout, finish, FinishSettles, FinishPushes
  <2> QED BY <2>1, <2>2, <2>3, <2>4, EveryStep, Zenon
<1>2. visits \in 0..MaxVisits
  BY Zenon DEF TypeOK
<1>3. MaxVisits \in Nat
  BY SessionAssumption, Zenon
<1> QED BY <1>1, <1>2, <1>3

(* The types hold at the start.                                             *)
LEMMA InitTyped == SessionInit => TypeOK
<1> SUFFICES ASSUME SessionInit PROVE TypeOK
  OBVIOUS
<1>1. TransportTypeOK
  BY TransportInitInv, InvByRequest, Zenon DEF SessionInit, TransportInv
<1>2. QueryRetries \in Nat /\ Regions \subseteq AllRegions
  BY SessionAssumption, Zenon
<1>3. NoQuery \in QueryStates
  BY <1>2 DEF NoQuery, QueryStates
<1>4. initial \in Forms
  BY DEF initial, Forms
<1>5. tenant \in Tenants
  <2>1. PICK on \in BOOLEAN, r \in Regions :
           tenant = [onboarded |-> on, name |-> on, region |-> IF on THEN r ELSE Unset]
    BY Zenon DEF SessionInit
  <2>2. (IF on THEN r ELSE Unset) \in AllRegions \cup {Unset}
    BY <1>2, Zenon
  <2> QED BY <2>1, <2>2, Zenon DEF Tenants
<1> QED BY <1>1, <1>3, <1>4, <1>5, Zenon DEF SessionInit, TypeOK

(* And after every step.                                                    *)
LEMMA TypeKept == TypeOK /\ [Next]_vars /\ TransportTypeOK' => TypeOK'
<1> SUFFICES ASSUME TypeOK, [Next]_vars, TransportTypeOK' PROVE TypeOK'
  OBVIOUS
<1>1. tenant' \in Tenants
  <2>1. \A r \in AllRegions : [onboarded |-> TRUE, name |-> TRUE, region |-> r] \in Tenants
    BY DEF Tenants
  <2>2. tenant \in Tenants
    BY Zenon DEF TypeOK
  <2> QED BY <2>1, <2>2, TenantStep, Zenon
<1> QED BY <1>1, QueryKept, PageKept, FormKept, VisitsKept, Zenon DEF TypeOK

(* Every variable of the session keeps its type: the query is one TanStack  *)
(* Query can be in and gives up after its retries, and what `finish` sends  *)
(* and the server stores are answers the onboarding pages can collect.      *)
THEOREM TypeCorrect == Spec => []TypeOK
<1>1. TransportInv' => TransportTypeOK'
  BY Zenon DEF TransportInv
<1> QED BY <1>1, InitTyped, TypeKept, TransportSafeInSession, PTL DEF Spec

-----------------------------------------------------------------------------
(* Whom the gate lets in, and whom it sends back.                           *)

(* The request r has been answered with success.                            *)
Answered(r) == req[r].at \in {"answered", "settled"} /\ req[r].code = "ok"

(* A tenant that is onboarded has a name and a region, and only such a      *)
(* tenant is ever read as onboarded.                                        *)
Onboarded ==
    /\ tenant.onboarded => tenant.name /\ tenant.region # Unset
    /\ answer = "onboarded" \/ q.data = "onboarded" => tenant.onboarded

(* A completion that succeeded has onboarded the tenant; a fetch it started *)
(* reads that; and until it has, the query knows its answer to be stale.    *)
Completed ==
    /\ finishing = "sending" /\ Answered("complete") => tenant.onboarded
    /\ finishing = "refetching" \/ told => tenant.onboarded
    /\ (finishing = "refetching" \/ told) /\ q.fetching /\ Answered("session") => answer = "onboarded"
    /\ finishing = "refetching" /\ q.data = "new" /\ q.error = "none" => q.stale /\ (q.fetching \/ ~mounted)
    /\ told /\ q.data = "new" => q.error # "none"
    /\ q.fetching => mounted

SInv == TypeOK /\ Onboarded /\ Completed

(* A step of one request that is not an answer of the API makes no success. *)
LEMMA NoSuccess ==
    ASSUME TransportTypeOK, NEW s \in Requests, NEW r \in Requests,
           \/ Issue(r) \/ auth(r) \/ ServeFails(r) \/ renewSession(r) \/ renewOnce(r)
           \/ r # s /\ \E c \in Answers : Serve(r, c)
    PROVE  Answered(s)' => Answered(s)
<1>0. req \in [Requests -> RequestStates] /\ req[s] \in RequestStates /\ req[r] \in RequestStates
  BY DEF TransportTypeOK
<1>1. CASE r # s
  <2>1. \E v : req' = [req EXCEPT ![r] = v]
    BY <1>0, <1>1 DEF Issue, auth, ServeFails, renewSession, renewOnce, Serve
  <2>2. req'[s] = req[s]
    BY <1>0, <1>1, <2>1
  <2> QED BY <2>2, Zenon DEF Answered
<1>2. CASE r = s
  <2>1. CASE Issue(s)
    BY <1>0, <2>1 DEF Issue, Ready, Idle, Answered
  <2>2. CASE auth(s)
    BY <1>0, <2>2 DEF auth, Answered, RequestStates
  <2>3. CASE ServeFails(s)
    BY <1>0, <2>3 DEF ServeFails, Answered, RequestStates
  <2>4. CASE renewSession(s)
    BY <1>0, <2>4, ZenonT(60) DEF renewSession, Settle, Answered, RequestStates
  <2>5. CASE renewOnce(s)
    BY <1>0, <2>5 DEF renewOnce, Answered, RequestStates
  <2> QED BY <1>2, <2>1, <2>2, <2>3, <2>4, <2>5
<1> QED BY <1>1, <1>2

(* Nor does a renewal that settles, a page that goes, or a page load.       *)
LEMMA NoSuccessBeside ==
    ASSUME TransportTypeOK, NEW s \in Requests,
           \/ Renewed \/ RenewFailed \/ Load \/ UNCHANGED req
           \/ \E S \in SUBSET Requests : Abort(S)
    PROVE  Answered(s)' => Answered(s)
<1>0. req \in [Requests -> RequestStates] /\ req[s] \in RequestStates
  BY DEF TransportTypeOK
<1>1. CASE Renewed
  <2>1. req'[s] = IF req[s].at = "waiting" THEN [req[s] EXCEPT !.at = "ready"] ELSE req[s]
    BY <1>1 DEF Renewed, Wake
  <2> QED BY <1>0, <2>1 DEF Answered, RequestStates
<1>2. CASE RenewFailed
  <2>1. req'[s] = IF req[s].at = "waiting" THEN Settle(req[s], "unauthenticated") ELSE req[s]
    BY <1>2 DEF RenewFailed, Wake
  <2> QED BY <1>0, <2>1 DEF Answered, RequestStates, Settle
<1>3. CASE Load
  BY <1>3 DEF Load, Idle, Answered
<1>4. CASE UNCHANGED req
  BY <1>4, Zenon DEF Answered
<1>5. CASE \E S \in SUBSET Requests : Abort(S)
  BY <1>5 DEF Abort, Idle, Answered
<1> QED BY <1>1, <1>2, <1>3, <1>4, <1>5

(* A request just issued has no answer.                                     *)
LEMMA IssuedIsOpen ==
    ASSUME TransportTypeOK, NEW r \in Requests, Issue(r)
    PROVE  ~Answered(r)'
BY DEF TransportTypeOK, Issue, Ready, Idle, Answered

(* Only GetSession succeeds for the session, and only CompleteOnboarding    *)
(* for the completion.                                                      *)
LEMMA News ==
    ASSUME TransportTypeOK, [Next]_vars
    PROVE  /\ Answered("session")' => Answered("session") \/ GetSession
           /\ Answered("complete")' => Answered("complete") \/ CompleteOnboarding
<1>0. /\ "session" \in Requests /\ "page" \in Requests /\ "complete" \in Requests
      /\ {"session"} \in SUBSET Requests /\ {"page"} \in SUBSET Requests
      /\ "session" # "page" /\ "session" # "complete" /\ "page" # "complete"
      /\ "ok" \in Answers /\ "refused" \in Answers
  BY SessionAssumption DEF Answers
<1> DEFINE Same == /\ Answered("session")' => Answered("session")
                   /\ Answered("complete")' => Answered("complete")
<1>1. ASSUME NEW r \in Requests, Issue(r) \/ auth(r) \/ ServeFails(r) \/ renewSession(r) \/ renewOnce(r)
      PROVE  Same
  BY <1>0, <1>1, NoSuccess, Zenon
<1>2. ASSUME Renewed \/ RenewFailed \/ Load \/ UNCHANGED req \/ \E S \in SUBSET Requests : Abort(S)
      PROVE  Same
  BY <1>0, <1>2, NoSuccessBeside, Zenon
<1>3. CASE TransportStep
  <2>1. CASE Serve("page", "ok")
    BY <1>0, <2>1, NoSuccess, Zenon
  <2>2. CASE \E r \in Requests : auth(r) \/ ServeFails(r) \/ renewSession(r) \/ renewOnce(r)
    BY <1>1, <2>2, Zenon
  <2>3. CASE CooldownOver \/ BackgroundRenew \/ TokenRejected \/ ClientExpiry \/ ProviderEnds
    <3>1. UNCHANGED req
      BY <2>3, Zenon DEF CooldownOver, BackgroundRenew, TokenRejected, ClientExpiry, ProviderEnds
    <3> QED BY <1>2, <3>1, Zenon
  <2>4. CASE Renewed \/ RenewFailed
    BY <1>2, <2>4, Zenon
  <2> QED BY <1>3, <2>1, <2>2, <2>3, <2>4, Zenon DEF TransportStep
<1>4. CASE Reloads \/ Exchange
  <2>1. Load \/ UNCHANGED req
    BY <1>4, Zenon DEF Reloads, signIn, SignedOut, Visit, CallbackDone, Exchange, Reload,
                       SignInAtProvider, SignInFails, SignOutAtProvider, tvars
  <2> QED BY <1>2, <2>1, Zenon
<1>5. CASE Edits \/ ColleagueOnboards \/ Home \/ CallbackEffect \/ FinishPushes \/ GoesStale \/ UNCHANGED vars
  <2>1. UNCHANGED tvars
    BY <1>5, Apart, Zenon DEF Edits, vars
  <2> QED BY <1>2, <2>1, Zenon DEF tvars
<1>6. CASE PageQuery \/ finish
  <2>1. Issue("page") \/ Issue("complete")
    BY <1>6, Zenon DEF PageQuery, finish
  <2> QED BY <1>0, <1>1, <2>1, Zenon
<1>7. CASE Refetch \/ useSession \/ FinishSettles
  <2>1. Issue("session") \/ UNCHANGED tvars
    BY <1>7, Zenon DEF Refetch, useSession, FinishSettles, StartFetch
  <2> QED BY <1>0, <1>1, <1>2, <2>1, Zenon DEF tvars
<1>8. CASE SessionSettles \/ PageSettles \/ AppGate \/ OnboardingLayout
  <2>1. Issue("session") \/ Abort({"session"}) \/ Abort({"page"})
    BY <1>8, Zenon DEF SessionSettles, PageSettles, AppGate, OnboardingLayout, RemoveUser
  <2> QED BY <1>0, <1>1, <1>2, <2>1, Zenon
<1>9. CASE GetSession
  <2>1. Serve("session", "ok")
    BY <1>9, Zenon DEF GetSession
  <2> QED BY <1>0, <1>9, <2>1, NoSuccess, Zenon
<1>10. CASE CompleteOnboarding
  <2>1. \E c \in Answers : Serve("complete", c)
    BY <1>0, <1>10, Zenon DEF CompleteOnboarding
  <2> QED BY <1>0, <1>10, <2>1, NoSuccess, Zenon
<1> QED
  BY <1>3, <1>4, <1>5, <1>6, <1>7, <1>8, <1>9, <1>10, Zenon
     DEF Next, User, Effects, Finishing, Edits, Reloads

(* The fields of the query after each thing that may happen to it.          *)
LEMMA QueryFields ==
    ASSUME q \in QueryStates
    PROVE  /\ NoQuery.data = "none" /\ NoQuery.error = "none" /\ NoQuery.fetching = FALSE
           /\ Fetched.data = q.data /\ Fetched.fetching = TRUE /\ Fetched.stale = q.stale
           /\ q.data # "none" => Fetched.error = q.error
           /\ [Fetched EXCEPT !.stale = TRUE].data = q.data
           /\ [Fetched EXCEPT !.stale = TRUE].fetching = TRUE
           /\ [Fetched EXCEPT !.stale = TRUE].stale = TRUE
           /\ q.data # "none" => [Fetched EXCEPT !.stale = TRUE].error = q.error
           /\ [q EXCEPT !.stale = TRUE].data = q.data /\ [q EXCEPT !.stale = TRUE].stale = TRUE
           /\ [q EXCEPT !.stale = TRUE].error = q.error
           /\ [q EXCEPT !.stale = TRUE].fetching = q.fetching
           /\ [q EXCEPT !.fetching = FALSE, !.failures = 0].data = q.data
           /\ [q EXCEPT !.fetching = FALSE, !.failures = 0].error = q.error
           /\ [q EXCEPT !.fetching = FALSE, !.failures = 0].stale = q.stale
           /\ [q EXCEPT !.fetching = FALSE, !.failures = 0].fetching = FALSE
           /\ [NoQuery EXCEPT !.data = answer].data = answer
           /\ [NoQuery EXCEPT !.data = answer].fetching = FALSE
BY DEF QueryStates, Fetched, NoQuery

(* The three ways in which a fetch of the session settles.                  *)
LEMMA SettleFields ==
    ASSUME TypeOK, SessionSettles
    PROVE  /\ q.fetching
           /\ \/ Answered("session") /\ q'.data = answer /\ q'.fetching = FALSE
              \/ /\ q'.data = q.data /\ q'.error = q.error /\ q'.stale = q.stale
                 /\ q'.fetching = q.fetching /\ Issue("session")
              \/ q'.data = q.data /\ q'.error # "none" /\ q'.fetching = FALSE
<1>1. q \in QueryStates
  BY Zenon DEF TypeOK
<1>2. \/ req["session"].code = "ok" /\ q' = [NoQuery EXCEPT !.data = answer]
      \/ q' = [q EXCEPT !.failures = @ + 1] /\ Issue("session")
      \/ \E e \in {"auth", "transient"} : q' = [q EXCEPT !.fetching = FALSE, !.stale = TRUE, !.error = e]
  BY Zenon DEF SessionSettles
<1>3. q.fetching /\ req["session"].at = "settled"
  BY Zenon DEF SessionSettles
<1>4. CASE req["session"].code = "ok" /\ q' = [NoQuery EXCEPT !.data = answer]
  BY <1>1, <1>3, <1>4, QueryFields, Zenon DEF Answered
<1>5. ASSUME q' = [q EXCEPT !.failures = @ + 1]
      PROVE  q'.data = q.data /\ q'.error = q.error /\ q'.stale = q.stale /\ q'.fetching = q.fetching
  BY <1>1, <1>5 DEF QueryStates
<1>6. ASSUME NEW e \in {"auth", "transient"}, q' = [q EXCEPT !.fetching = FALSE, !.stale = TRUE, !.error = e]
      PROVE  q'.data = q.data /\ q'.error # "none" /\ q'.fetching = FALSE
  BY <1>1, <1>6 DEF QueryStates
<1> QED BY <1>2, <1>3, <1>4, <1>5, <1>6, Zenon

(* What the client believes of the tenant comes from the tenant.            *)
LEMMA BeliefStep ==
    ASSUME TypeOK, [Next]_vars
    PROVE  /\ answer' = "onboarded" => answer = "onboarded" \/ tenant.onboarded
           /\ q'.data = "onboarded" => q.data = "onboarded" \/ answer = "onboarded"
           /\ tenant.onboarded => tenant'.onboarded
<1>0. q \in QueryStates
  BY Zenon DEF TypeOK
<1>1. tenant.onboarded => tenant'.onboarded
  <2>1. \A r \in AllRegions : [onboarded |-> TRUE, name |-> TRUE, region |-> r].onboarded = TRUE
    OBVIOUS
  <2> QED BY <2>1, TenantStep, Zenon
<1>2. CASE UNCHANGED svars
  BY <1>1, <1>2, Zenon DEF svars
<1>3. CASE Edits \/ Reloads
  BY <1>0, <1>1, <1>3, EditsAre, ReloadsAre, QueryFields, Zenon
<1>4. CASE ColleagueOnboards \/ CallbackEffect \/ Exchange \/ finish \/ CompleteOnboarding
  BY <1>1, <1>4, Zenon DEF ColleagueOnboards, CallbackEffect, Exchange, finish, CompleteOnboarding
<1>5. CASE Refetch \/ useSession
  BY <1>0, <1>1, <1>5, QueryFields, Zenon DEF Refetch, useSession, StartFetch
<1>6. CASE SessionSettles
  BY <1>1, <1>6, SettleFields, Zenon DEF SessionSettles
<1>7. CASE GoesStale \/ GetSession
  BY <1>0, <1>1, <1>7, QueryFields, ZenonT(60) DEF GoesStale, GetSession
<1>8. CASE Home \/ AppGate \/ OnboardingLayout \/ FinishPushes
  BY <1>0, <1>1, <1>8, QueryFields, ZenonT(60) DEF Home, AppGate, OnboardingLayout, FinishPushes, Leave
<1>9. CASE FinishSettles
  BY <1>0, <1>1, <1>9, QueryFields, ZenonT(60) DEF FinishSettles
<1> QED BY <1>2, <1>3, <1>4, <1>5, <1>6, <1>7, <1>8, <1>9, EveryStep, Zenon

(* Every step keeps what is believed of the tenant true.                    *)
LEMMA OnboardedKept == TypeOK /\ Onboarded /\ [Next]_vars => Onboarded'
<1> SUFFICES ASSUME TypeOK, Onboarded, [Next]_vars PROVE Onboarded'
  OBVIOUS
<1>1. \A r \in AllRegions : /\ [onboarded |-> TRUE, name |-> TRUE, region |-> r].name = TRUE
                            /\ [onboarded |-> TRUE, name |-> TRUE, region |-> r].region # Unset
  BY SessionAssumption
<1>2. tenant'.onboarded => tenant'.name /\ tenant'.region # Unset
  BY <1>1, TenantStep, Zenon DEF Onboarded
<1> QED BY <1>2, BeliefStep, Zenon DEF Onboarded

(* A completion the API accepts has stored the answers.                     *)
LEMMA CompletionStores ==
    ASSUME TypeOK, CompleteOnboarding, Answered("complete")', ~Answered("complete")
    PROVE  tenant'.onboarded
<1> DEFINE c == IF Valid(payload) /\ tenant.region \in {Unset, payload.region} THEN "ok" ELSE "refused"
<1>1. req["complete"] \in RequestStates /\ req \in [Requests -> RequestStates] /\ "complete" \in Requests
  BY SessionAssumption DEF TypeOK, TransportTypeOK
<1>2. Serve("complete", c)
  BY Zenon DEF CompleteOnboarding
<1>3. req'["complete"].code = IF req["complete"].token \in live THEN c ELSE "unauthenticated"
  <2> HIDE DEF c
  <2> QED BY <1>1, <1>2 DEF Serve, RequestStates
<1>4. req["complete"].token \in live /\ c = "ok"
  BY <1>3, Zenon DEF Answered
<1>5. Valid(payload) /\ tenant.region \in {Unset, payload.region}
  BY <1>4
<1>6. tenant' = [onboarded |-> TRUE, name |-> payload.name, region |-> payload.region]
  BY <1>4, <1>5, Zenon DEF CompleteOnboarding, StoreAnswers
<1> QED BY <1>6

(* Every step keeps what a completion has achieved.                         *)
LEMMA CompletedKept ==
    ASSUME SInv, [Next]_vars
    PROVE  Completed'
<1>0. /\ q \in QueryStates /\ TransportTypeOK /\ Completed
      /\ "session" \in Requests /\ "complete" \in Requests
  BY SessionAssumption, Zenon DEF SInv, TypeOK
<1>1. tenant.onboarded => tenant'.onboarded
  BY BeliefStep, Zenon DEF SInv
<1>2. /\ Answered("session")' => Answered("session") \/ GetSession
      /\ Answered("complete")' => Answered("complete") \/ CompleteOnboarding
  BY <1>0, News, Zenon
<1>3. /\ Issue("session") => ~Answered("session")'
      /\ Issue("complete") => ~Answered("complete")'
  BY <1>0, IssuedIsOpen, Zenon
<1>4. CASE CompleteOnboarding
  <2>1. ~Answered("complete") /\ Answered("complete")' => tenant'.onboarded
    BY <1>4, CompletionStores, Zenon DEF SInv
  <2>2. ~GetSession \/ answer' = IF tenant.onboarded THEN "onboarded" ELSE "new"
    BY Zenon DEF GetSession
  <2>3. UNCHANGED <<q, answer, finishing, told, mounted>>
    BY <1>4, Zenon DEF CompleteOnboarding, onboarding, page
  <2> QED BY <1>0, <1>1, <1>2, <2>1, <2>2, <2>3, Zenon DEF Completed
<1>5. CASE GetSession /\ ~CompleteOnboarding
  <2>1. /\ UNCHANGED <<q, finishing, told, mounted>>
        /\ answer' = IF tenant.onboarded THEN "onboarded" ELSE "new"
    BY <1>5, Zenon DEF GetSession, onboarding, page
  <2> QED BY <1>0, <1>1, <1>2, <1>5, <2>1, Zenon DEF Completed
<1>6. CASE ~GetSession /\ ~CompleteOnboarding
  <2>0. /\ Answered("session")' => Answered("session")
        /\ Answered("complete")' => Answered("complete")
    BY <1>2, <1>6, Zenon
  <2>1. ASSUME UNCHANGED <<q, answer, finishing, told, mounted>> PROVE Completed'
    BY <1>0, <1>1, <2>0, <2>1, Zenon DEF Completed
  <2>2. CASE UNCHANGED svars \/ ColleagueOnboards \/ CallbackEffect \/ Exchange
    <3>1. UNCHANGED <<q, answer, finishing, told, mounted>>
      BY <2>2, Zenon DEF svars, page, onboarding, ColleagueOnboards, CallbackEffect, Exchange
    <3> QED BY <2>1, <3>1, Zenon
  <2>3. CASE Edits
    BY <2>1, <2>3, EditsAre, Zenon DEF SInv
  <2>4. CASE Reloads
    <3>1. /\ q' = NoQuery /\ finishing' = "idle" /\ told' = FALSE
      BY <2>4, ReloadsAre, Zenon DEF SInv
    <3> QED BY <1>0, <3>1, QueryFields, Zenon DEF Completed
  <2>5. CASE Refetch
    <3>1. /\ q' = Fetched /\ Issue("session") /\ mounted' = mounted /\ mounted = TRUE
          /\ UNCHANGED <<answer, finishing, told>>
      BY <2>5, Zenon DEF Refetch, StartFetch, page, SInv, TypeOK
    <3>2. q.data = "new" => q.data # "none"
      OBVIOUS
    <3> QED BY <1>0, <1>1, <1>3, <2>0, <3>1, <3>2, QueryFields, Zenon DEF Completed
  <2>6. CASE useSession
    <3>1. ~mounted /\ mounted' = TRUE /\ UNCHANGED <<answer, finishing, told>>
      BY <2>6, Zenon DEF useSession
    <3>2. CASE q' = Fetched /\ Issue("session")
      <4>2. q.data = "new" => q.data # "none"
        OBVIOUS
      <4> QED BY <1>0, <1>1, <1>3, <2>0, <3>1, <3>2, <4>2, QueryFields, Zenon DEF Completed
    <3>3. CASE q' = q /\ ~q.stale
      BY <1>0, <1>1, <2>0, <3>1, <3>3, Zenon DEF Completed
    <3> QED BY <2>6, <3>2, <3>3, Zenon DEF useSession, StartFetch
  <2>7. CASE SessionSettles
    <3>1. UNCHANGED <<finishing, told, mounted>>
      BY <2>7, Zenon DEF SessionSettles, page
    <3>2. "new" # "onboarded"
      OBVIOUS
    <3>3. CASE Answered("session") /\ q'.data = answer /\ q'.fetching = FALSE /\ q.fetching
      BY <1>0, <1>1, <2>0, <3>1, <3>2, <3>3, Zenon DEF Completed
    <3>4. CASE /\ q'.data = q.data /\ q'.error = q.error /\ q'.stale = q.stale
               /\ q'.fetching = q.fetching /\ Issue("session")
      BY <1>0, <1>1, <1>3, <2>0, <3>1, <3>4, Zenon DEF Completed
    <3>5. CASE q'.data = q.data /\ q'.error # "none" /\ q'.fetching = FALSE
      BY <1>0, <1>1, <2>0, <3>1, <3>5, Zenon DEF Completed
    <3> QED BY <2>7, <3>3, <3>4, <3>5, SettleFields, Zenon DEF SInv
  <2>8. CASE GoesStale
    <3>1. q' = [q EXCEPT !.stale = TRUE] /\ UNCHANGED <<answer, finishing, told, mounted>>
      BY <2>8, Zenon DEF GoesStale, page, onboarding
    <3> QED BY <1>0, <1>1, <2>0, <3>1, QueryFields, Zenon DEF Completed
  <2>9. CASE Home \/ AppGate \/ OnboardingLayout
    <3>1. /\ UNCHANGED <<answer, finishing, told>>
          /\ \/ q' = [q EXCEPT !.fetching = FALSE, !.failures = 0] /\ mounted' = FALSE
             \/ UNCHANGED <<q, mounted>>
      BY <2>9, Zenon DEF Home, AppGate, OnboardingLayout, Leave, onboarding
    <3>2. CASE UNCHANGED <<q, mounted>>
      BY <2>1, <3>1, <3>2, Zenon
    <3>3. CASE q' = [q EXCEPT !.fetching = FALSE, !.failures = 0] /\ mounted' = FALSE
      BY <1>0, <1>1, <2>0, <3>1, <3>3, QueryFields, Zenon DEF Completed
    <3> QED BY <3>1, <3>2, <3>3, Zenon
  <2>10. CASE finish
    <3>1. finishing' = "sending" /\ Issue("complete") /\ UNCHANGED <<q, answer, told, mounted>>
      BY <2>10, Zenon DEF finish, page
    <3> QED BY <1>0, <1>1, <1>3, <2>0, <3>1, Zenon DEF Completed
  <2>11. CASE FinishSettles
    <3>1. /\ finishing = "sending" /\ req["complete"].at = "settled"
          /\ UNCHANGED <<answer, told, mounted>>
      BY <2>11, Zenon DEF FinishSettles, page
    <3>2. CASE finishing' = "failed" /\ q' = q
      BY <1>0, <1>1, <2>0, <3>1, <3>2, Zenon DEF Completed
    <3>3. CASE req["complete"].code = "ok" /\ finishing' = "refetching"
      <4>1. tenant.onboarded
        BY <1>0, <3>1, <3>3, Zenon DEF Completed, Answered
      <4>2. q.data = "new" => q.data # "none"
        OBVIOUS
      <4>3. CASE mounted /\ q' = [Fetched EXCEPT !.stale = TRUE] /\ Issue("session")
        BY <1>0, <1>1, <1>3, <2>0, <3>1, <3>3, <4>1, <4>2, <4>3, QueryFields, Zenon DEF Completed
      <4>4. CASE ~mounted /\ q' = [q EXCEPT !.stale = TRUE]
        BY <1>0, <1>1, <2>0, <3>1, <3>3, <4>1, <4>4, QueryFields, Zenon DEF Completed
      <4> QED BY <2>11, <3>3, <4>3, <4>4, Zenon DEF FinishSettles
    <3> QED BY <2>11, <3>2, <3>3, Zenon DEF FinishSettles
  <2>12. CASE FinishPushes
    <3>1. /\ finishing = "refetching" /\ ~q.fetching /\ finishing' = "idle" /\ answer' = answer
          /\ told' = (told \/ (path = "complete" /\ mounted))
          /\ \/ q' = [q EXCEPT !.fetching = FALSE, !.failures = 0] /\ mounted' = FALSE
             \/ UNCHANGED <<q, mounted>>
      BY <2>12, Zenon DEF FinishPushes, Leave, page
    <3>2. /\ q'.data = q.data /\ q'.error = q.error /\ ~q'.fetching
      BY <1>0, <3>1, QueryFields, Zenon
    <3> QED BY <1>0, <1>1, <3>1, <3>2, Zenon DEF Completed
  <2> QED
    BY <1>6, <2>2, <2>3, <2>4, <2>5, <2>6, <2>7, <2>8, <2>9, <2>10, <2>11, <2>12, EveryStep, Zenon
<1> QED BY <1>4, <1>5, <1>6, Zenon

(* The inductive invariant of the gates.                                    *)
LEMMA SessionInductive == Spec => []SInv
<1>1. SessionInit => Onboarded /\ Completed
  <2> SUFFICES ASSUME SessionInit PROVE Onboarded /\ Completed
    OBVIOUS
  <2>1. q = NoQuery /\ answer = "none" /\ finishing = "idle" /\ told = FALSE
    BY Zenon DEF SessionInit
  <2>2. PICK on \in BOOLEAN, r \in Regions :
           tenant = [onboarded |-> on, name |-> on, region |-> IF on THEN r ELSE Unset]
    BY Zenon DEF SessionInit
  <2>3. r # Unset
    BY SessionAssumption, Zenon
  <2>4. tenant.onboarded => tenant.name /\ tenant.region # Unset
    BY <2>2, <2>3
  <2>5. NoQuery.data = "none" /\ NoQuery.fetching = FALSE
    BY DEF NoQuery
  <2> QED BY <2>1, <2>4, <2>5 DEF Onboarded, Completed
<1>2. SInv /\ [Next]_vars /\ TypeOK' => SInv'
  BY OnboardedKept, CompletedKept, Zenon DEF SInv
<1>3. TypeOK /\ Onboarded /\ Completed <=> SInv
  BY Zenon DEF SInv
<1> QED BY <1>1, <1>2, <1>3, TypeCorrect, PTL DEF Spec

(* AppGate shows the shell only for a tenant that is onboarded, with a name *)
(* and a region, whichever steps were opened by address, whatever was in    *)
(* flight, and whoever else onboards the organization at the same time.     *)
THEOREM ShellOnlyOnboarded == Spec => []ShellIsOnboarded
<1>1. SInv => ShellIsOnboarded
  <2> SUFFICES ASSUME SInv, GateView = "shell"
               PROVE  tenant.onboarded /\ tenant.name /\ tenant.region # Unset
    BY Zenon DEF ShellIsOnboarded
  <2>1. q.data = "onboarded"
    BY DEF GateView
  <2> QED BY <2>1, Zenon DEF SInv, Onboarded
<1> QED BY <1>1, SessionInductive, PTL

(* Once `finish` has opened the app, AppGate never sends the user back to   *)
(* the first step: the invalidation restarts the session's fetch after the  *)
(* completion was stored, so no answer read before it is believed.          *)
THEOREM OnboardedOnce == Spec => NeverOnboardsTwice
<1>1. ASSUME SInv, [Next]_vars, told, told', path = "/book"
      PROVE  path' # "organization"
  <2>1. "/book" \notin Steps /\ "/book" # "/" /\ "/book" # "/callback" /\ "/book" # "organization" /\ "/" # "organization"
    BY StepsAre
  <2>2. CASE UNCHANGED path
    BY <1>1, <2>1, <2>2, Zenon
  <2>3. CASE Edits \/ Reloads
    <3>1. Edits => path \in Steps
      BY Zenon DEF Edits, OrganizationPage, UseCasePage, RegionPage, LayoutShown
    <3> QED BY <1>1, <2>1, <2>3, <3>1, ReloadsAre, Zenon DEF SInv
  <2>4. CASE \/ UNCHANGED svars \/ ColleagueOnboards \/ CallbackEffect \/ Exchange \/ Refetch \/ useSession
             \/ SessionSettles \/ GoesStale \/ GetSession \/ finish \/ CompleteOnboarding \/ FinishSettles
    <3>1. UNCHANGED path
      BY <2>4, Zenon DEF svars, page, ColleagueOnboards, CallbackEffect, Exchange, Refetch, useSession,
                         SessionSettles, GoesStale, GetSession, finish, CompleteOnboarding, FinishSettles
    <3> QED BY <2>2, <3>1, Zenon
  <2>5. CASE Home \/ OnboardingLayout \/ FinishPushes
    BY <1>1, <2>1, <2>2, <2>5, Zenon DEF Home, OnboardingLayout, FinishPushes, page
  <2>6. CASE AppGate
    <3>1. ~(q.error = "none" /\ q.data = "new")
      BY <1>1, Zenon DEF SInv, Completed
    <3>2. path' = "/"
      BY <2>6, <3>1, Zenon DEF AppGate, Leave
    <3> QED BY <2>1, <3>2, Zenon
  <2> QED BY <1>1, <2>3, <2>4, <2>5, <2>6, EveryStep, Zenon
<1>2. SInv /\ [Next]_vars => [told /\ told' /\ path = "/book" => path' # "organization"]_vars
  BY <1>1, Zenon
<1> QED BY <1>2, SessionInductive, PTL DEF NeverOnboardsTwice, Spec
=============================================================================
