------------------------------ MODULE Session ------------------------------
(* Who the user is and what they may see: the session query                 *)
(* (web/lib/session.ts, components/providers.tsx) and the pages that decide *)
(* on it: the entry page, the OIDC callback, the gate of the application    *)
(* shell, sign-out, and the onboarding steps with the answers they collect. *)
(* Composed with the transport every request goes through, and with the     *)
(* tenant service that answers (api/internal/server/tenant_service.go).     *)
(*                                                                          *)
(* Texts are blank or not; the company size, which nothing depends on, and  *)
(* the wording and motion of the pages are left out.                        *)
EXTENDS Transport, Sequences

CONSTANTS
    UseCases,
    Regions,       \* the regions the user may pick
    AllRegions,    \* the regions a colleague may pick
    QueryRetries,  \* the failureCount at which a query gives up: 3
    MaxVisits      \* bound: addresses typed, colleagues who onboard, data gone stale

\* No region: none picked, none stored.
Unset == ""

ASSUME SessionAssumption ==
    /\ Requests = {"session", "page", "complete"}
    /\ "other" \in UseCases /\ Regions \subseteq AllRegions /\ Unset \notin AllRegions
    /\ QueryRetries \in Nat /\ MaxVisits \in Nat

VARIABLES
    path,      \* the page shown
    checked,   \* the entry page has found no user
    callback,  \* the callback page and the code it was given
    mounted,   \* the page on screen observes the session query
    q,         \* the session query
    answer,    \* the tenant the API last answered the query with
    form,      \* the onboarding answers
    payload,   \* what the completion in flight carries
    finishing, \* where `finish` is
    tenant,    \* the tenant's row
    visits,
    told       \* history: `finish` has opened the app from its page

page == <<path, checked, callback, mounted>>
onboarding == <<form, payload, finishing, told>>
svars == <<page, q, answer, onboarding, tenant, visits>>
vars == <<tvars, svars>>

-----------------------------------------------------------------------------
ONBOARDING_STEPS == <<"organization", "use-case", "region", "complete">>

Steps == {ONBOARDING_STEPS[i] : i \in 1..Len(ONBOARDING_STEPS)}

Gated == Steps \cup {"/book"}

stepIndex(p) == CHOOSE i \in 1..Len(ONBOARDING_STEPS) : ONBOARDING_STEPS[i] = p

nextPath(p) == ONBOARDING_STEPS[stepIndex(p) + 1]

prevPath(p) == ONBOARDING_STEPS[stepIndex(p) - 1]

\* The flow provider's defaults under the layout's `initial`: a tenant that is
\* not onboarded has no answers, and its name comes from the user's email.
initial == [name |-> TRUE, cases |-> {}, other |-> FALSE, region |-> Unset]

NoCallback == [effects |-> 0, ran |-> FALSE, exchanges |-> 0, used |-> FALSE, error |-> FALSE]

NoQuery == [data |-> "none", error |-> "none", fetching |-> FALSE, failures |-> 0, stale |-> FALSE]

isPending == q.data = "none" /\ q.error = "none"

\* A gate that lets in whoever has a session.
ShowsAnyTenant == IF q.error = "transient" THEN "retry" ELSE IF isPending THEN "loading" ELSE "shell"

\* What AppGate shows.
GateView ==
    IF q.error = "transient" THEN "retry"
    ELSE IF isPending \/ q.data # "onboarded" THEN "loading" ELSE "shell"

\* The onboarding layout renders its children, and so keeps the answers.
LayoutShown == path \in Steps /\ mounted /\ q.data = "new" /\ q.error = "none"

\* The provider's state lives as long as the layout shows it.
KeepAnswers == form' = IF LayoutShown' /\ LayoutShown THEN form ELSE initial

SessionInit ==
    /\ TransportInit
    /\ path = "/" /\ checked = FALSE /\ callback = NoCallback /\ mounted = FALSE
    /\ q = NoQuery /\ answer = "none"
    /\ form = initial /\ payload = initial /\ finishing = "idle" /\ told = FALSE
    /\ \E on \in BOOLEAN, r \in Regions :
          tenant = [onboarded |-> on, name |-> on, region |-> IF on THEN r ELSE Unset]
    /\ visits \in 0..MaxVisits

-----------------------------------------------------------------------------
(* The session query: TanStack Query's defaults, and what providers.tsx     *)
(* sets.                                                                    *)

\* A fetch starts over: without data the query is pending again.
Fetched == [q EXCEPT !.fetching = TRUE, !.failures = 0,
                     !.error = IF q.data = "none" THEN "none" ELSE @]

StartFetch == q' = Fetched /\ Issue("session")

\* A query that only refreshes what it has.
RefreshesOnly ==
    /\ path \in Gated /\ ~mounted /\ mounted' = TRUE
    /\ IF q.stale THEN StartFetch ELSE UNCHANGED <<tvars, q>>
    /\ UNCHANGED <<path, checked, callback, answer, payload, finishing, told, tenant, visits>>
    /\ KeepAnswers

\* useSession mounts: fetch when there is nothing, or nothing fresh.
useSession ==
    /\ path \in Gated /\ ~mounted /\ mounted' = TRUE
    /\ IF q.data = "none" \/ q.stale THEN StartFetch ELSE UNCHANGED <<tvars, q>>
    /\ UNCHANGED <<path, checked, callback, answer, payload, finishing, told, tenant, visits>>
    /\ KeepAnswers

\* The page goes: the query's fetch is aborted.
Leave(p) ==
    /\ path' = p /\ mounted' = FALSE /\ checked' = FALSE /\ callback' = NoCallback
    /\ q' = [q EXCEPT !.fetching = FALSE, !.failures = 0]

\* GetSession: the tenant as it is when the API reads it.
GetSession ==
    /\ Serve("session", "ok")
    /\ answer' = IF tenant.onboarded THEN "onboarded" ELSE "new"
    /\ UNCHANGED <<page, q, onboarding, tenant, visits>>

\* isAuthError, with the codes of this model.
isAuthError(code) == code = "unauthenticated"

\* retry: an auth failure is final, any other is tried again.
retry(failureCount, code) == ~isAuthError(code) /\ failureCount < QueryRetries

\* The fetch ends, or is tried again.
SessionSettles ==
    /\ q.fetching /\ req["session"].at = "settled"
    /\ LET code == req["session"].code
       IN  \/ /\ code = "ok"
              /\ q' = [NoQuery EXCEPT !.data = answer]
              /\ Abort({"session"}) /\ UNCHANGED oidc
           \/ /\ code # "ok" /\ retry(q.failures, code)
              /\ q' = [q EXCEPT !.failures = @ + 1]
              /\ Issue("session")
           \/ /\ code # "ok" /\ ~retry(q.failures, code)
              /\ q' = [q EXCEPT !.fetching = FALSE, !.stale = TRUE,
                                !.error = IF isAuthError(code) THEN "auth" ELSE "transient"]
              /\ Abort({"session"}) /\ UNCHANGED oidc
    /\ answer' = "none"
    /\ UNCHANGED <<page, payload, finishing, told, tenant, visits>>
    /\ KeepAnswers

\* staleTime passes.
GoesStale ==
    /\ visits < MaxVisits /\ visits' = visits + 1
    /\ q.data # "none" /\ ~q.stale /\ q' = [q EXCEPT !.stale = TRUE]
    /\ UNCHANGED <<tvars, page, answer, onboarding, tenant>>

\* A gate's effect follows the render that made it due; no event comes between.
EffectDue ==
    \/ q.error = "auth"
    \/ q.error = "none" /\ q.data = IF path = "/book" THEN "new" ELSE "onboarded"

\* The window is focused again, or "Try again" is clicked.
Refetch ==
    /\ mounted /\ ~EffectDue
    /\ (q.stale /\ ~q.fetching) \/ (path = "/book" /\ GateView = "retry")
    /\ StartFetch
    /\ UNCHANGED <<page, answer, payload, finishing, told, tenant, visits>>
    /\ KeepAnswers

-----------------------------------------------------------------------------
(* The entry page, the callback and sign-out.                               *)

\* Home's effect: a stored user goes to the app, anyone else may sign in.
Home ==
    /\ path = "/" /\ ~checked
    /\ IF accessToken # 0
       THEN Leave("/book")
       ELSE checked' = TRUE /\ UNCHANGED <<path, mounted, callback, q>>
    /\ UNCHANGED <<tvars, answer, onboarding, tenant, visits>>

\* A page load: every variable of the client starts over.
Loads(p) ==
    /\ path' = p /\ mounted' = FALSE /\ checked' = FALSE
    /\ q' = NoQuery /\ answer' = "none"
    /\ form' = initial /\ payload' = initial /\ finishing' = "idle" /\ told' = FALSE
    /\ UNCHANGED tenant

\* signIn: the browser leaves for the provider, which sends it back with a
\* code.  In development React runs the callback page's effect twice.
signIn ==
    /\ path = "/" /\ checked /\ minted < MaxTokens
    /\ Reload /\ user' = user /\ Loads("/callback")
    /\ \E effects \in {1, 2} : callback' = [NoCallback EXCEPT !.effects = effects]
    /\ UNCHANGED visits

\* The effect of the callback page: one exchange, guarded by `ran`.
CallbackEffect ==
    /\ path = "/callback" /\ callback.effects > 0
    /\ callback' = [callback EXCEPT !.effects = @ - 1, !.ran = TRUE,
                                    !.exchanges = IF callback.ran THEN @ ELSE @ + 1]
    /\ UNCHANGED <<tvars, path, checked, mounted, q, answer, onboarding, tenant, visits>>

\* signinRedirectCallback: the code buys a user once.
Exchange ==
    /\ path = "/callback" /\ callback.effects = 0 /\ callback.exchanges > 0
    /\ \/ /\ ~callback.used /\ SignInAtProvider
          /\ callback' = [callback EXCEPT !.exchanges = @ - 1, !.used = TRUE]
       \/ /\ IF callback.used THEN UNCHANGED tvars ELSE SignInFails
          /\ callback' = [callback EXCEPT !.exchanges = @ - 1, !.error = TRUE]
    /\ UNCHANGED <<path, checked, mounted, q, answer, onboarding, tenant, visits>>

\* window.location.href = "/" once the user is stored.
CallbackDone ==
    /\ path = "/callback" /\ callback.used
    /\ Reload /\ user' = user /\ Loads("/") /\ callback' = NoCallback
    /\ UNCHANGED visits

\* The profile menu, in the onboarding's top bar or in the shell's spine.
ProfileMenu == LayoutShown \/ (path = "/book" /\ GateView = "shell")

\* The menu's link, and the page it leads to:
\* signoutRedirect ends the provider's session, or fails, and "/" loads.
SignedOut ==
    /\ mounted /\ ProfileMenu
    /\ SignOutAtProvider \/ Reload
    /\ Loads("/") /\ callback' = NoCallback
    /\ UNCHANGED visits

\* The user opens an address, or reloads the page.
Visit ==
    /\ visits < MaxVisits /\ visits' = visits + 1
    /\ \E p \in Gated \cup {"/"} : Reload /\ user' = user /\ Loads(p) /\ callback' = NoCallback

-----------------------------------------------------------------------------
(* The gates.                                                               *)

\* AppGate's effect: only an auth failure ends the session; a tenant that is
\* not onboarded goes to the first step.
AppGate ==
    /\ path = "/book" /\ mounted
    /\ \/ /\ q.error = "auth" /\ Leave("/") /\ RemoveUser({"session"})
       \/ /\ q.error = "none" /\ q.data = "new"
          /\ Leave("organization") /\ Abort({"session"}) /\ UNCHANGED oidc
    /\ UNCHANGED <<answer, onboarding, tenant, visits>>

\* OnboardingLayout's effect.
OnboardingLayout ==
    /\ path \in Steps /\ mounted
    /\ \/ q.error = "auth" /\ Leave("/")
       \/ q.error = "none" /\ q.data = "onboarded" /\ Leave("/book")
    /\ Abort({"session"}) /\ UNCHANGED oidc
    /\ form' = initial
    /\ UNCHANGED <<answer, payload, finishing, told, tenant, visits>>

\* Another query of the shell is fetched.
PageQuery ==
    /\ path = "/book" /\ mounted /\ GateView = "shell" /\ ~EffectDue
    /\ req["page"].at = "idle" /\ Issue("page")
    /\ UNCHANGED svars

\* Its answer, or its error, is shown in its own place.
PageSettles == req["page"].at = "settled" /\ Abort({"page"}) /\ UNCHANGED <<oidc, svars>>

-----------------------------------------------------------------------------
(* The onboarding steps.                                                    *)

Set(f) == form' = f /\ UNCHANGED <<tvars, page, q, answer, payload, finishing, told, tenant, visits>>

GoTo(p) == path' = p /\ UNCHANGED <<tvars, checked, callback, mounted, q, answer, onboarding, tenant, visits>>

\* Quiet, and never disabled.
OnboardingBack == GoTo(prevPath(path))

OnboardingContinue(disabled) == ~disabled /\ GoTo(nextPath(path))

\* organization: a name, and Continue once it is not blank.
OrganizationPage ==
    /\ LayoutShown /\ path = "organization"
    /\ \/ \E name \in BOOLEAN : Set([form EXCEPT !.name = name])
       \/ OnboardingContinue(~form.name)

toggleUseCase(id) ==
    Set([form EXCEPT !.cases = IF id \in @ THEN @ \ {id} ELSE @ \cup {id}])

\* use-case: any of the areas, and what else when "other" is among them.
UseCasePage ==
    /\ LayoutShown /\ path = "use-case"
    /\ \/ \E id \in UseCases : toggleUseCase(id)
       \/ "other" \in form.cases /\ \E other \in BOOLEAN : Set([form EXCEPT !.other = other])
       \/ OnboardingContinue(FALSE) \/ OnboardingBack

\* The grid has a cell for every option, each of which may be clicked at any time.
OptionGrid == \E region \in Regions : Set([form EXCEPT !.region = region])

\* region: one of the regions, and Continue once there is one.
RegionPage ==
    /\ LayoutShown /\ path = "region"
    /\ \/ OptionGrid
       \/ OnboardingContinue(form.region = Unset) \/ OnboardingBack

\* complete: `finish`, disabled while it is pending.
finish ==
    /\ LayoutShown /\ path = "complete" /\ finishing \in {"idle", "failed"}
    /\ payload' = [form EXCEPT !.other = "other" \in form.cases /\ form.other]
    /\ finishing' = "sending"
    /\ Issue("complete")
    /\ UNCHANGED <<page, q, answer, form, told, tenant, visits>>

Valid(p) == p.name /\ p.region # Unset

\* The upsert: it applies when the stored region is unset or the same.
StoreAnswers(p) ==
    IF Valid(p) /\ tenant.region \in {Unset, p.region}
    THEN tenant' = [onboarded |-> TRUE, name |-> p.name, region |-> p.region]
    ELSE UNCHANGED tenant

\* CompleteOnboarding answers the caller it knows.
CompleteOnboarding ==
    /\ Serve("complete",
             IF Valid(payload) /\ tenant.region \in {Unset, payload.region} THEN "ok" ELSE "refused")
    /\ IF req["complete"].token \in live THEN StoreAnswers(payload) ELSE UNCHANGED tenant
    /\ UNCHANGED <<page, q, answer, onboarding, visits>>

\* A colleague onboards the same organization from their own browser.
ColleagueOnboards ==
    /\ visits < MaxVisits /\ visits' = visits + 1
    /\ \E r \in AllRegions : StoreAnswers([initial EXCEPT !.region = r])
    /\ UNCHANGED <<tvars, page, q, answer, onboarding>>

\* onSuccess without the invalidation: the query keeps what it has.
SettlesQuietly ==
    /\ finishing = "sending" /\ req["complete"].at = "settled"
    /\ IF req["complete"].code = "ok"
       THEN finishing' = "refetching"
       ELSE finishing' = "failed"
    /\ payload' = initial
    /\ UNCHANGED <<tvars, page, q, answer, form, told, tenant, visits>>

\* The mutation settles: onSuccess invalidates every query, which cancels and
\* restarts the session's fetch; an error is shown on the page.
FinishSettles ==
    /\ finishing = "sending" /\ req["complete"].at = "settled"
    /\ IF req["complete"].code = "ok"
       THEN /\ finishing' = "refetching"
            /\ IF mounted THEN q' = [Fetched EXCEPT !.stale = TRUE] /\ Issue("session")
               ELSE q' = [q EXCEPT !.stale = TRUE] /\ UNCHANGED tvars
       ELSE finishing' = "failed" /\ UNCHANGED <<tvars, q>>
    /\ payload' = initial
    /\ UNCHANGED <<page, answer, told, tenant, visits>>
    /\ KeepAnswers

\* The refetch is awaited, and the app opened.
FinishPushes ==
    /\ finishing = "refetching" /\ ~q.fetching /\ finishing' = "idle"
    /\ told' = (told \/ (path = "complete" /\ mounted))
    /\ IF path = "/book" THEN UNCHANGED <<page, q, form>>
       ELSE Leave("/book") /\ form' = initial
    /\ UNCHANGED <<tvars, answer, payload, tenant, visits>>

-----------------------------------------------------------------------------
\* What the requests, the renewal and the browser's OIDC state do by themselves.
TransportStep ==
    /\ \/ \E r \in Requests : auth(r) \/ ServeFails(r) \/ renewSession(r) \/ renewOnce(r)
       \/ Serve("page", "ok")
       \/ Renewed \/ RenewFailed \/ CooldownOver \/ BackgroundRenew
       \/ TokenRejected \/ ClientExpiry \/ ProviderEnds
    /\ UNCHANGED svars

User ==
    \/ signIn \/ SignedOut \/ Visit \/ Refetch \/ PageQuery \/ ColleagueOnboards
    \/ OrganizationPage \/ UseCasePage \/ RegionPage \/ finish

Effects == useSession \/ Home \/ CallbackEffect \/ CallbackDone \/ AppGate \/ OnboardingLayout

Finishing == FinishSettles \/ FinishPushes

Next ==
    \/ TransportStep \/ User \/ Effects \/ SessionSettles \/ PageSettles \/ Finishing
    \/ GoesStale \/ GetSession \/ CompleteOnboarding \/ Exchange

Spec == SessionInit /\ [][Next]_vars

\* React runs its effects, the event loop its promises; a request, whose steps
\* follow one another, and a renewal end, if only in a timeout.  Nobody owes us
\* a click.
Progress(r) == (auth(r) \/ renewSession(r) \/ renewOnce(r)) /\ UNCHANGED svars

Fairness ==
    /\ WF_vars(Effects) /\ WF_vars(Exchange)
    /\ WF_vars(Progress("session") \/ GetSession \/ SessionSettles)
    /\ WF_vars(Progress("page") \/ (Serve("page", "ok") /\ UNCHANGED svars) \/ PageSettles)
    /\ WF_vars(Progress("complete") \/ CompleteOnboarding \/ Finishing)
    /\ WF_vars((Renewed \/ RenewFailed) /\ UNCHANGED svars)

FairSpec == Spec /\ Fairness

-----------------------------------------------------------------------------
QueryStates ==
    [data: {"none", "new", "onboarded"}, error: {"none", "auth", "transient"},
     fetching: BOOLEAN, failures: 0..QueryRetries, stale: BOOLEAN]

Forms == [name: BOOLEAN, cases: SUBSET UseCases, other: BOOLEAN, region: Regions \cup {Unset}]

Tenants == [onboarded: BOOLEAN, name: BOOLEAN, region: AllRegions \cup {Unset}]

TypeOK ==
    /\ TransportTypeOK
    /\ path \in Gated \cup {"/", "/callback"} /\ checked \in BOOLEAN /\ mounted \in BOOLEAN
    /\ q \in QueryStates /\ answer \in {"none", "new", "onboarded"}
    /\ form \in Forms /\ payload \in Forms /\ told \in BOOLEAN
    /\ finishing \in {"idle", "sending", "refetching", "failed"}
    /\ tenant \in Tenants
    /\ visits \in 0..MaxVisits

\* The transport as the pages use it, with pages that load, leave and sign out
\* under it, is the transport of client.ts on its own.
ImplementsTransport == TransportSpec

\* complete/page.tsx and app-gate.tsx: once `finish` has opened the app, the gate
\* never sends the user back to onboarding, whichever answers, retries and
\* refetches were under way when it did.
NeverOnboardsTwice == [][told /\ told' /\ path = "/book" => path' # "organization"]_vars

\* app-gate.tsx: the shell is only ever shown for a tenant that is onboarded,
\* with a name and a region, whichever steps were opened by address and whoever
\* else onboards the organization at the same time.
ShellIsOnboarded ==
    path = "/book" /\ mounted /\ GateView = "shell" =>
        tenant.onboarded /\ tenant.name /\ tenant.region # Unset

SessionDead == live = {} /\ ~provider

\* useSession: whoever waits at a gate is let in, turned away or told.  And
\* app-gate.tsx:30: clearing the user makes "/" show a clean sign-in "instead of
\* looping back into the gate"; the onboarding layout, which does not clear it,
\* ends there as well, by way of the gate, unless the server stops answering.
GateDecides ==
    /\ path = "/book" ~> (mounted /\ GateView # "loading") \/ path # "/book"
    /\ SessionDead /\ mounted /\ q.error = "auth"
          ~> (path = "/" /\ checked) \/ ~SessionDead \/ q.error = "transient"
=============================================================================
