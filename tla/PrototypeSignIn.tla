--------------------------- MODULE PrototypeSignIn ---------------------------
(* The prototype's way in: the index of pages, the sign-in funnel (front      *)
(* door, password, emailed code, new password, single sign-on, the dead ends) *)
(* and the onboarding walkthrough.  There is no backend: an action that would *)
(* call one waits MOCK_DELAY_MS in a setTimeout that nothing cancels, so a    *)
(* page that is left still navigates when its delay is over.                  *)
EXTENDS Naturals, Sequences, FiniteSets, SequencesExt

CONSTANTS
    Emails,         \* what the address field can hold; "" is the empty field
    Lowered,        \* Emails -> Emails: trim().toLowerCase()
    mockUser,       \* the address the prototype recognises
    Passwords,      \* records [len, variety, text]; one of them has length 0
    Names,          \* organisation names: sequences over "a" (letter or digit), "." and " "
    MockName,       \* orgNameFromEmail of the recognised address
    companySizes, useCases, regions,
    Recommended,    \* the region marked recommended
    RESEND_SECONDS, \* seconds before a code can be sent again
    MaxSteps        \* bound: how many things the user does

VARIABLES
    at,         \* the route shown: its page and its query parameter
    email,      \* AuthFlowProvider: the address typed at the front door
    lastMethod, \* AuthFlowProvider: the method used last
    stored,     \* localStorage["hivebook-last-method"]
    form,       \* the state of the page on screen
    timers,     \* delays under way, in the order in which they end
    answers,    \* OnboardingFlowProvider
    entry,      \* history: the page of the index the user came in through
    proof,      \* history: what the user has shown since then
    toggled,    \* history: the areas clicked an odd number of times
    steps       \* how many things the user has done

signVars == <<at, email, lastMethod, stored, form, timers, answers, entry, proof, toggled>>

None == "none"
R(page, tag) == [page |-> page, tag |-> tag]
AuthPages == {"sign-in", "enter-password", "verify-email", "set-password", "forgot-password",
              "sso", "error", "signed-out", "session-expired"}
PROVIDERS == <<"microsoft", "google", "sso">>

-----------------------------------------------------------------------------
(* The order of the onboarding steps.                                        *)

ONBOARDING_STEPS == <<"organization", "use-case", "region", "complete">>

\* Position of a page in the walkthrough; 0 (the code's -1) for any other page.
stepIndex(page) ==
    IF \E i \in DOMAIN ONBOARDING_STEPS : ONBOARDING_STEPS[i] = page
    THEN CHOOSE i \in DOMAIN ONBOARDING_STEPS : ONBOARDING_STEPS[i] = page ELSE 0

\* How much of the line is filled, in steps.
progress(page) == stepIndex(page)

nextPath(page) ==
    IF stepIndex(page) \in 1..(Len(ONBOARDING_STEPS) - 1)
    THEN ONBOARDING_STEPS[stepIndex(page) + 1] ELSE None

prevPath(page) == IF stepIndex(page) > 1 THEN ONBOARDING_STEPS[stepIndex(page) - 1] ELSE None

AppPages == {"book", "entry", "ask", "sources", "members", "access", "entities", "ambiguity",
             "review", "audit", "usage", "settings", "account"}

\* The links of the prototype's index.
groups ==
    {R(p, "") : p \in (AppPages \ {"entry"}) \cup AuthPages \cup ToSet(ONBOARDING_STEPS)}
    \cup {R("entry", id) : id \in {"s-eu-vat", "t-refunds", "ch-cust"}}

-----------------------------------------------------------------------------
(* What the pages compute.                                                   *)

slugify(s) ==
    LET dashed == FoldLeft(LAMBDA slug, c : IF c = "a" THEN Append(slug, c)
                                            ELSE IF slug # <<>> /\ Last(slug) = "-" THEN slug
                                            ELSE Append(slug, "-"), <<>>, s)
        cut == IF dashed # <<>> /\ Head(dashed) = "-" THEN Tail(dashed) ELSE dashed
    IN  IF cut # <<>> /\ Last(cut) = "-" THEN Front(cut) ELSE cut

Blank(name) == \A i \in DOMAIN name : name[i] = " "

MIN_LENGTH == 12
lengthOk(f) == f.pw.len >= MIN_LENGTH
match(f) == f.pw2.len > 0 /\ f.pw = f.pw2

Rule(ok, failed) == IF ok THEN "met" ELSE IF failed THEN "failed" ELSE "unmet"

StrengthMeter(pw) ==
    Cardinality({n \in {8, 12, 16} : pw.len >= n}) + (IF pw.variety >= 3 THEN 1 ELSE 0)

ordered(last) ==
    SelectSeq(PROVIDERS, LAMBDA p : p = last) \o SelectSeq(PROVIDERS, LAMBDA p : p # last)

\* Where an accepted code leads, by the flow that asked for it.
NEXT_BY_FLOW ==
    [signup |-> R("set-password", ""), login |-> R("book", ""), reset |-> R("set-password", "reset")]

CodeLeads(flow) == IF flow \in DOMAIN NEXT_BY_FLOW THEN NEXT_BY_FLOW[flow] ELSE NEXT_BY_FLOW["signup"]

EmptyPassword == CHOOSE p \in Passwords : p.len = 0
STAGE_COUNT == 3

-----------------------------------------------------------------------------
(* Mounting and leaving.                                                     *)

NoForm == [pending |-> FALSE, error |-> FALSE, tried |-> FALSE, showPw |-> FALSE,
           pw |-> EmptyPassword, pw2 |-> EmptyPassword, resendIn |-> RESEND_SECONDS, stage |-> 0]
NoAnswers == [orgName |-> MockName, orgSize |-> None, useCases |-> <<>>, region |-> Recommended]

\* The layouts key the page by its pathname: a navigation that changes only the
\* query keeps the page and what was typed in it.
PageFor(r) == IF r.page = at.page THEN form ELSE NoForm

\* A delay outlives its page; what it would set on a page that is gone is not.
Orphaned(r, ts) ==
    IF r.page = at.page THEN ts ELSE [i \in DOMAIN ts |-> [ts[i] EXCEPT !.live = FALSE]]

\* The two providers live in the layouts of their groups of routes.
AuthFlowProvider(r, typed, method) ==
    LET mounted == at.page \in AuthPages
    IN  /\ email' = IF r.page \in AuthPages /\ mounted THEN typed ELSE ""
        /\ lastMethod' = IF r.page \in AuthPages /\ mounted THEN method ELSE stored

OnboardingFlowProvider(r, given) ==
    answers' = IF stepIndex(r.page) > 0 /\ stepIndex(at.page) > 0 THEN given ELSE NoAnswers

\* router.push(r), with the delays ts still to come.
Push(r, ts) ==
    /\ at' = r
    /\ form' = PageFor(r)
    /\ timers' = Orphaned(r, ts)
    /\ AuthFlowProvider(r, email, lastMethod)
    /\ OnboardingFlowProvider(r, answers)
    /\ toggled' = IF stepIndex(r.page) > 0 /\ stepIndex(at.page) > 0 THEN toggled ELSE {}

\* setTimeout(..., MOCK_DELAY_MS): every such delay is as long as the others, so
\* they end in the order in which they began.
Delay(kind, to) == timers' = Append(timers, [kind |-> kind, to |-> to, live |-> TRUE])

Does == steps < MaxSteps /\ steps' = steps + 1
AuthOnly == UNCHANGED <<at, answers, entry, toggled>>

-----------------------------------------------------------------------------
(* The views: what a page offers in its present state.  links are the routes  *)
(* it leads to at a click, submit whether its button can be pressed, shows    *)
(* what appears only sometimes.                                               *)

When(c, x) == IF c THEN {x} ELSE {}

SignInView ==
    [links |-> {R("sso", p) : p \in ToSet(ordered(lastMethod))}, submit |-> ~form.pending,
     shows |-> When(lastMethod \in ToSet(PROVIDERS), "Last used")]

EnterPasswordView ==
    [links |-> {R("forgot-password", ""), R("verify-email", "login"), R("sign-in", "")},
     submit |-> ~form.pending, shows |-> When(form.showPw, "password")]

VerifyEmailView ==
    [links |-> {R("sign-in", "")}, submit |-> ~form.pending,
     shows |-> When(form.pending, "verifying") \cup When(form.error /\ ~form.pending, "error")
               \cup When(form.resendIn > 0, "countdown") \cup When(form.resendIn = 0, "resend")]

isReset == at.tag = "reset"

SetPasswordView ==
    [links |-> {R("sign-in", "")}, submit |-> ~form.pending,
     shows |-> When(form.pw.len > 0, "meter") \cup When(isReset, "sign out elsewhere")
               \cup When(Rule(lengthOk(form), form.tried /\ ~lengthOk(form)) = "failed", "too short")
               \cup When(Rule(match(form), form.tried /\ ~match(form)) = "failed", "differ")]

ForgotPasswordView == [links |-> {R("sign-in", "")}, submit |-> ~form.pending, shows |-> {}]

SsoView == [links |-> {R("sign-in", "")}, submit |-> FALSE, 
            shows |-> {IF form.stage = STAGE_COUNT THEN STAGE_COUNT - 1 ELSE form.stage}]

AuthErrorView == [links |-> {R("sign-in", ""), R("forgot-password", "")}, submit |-> FALSE, shows |-> {}]
SignedOutView == [links |-> {R("sign-in", "")}, submit |-> FALSE, shows |-> {}]
SessionExpiredView == [links |-> {R("sign-in", "")}, submit |-> FALSE, shows |-> {}]

\* The profile menu of the onboarding bar is on every step.
OnboardingTopBar == {R("signed-out", "")}

OrganizationView ==
    [links |-> OnboardingTopBar, submit |-> ~Blank(answers.orgName),
     shows |-> {slugify(answers.orgName)}]

UseCaseView == [links |-> OnboardingTopBar, submit |-> TRUE, shows |-> ToSet(answers.useCases)]

RegionView == [links |-> OnboardingTopBar, submit |-> TRUE, shows |-> {answers.region}]

CompleteView ==
    [links |-> OnboardingTopBar \cup {R("book", ""), R("sources", "")}, submit |-> FALSE,
     shows |-> {Len(answers.useCases)}]

View ==
    CASE at.page = "sign-in" -> SignInView
      [] at.page = "enter-password" -> EnterPasswordView
      [] at.page = "verify-email" -> VerifyEmailView
      [] at.page = "set-password" -> SetPasswordView
      [] at.page = "forgot-password" -> ForgotPasswordView
      [] at.page = "sso" -> SsoView
      [] at.page = "error" -> AuthErrorView
      [] at.page = "signed-out" -> SignedOutView
      [] at.page = "session-expired" -> SessionExpiredView
      [] at.page = "organization" -> OrganizationView
      [] at.page = "use-case" -> UseCaseView
      [] at.page = "region" -> RegionView
      [] at.page = "complete" -> CompleteView
      [] OTHER -> [links |-> {}, submit |-> FALSE, shows |-> {}]

-----------------------------------------------------------------------------
(* The user, page by page.                                                   *)

PrototypeIndex(r) ==
    /\ Does /\ at.page = "index" /\ r \in groups
    /\ Push(r, timers)
    /\ entry' = r.page
    /\ UNCHANGED <<stored, proof>>

Follow ==
    /\ Does /\ at.page # "sign-in"
    /\ \E r \in View.links : Push(r, timers)
    /\ UNCHANGED <<stored, entry, proof>>

\* The address field of the front door and of the forgotten password.
SetEmail(e) ==
    /\ Does /\ at.page \in {"sign-in", "forgot-password"} /\ e # email
    /\ email' = e
    /\ AuthOnly /\ UNCHANGED <<lastMethod, stored, form, timers, proof>>

setLastMethod(m) == lastMethod' = m /\ stored' = m

\* The address is looked at when the form is sent, not when the delay ends.
SubmitEmail ==
    /\ Does /\ at.page = "sign-in" /\ SignInView.submit /\ email # ""
    /\ setLastMethod("email")
    /\ form' = [form EXCEPT !.pending = TRUE]
    /\ Delay("signin", IF Lowered[email] = mockUser THEN R("enter-password", "")
                       ELSE R("verify-email", "signup"))
    /\ AuthOnly /\ UNCHANGED <<email, proof>>

\* The provider buttons stay enabled while the address is being looked up.
useProvider(p) ==
    /\ Does /\ at.page = "sign-in" /\ R("sso", p) \in SignInView.links
    /\ at' = R("sso", p)
    /\ form' = NoForm
    /\ timers' = Orphaned(R("sso", p), timers)
    /\ setLastMethod(p)
    /\ UNCHANGED <<email, answers, entry, proof, toggled>>

TypePassword(p) ==
    /\ Does /\ at.page \in {"enter-password", "set-password"} /\ p # form.pw
    /\ form' = [form EXCEPT !.pw = p]
    /\ AuthOnly /\ UNCHANGED <<email, lastMethod, stored, timers, proof>>

TypeAgain(p) ==
    /\ Does /\ at.page = "set-password" /\ p # form.pw2
    /\ form' = [form EXCEPT !.pw2 = p]
    /\ AuthOnly /\ UNCHANGED <<email, lastMethod, stored, timers, proof>>

ShowPassword ==
    /\ Does /\ at.page \in {"enter-password", "set-password"}
    /\ form' = [form EXCEPT !.showPw = ~@]
    /\ AuthOnly /\ UNCHANGED <<email, lastMethod, stored, timers, proof>>

SubmitPassword ==
    /\ Does /\ at.page = "enter-password" /\ EnterPasswordView.submit /\ form.pw.len > 0
    /\ form' = [form EXCEPT !.pending = TRUE]
    /\ proof' = proof \cup {"password"}
    /\ Delay("go", R("book", ""))
    /\ AuthOnly /\ UNCHANGED <<email, lastMethod, stored>>

\* A new password that does not meet the rules is refused, and the rules say so.
SubmitNewPassword ==
    /\ Does /\ at.page = "set-password" /\ SetPasswordView.submit
    /\ form.pw.len > 0 /\ form.pw2.len > 0
    /\ IF lengthOk(form) /\ match(form)
       THEN /\ form' = [form EXCEPT !.pending = TRUE]
            /\ proof' = proof \cup {"new password"}
            /\ Delay("go", IF isReset THEN R("sign-in", "") ELSE R("organization", ""))
       ELSE form' = [form EXCEPT !.tried = TRUE] /\ UNCHANGED <<timers, proof>>
    /\ AuthOnly /\ UNCHANGED <<email, lastMethod, stored>>

SubmitForgot ==
    /\ Does /\ at.page = "forgot-password" /\ ForgotPasswordView.submit /\ email # ""
    /\ form' = [form EXCEPT !.pending = TRUE]
    /\ Delay("go", R("verify-email", "reset"))
    /\ AuthOnly /\ UNCHANGED <<email, lastMethod, stored, proof>>

\* The sixth digit sends the code; 000000 is the wrong one.
handleCompleteAny(right) ==
    /\ Does /\ at.page = "verify-email" /\ VerifyEmailView.submit
    /\ form' = [form EXCEPT !.pending = TRUE, !.error = FALSE]
    /\ proof' = IF right THEN proof \cup {"code"} ELSE proof
    /\ Delay("go", CodeLeads(at.tag))
    /\ AuthOnly /\ UNCHANGED <<email, lastMethod, stored>>

handleComplete(right) ==
    /\ Does /\ at.page = "verify-email" /\ VerifyEmailView.submit
    /\ form' = [form EXCEPT !.pending = TRUE, !.error = FALSE]
    /\ proof' = IF right THEN proof \cup {"code"} ELSE proof
    /\ Delay(IF right THEN "go" ELSE "wrong", CodeLeads(at.tag))
    /\ AuthOnly /\ UNCHANGED <<email, lastMethod, stored>>

handleResend ==
    /\ Does /\ at.page = "verify-email" /\ "resend" \in VerifyEmailView.shows
    /\ form' = [form EXCEPT !.resendIn = RESEND_SECONDS, !.error = FALSE]
    /\ AuthOnly /\ UNCHANGED <<email, lastMethod, stored, timers, proof>>

-----------------------------------------------------------------------------
(* Onboarding.                                                               *)

set(field, v) == [answers EXCEPT ![field] = v]

toggleUseCase(u) ==
    IF u \in ToSet(answers.useCases) THEN SelectSeq(answers.useCases, LAMBDA x : x # u)
    ELSE Append(answers.useCases, u)

\* A cell of an option grid, or the name field, whose page owns the answer.
Answer(field, v) ==
    /\ Does
    /\ answers' = set(field, v)
    /\ UNCHANGED <<at, email, lastMethod, stored, form, timers, entry, proof>>

ChooseName(n) == at.page = "organization" /\ Answer("orgName", n) /\ UNCHANGED toggled

ChooseSize(z) ==
    /\ at.page = "organization"
    /\ Answer("orgSize", IF answers.orgSize = z THEN None ELSE z) /\ UNCHANGED toggled

ChooseArea(u) ==
    /\ at.page = "use-case"
    /\ Answer("useCases", toggleUseCase(u))
    /\ toggled' = IF u \in toggled THEN toggled \ {u} ELSE toggled \cup {u}

ChooseRegion(r) == at.page = "region" /\ Answer("region", r) /\ UNCHANGED toggled

\* Continue, disabled without a name; the last step has none.
OnboardingContinue ==
    /\ Does /\ nextPath(at.page) # None /\ View.submit
    /\ Push(R(nextPath(at.page), ""), timers)
    /\ UNCHANGED <<stored, entry, proof>>

\* Back, on the two steps in the middle.
OnboardingBack ==
    /\ Does /\ at.page \in {"use-case", "region"}
    /\ Push(R(prevPath(at.page), ""), timers)
    /\ UNCHANGED <<stored, entry, proof>>

-----------------------------------------------------------------------------
(* Time, and the browser.                                                    *)

TimerFires ==
    /\ timers # <<>>
    /\ LET t == Head(timers)
       IN  IF t.kind = "wrong"
           THEN /\ form' = IF t.live THEN [form EXCEPT !.error = TRUE, !.pending = FALSE] ELSE form
                /\ timers' = Tail(timers)
                /\ UNCHANGED <<at, email, lastMethod, answers, toggled>>
           ELSE Push(t.to, Tail(timers))
    /\ UNCHANGED <<stored, entry, proof, steps>>

ResendTick ==
    /\ at.page = "verify-email" /\ form.resendIn > 0
    /\ form' = [form EXCEPT !.resendIn = @ - 1]
    /\ UNCHANGED <<at, email, lastMethod, stored, timers, answers, entry, proof, toggled, steps>>

\* A third of the delay on the single sign-on page.  After the last stage a
\* timer of that length opens the book; it is shorter than the others, so it may
\* end before delays that began earlier, and leaving the page does not clear it.
StageTick ==
    /\ at.page = "sso" /\ form.stage < STAGE_COUNT
    /\ form' = [form EXCEPT !.stage = @ + 1]
    /\ IF form.stage = STAGE_COUNT - 1
       THEN /\ proof' = proof \cup {"provider"}
            /\ \E k \in 1..(Len(timers) + 1) :
                  timers' = InsertAt(timers, k, [kind |-> "go", to |-> R("book", ""), live |-> TRUE])
       ELSE UNCHANGED <<timers, proof>>
    /\ UNCHANGED <<at, email, lastMethod, stored, answers, entry, toggled, steps>>

\* Loading the page again ends every delay and empties both providers.
Reload ==
    /\ Does
    /\ form' = NoForm /\ timers' = <<>> /\ answers' = NoAnswers /\ toggled' = {}
    /\ email' = "" /\ lastMethod' = stored
    /\ UNCHANGED <<at, stored, entry, proof>>

-----------------------------------------------------------------------------
SignInInit ==
    /\ at = R("index", "") /\ entry = None /\ email = "" /\ lastMethod = None /\ stored = None
    /\ form = NoForm /\ timers = <<>> /\ answers = NoAnswers
    /\ proof = {} /\ toggled = {} /\ steps = 0

Typing ==
    \/ \E e \in Emails : SetEmail(e)
    \/ \E p \in Passwords : TypePassword(p) \/ TypeAgain(p)
    \/ ShowPassword

Submitting ==
    \/ SubmitEmail
    \/ SubmitPassword
    \/ SubmitNewPassword
    \/ SubmitForgot
    \/ \E right \in BOOLEAN : handleComplete(right)
    \/ handleResend
    \/ \E p \in ToSet(PROVIDERS) : useProvider(p)

Walking ==
    \/ \E n \in Names : ChooseName(n)
    \/ \E z \in companySizes : ChooseSize(z)
    \/ \E u \in useCases : ChooseArea(u)
    \/ \E r \in regions : ChooseRegion(r)
    \/ OnboardingContinue
    \/ OnboardingBack

Ticking == TimerFires \/ ResendTick \/ StageTick

SignInNext ==
    \/ \E r \in groups : PrototypeIndex(r)
    \/ Follow
    \/ Typing
    \/ Submitting
    \/ Walking
    \/ Ticking

-----------------------------------------------------------------------------
(* Properties.                                                               *)

\* Nobody who came in at the front door sees onboarding without an accepted code
\* and an accepted new password, or the book without a password, a code or a
\* provider, whatever delays of earlier pages are still running (the redirects
\* of sign-in, verify-email, set-password and sso/callback).
FrontDoor ==
    entry = "sign-in" =>
        /\ stepIndex(at.page) > 0 => {"code", "new password"} \subseteq proof
        /\ at.page \in AppPages => proof \cap {"password", "code", "provider"} # {}

\* The chapters counted on the last step are the areas clicked an odd number of
\* times, each once (toggleUseCase, complete's answers.useCases.length).
AreasCounted ==
    /\ ToSet(answers.useCases) = toggled
    /\ Len(answers.useCases) = Cardinality(toggled)

\* Beyond the first step the workspace has a name, however the user came there
\* (canContinue in the organization step).
NamedWorkspace == stepIndex(at.page) > 1 => ~Blank(answers.orgName)

\* The strength meter never contradicts the length rule: three bars only for an
\* acceptable password, and at least two for every acceptable one.
MeterAgrees ==
    at.page = "set-password" =>
        /\ StrengthMeter(form.pw) >= 3 => lengthOk(form)
        /\ lengthOk(form) => StrengthMeter(form.pw) >= 2

\* After a refused password some rule is drawn as failed until the password
\* would be accepted, and none afterwards (Rule's failed colour).
RefusalExplained ==
    at.page = "set-password" /\ form.tried =>
        (SetPasswordView.shows \cap {"too short", "differ"} # {} <=> ~(lengthOk(form) /\ match(form)))

\* The address shown under the name is a well-formed one: no dash at an end, no
\* two in a row, every letter kept (slugify).
SlugClean ==
    at.page = "organization" =>
        LET slug == slugify(answers.orgName)
        IN  /\ slug # <<>> => Head(slug) # "-" /\ Last(slug) # "-"
            /\ \A i \in 1..(Len(slug) - 1) : ~(slug[i] = "-" /\ slug[i + 1] = "-")
            /\ SelectSeq(slug, LAMBDA c : c # "-") = SelectSeq(answers.orgName, LAMBDA c : c = "a")

\* The front door offers every provider once, the one used last first, and
\* remembers it through a reload and through a visit to the app
\* (setLastMethod, AuthFlowProvider's localStorage, ordered).
LastUsedFirst ==
    at.page \in AuthPages =>
        /\ lastMethod = stored
        /\ Len(ordered(lastMethod)) = Len(PROVIDERS) /\ ToSet(ordered(lastMethod)) = ToSet(PROVIDERS)
        /\ lastMethod \in ToSet(PROVIDERS) => Head(ordered(lastMethod)) = lastMethod

\* The funnel lets in nobody it has not asked and carries on nothing it was not
\* told, whatever delays of earlier pages are still running, and its forms say
\* what they hold.
FunnelSound ==
    /\ FrontDoor /\ NamedWorkspace /\ AreasCounted
    /\ MeterAgrees /\ RefusalExplained /\ SlugClean /\ LastUsedFirst
=============================================================================
