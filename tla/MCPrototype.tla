----------------------------- MODULE MCPrototype -----------------------------
(* The prototype for TLC.  What the user is about is fixed from the start:   *)
(* signing in, reading, the frame, administration or the style, each with as *)
(* many steps as shows what can happen there.                                *)
EXTENDS PrototypeApp

Pw(len, variety, text) == [len |-> len, variety |-> variety, text |-> text]

MCEmails == {"", "Known", "known", "new"}
MCLowered == [e \in MCEmails |-> IF e = "Known" THEN "known" ELSE e]
MCPasswords == {Pw(0, 0, "x"), Pw(8, 3, "x"), Pw(12, 1, "x"), Pw(12, 1, "y")}
MCNames == {<<" ", "a", ".", " ", "a", ".">>, <<" ">>}
MCMockName == <<"a">>
MCTitleHas == [q \in {"", "refund", "incident"} |->
                 CASE q = "" -> Ids
                   [] q = "refund" -> {"t-refunds", "s-eu-vat", "s-us-refunds"}
                   [] OTHER -> {"t-incidents"}]
MCPicks == {[field |-> "lightShade", value |-> 13], [field |-> "darkShade", value |-> 1],
            [field |-> "fontId", value |-> "inter"]}

\* What each user has come for, where they begin, and how many of the MaxSteps
\* steps they have spent.
Start(what, p, spent) == about = what /\ at = R(p, "") /\ steps = spent

MCInit ==
    /\ \/ Start({"entering"}, "index", 1)
       \/ Start({"entering"}, "organization", 2)
       \/ Start({"reading"}, "book", 3)
       \/ Start({"frame"}, "book", 4)
       \/ Start({"frame", "entering"}, "book", 5)
       \/ Start({"administering"}, "members", 3)
       \/ Start({"style"}, "signed-out", 2)
    /\ entry = IF at.page = "index" THEN None ELSE at.page
    /\ email = "" /\ lastMethod = None /\ stored = None
    /\ form = NoForm /\ timers = <<>> /\ answers = NoAnswers
    /\ proof = {} /\ toggled = {}
    /\ cookie = (IF about = {"frame", "entering"} THEN "true" ELSE "unset")
    /\ StyleInit /\ local = NoLocal /\ frame = NoFrame(cookie)

MCSpec == MCInit /\ [][Next]_vars
=============================================================================
