---------------------------- MODULE MCWorkspace ----------------------------
(* A source connected with a token, one connected at its provider, three    *)
(* files of which two are listed, and an audit log of a full page.          *)
EXTENDS Workspace

MCStreams == {"connections", "pat", "oauth"}
MCTokens == {"pat"}
MCOauths == {"oauth"}
MCFiles == {"f1", "f2", "f3"}
MCWorkspaces == {"acme", "apex"}

MCFileOf == [f \in Files |->
    CASE f = "f1" -> [conn |-> "pat", project |-> "web", json |-> TRUE, age |-> 0]
      [] f = "f2" -> [conn |-> "pat", project |-> "docs", json |-> FALSE, age |-> 1]
      [] OTHER -> [conn |-> "oauth", project |-> "web", json |-> FALSE, age |-> 2]]

\* What a user is up to: where they start, where they go from there, the rows
\* of the two sources, and how many visits, calls, failures, events, keys and
\* faults there may be.
Scene(at, where, pat, oauth, budget) ==
    [at |-> at, where |-> where, db |-> [c \in Conns |-> IF c = "pat" THEN pat ELSE oauth],
     budget |-> budget]

Scenes ==
    {Scene(Loc("connect", "github_pat"), {"list"}, "absent", "absent", <<1, 1, 0, 0, 0, 0>>),
     Scene(Loc("connect", "github_pat"), {"list"}, "new", "absent", <<0, 2, 0, 0, 0, 0>>),
     Scene(Page("new"), {"list", "connect"}, "idle", "absent", <<1, 1, 0, 0, 0, 0>>),
     Scene(Loc("connect", "github_pat"), {}, "absent", "absent", <<0, 1, 1, 1, 0, 0>>),
     Scene(Page("new"), {}, "idle", "absent", <<0, 1, 1, 0, 0, 0>>),
     Scene(Loc("list", "pat"), {"list", "manage", "detail"}, "new", "absent", <<2, 0, 0, 0, 0, 0>>),
     Scene(Loc("list", "pat"), {"list"}, "new", "absent", <<0, 0, 0, 0, 0, 1>>),
     Scene(Loc("list", "pat"), {"home"}, "ready", "absent", <<1, 0, 1, 1, 0, 0>>),
     Scene(Page("list"), {"detail", "new"}, "idle", "ready", <<1, 0, 1, 0, 0, 0>>),
     Scene(Loc("detail", "pat"), {"manage"}, "idle", "absent", <<0, 1, 1, 1, 0, 0>>),
     Scene(Loc("detail", "pat"), {"files"}, "syncing", "absent", <<1, 1, 0, 0, 0, 0>>),
     Scene(Loc("detail", "pat"), {}, "idle", "absent", <<0, 0, 0, 1, 0, 1>>),
     Scene(Loc("manage", "pat"), {"detail"}, "ready", "absent", <<1, 0, 0, 1, 0, 0>>),
     Scene(Page("settings"), {}, "idle", "absent", <<0, 2, 0, 0, 0, 0>>),
     Scene(Page("settings"), {}, "idle", "absent", <<0, 1, 1, 1, 0, 0>>),
     Scene(Page("settings"), {"members", "settings"}, "idle", "absent", <<2, 1, 0, 0, 0, 0>>),
     Scene(Page("members"), {"settings"}, "idle", "absent", <<1, 0, 2, 0, 0, 0>>),
     Scene(Page("audit"), {"home", "audit"}, "idle", "absent", <<2, 0, 0, 2, 0, 0>>),
     Scene(Page("audit"), {}, "idle", "absent", <<0, 0, 1, 2, 0, 0>>),
     Scene(Loc("files", "pat"), {"files", "file"}, "idle", "absent", <<2, 0, 0, 0, 0, 0>>),
     Scene(Page("files"), {"file"}, "idle", "absent", <<1, 0, 1, 0, 0, 0>>),
     Scene(Page("home"), {"account", "list"}, "idle", "absent", <<1, 0, 0, 0, 4, 0>>),
     Scene(Page("home"), {}, "idle", "absent", <<1, 0, 2, 1, 1, 0>>)}

MCInit ==
    \E s \in Scenes :
        /\ route = s.at /\ tour = s.where /\ db = s.db
        /\ WorkspaceInit
        /\ made = MaxCalls - s.budget[2]
        /\ <<MaxVisits - visits, MaxFails - fails, MaxEvents - events, MaxKeys - keys,
             MaxFaults - faults>>
             = <<s.budget[1], s.budget[3], s.budget[4], s.budget[5], s.budget[6]>>

MCSpec == MCInit /\ [][WorkspaceNext]_vars /\ WorkspaceFairness
=============================================================================
