------------------------------ MODULE MCGateway ------------------------------
(***************************************************************************)
(* A small instance of Gateway for TLC: two callers and two connections,   *)
(* so that one may be abandoned while the other is in use; one operation   *)
(* of each kind, on two repositories; two policies.                        *)
(***************************************************************************)
EXTENDS Gateway

CONSTANTS k1, k2, s1, s2, contents, issues, app, infra, every, infraOnly

MCCaller   == {k1, k2}
MCConn     == {s1, s2}
MCPermName == {contents, issues}
MCRepo     == {app, infra}
MCGlob     == {every, infraOnly}
MCMatches  == [g \in MCGlob |-> IF g = every THEN MCRepo ELSE {infra}]
MCSample   == [g \in MCGlob |-> IF g = every THEN app ELSE infra]

Only(n, l) == [x \in {n} |-> l]
Both(l, m) == [n \in MCPermName |-> IF n = contents THEN l ELSE m]

MCDefaultGrant == Both(Write, Write)
MCNoQuestion   == [repo |-> app, permissions |-> NoPerms]

Loose ==
  [allowed_repos |-> <<every>>, max_permissions |-> Both(Write, Write),
   default_permissions |-> Only(contents, Read),
   repo_max_permissions |-> Only(infraOnly, Only(contents, Read))]
Tight ==
  [allowed_repos |-> <<infraOnly>>, max_permissions |-> Only(contents, Write),
   default_permissions |-> Only(contents, Read),
   repo_max_permissions |-> <<>>]
MCPolicies == {Loose, Tight}

In(socket, url, local, cmd) ==
  [socket |-> socket, url |-> url, app |-> local, key_cmd |-> cmd]
MCEnvironments == {In(TRUE, TRUE, FALSE, FALSE),
                   In(FALSE, FALSE, TRUE, FALSE), In(FALSE, FALSE, TRUE, TRUE)}
MCURLOnly      == {In(FALSE, TRUE, TRUE, FALSE)}

Do(kind, r, p) == [kind |-> kind, repo |-> r, permissions |-> p]

\* gh-app names no permissions, git-app those it needs; a tool writes issues,
\* `ghapp doctor` probes, `ghapp api` calls /app. The credential helper's course
\* is that of gh-app, but that it starts no child.
MCOperations ==
  [k \in MCCaller |->
     IF k = k1
     THEN {Do("gh_app", infra, NoPerms), Do("git_app", infra, Only(contents, Read))}
     ELSE {Do("api", app, Only(issues, Write)), Do("doctor", infra, Only(contents, Read)),
           Do("app_command", app, NoPerms)}]

\* The tools that call /app, and the wrapper of git.
MCAppOperations ==
  [k \in MCCaller |->
     {Do("app_tool", app, NoPerms), Do("verify", infra, Only(contents, Read))}]
MCGitOperations ==
  [k \in MCCaller |-> {Do("git_app", infra, Only(contents, Read))}]
=============================================================================
