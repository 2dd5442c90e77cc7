--------------------------- MODULE MCPolicyEngine ---------------------------
(***************************************************************************)
(* A small instance of PolicyEngine for TLC: two permissions, a repository *)
(* matched by one pattern only, one matched by two, one by none.           *)
(***************************************************************************)
EXTENDS PolicyEngine

CONSTANTS contents, issues, app, infra, other, every, infraOnly, class

MCPermName == {contents, issues}
MCRepo     == {app, infra, other}
MCGlob     == {every, infraOnly, class}

\* "o/*" matches o/app and o/infra; "o/infra" only itself; the character class
\* "o/[ai]*" matches both, but not the name "o/[ai]x" its sample is made into.
MCMatches == [g \in MCGlob |-> IF g = infraOnly THEN {infra} ELSE {app, infra}]
MCSample  == [g \in MCGlob |-> IF g = every THEN app
                               ELSE IF g = infraOnly THEN infra ELSE other]

Both(l, m) == [n \in MCPermName |-> IF n = contents THEN l ELSE m]
Only(n, l) == [x \in {n} |-> l]

Entry(g, caps) == [glob |-> g, caps |-> caps]

MaxMaps     == {Only(contents, Write), Both(Write, Read), Both(Admin, Write)}
DefaultMaps == {Only(contents, Read), Both(Read, Write), Only(issues, UnknownLevel)}
OverrideSeqs ==
  {<<>>,
   <<Entry(every, Only(contents, Read))>>,
   <<Entry(infraOnly, Both(None, Admin))>>,
   <<Entry(every, Both(Read, Read)), Entry(infraOnly, Only(contents, Write))>>,
   <<Entry(infraOnly, Only(contents, None)), Entry(every, Both(Write, Read)),
     Entry(class, Only(issues, None))>>,
   <<Entry(every, Only(contents, Read)), Entry(every, Only(issues, Read))>>,
   <<Entry(every, Only(contents, UnknownLevel))>>}

File(repos, max, defaults, overrides) ==
  [allowed_repos |-> repos, max_permissions |-> max,
   default_permissions |-> defaults, repo_max_permissions |-> overrides]

MCPolicyFile ==
  {File(repos, max, defaults, overrides) :
     repos \in {<<every>>, <<infraOnly>>, <<class, infraOnly>>},
     max \in MaxMaps, defaults \in DefaultMaps, overrides \in OverrideSeqs}
  \cup {File(<<every>>, Both(None, Write), Only(issues, Read), <<>>),
        File(<<every>>, Both(UnknownLevel, Write), Only(issues, Read), <<>>),
        File(<<>>, Both(Read, Write), Only(issues, Read), <<>>)}
=============================================================================
