------------------------------- MODULE MCBroker -------------------------------
(***************************************************************************)
(* A small instance of Broker for TLC: two connections, two owners with a  *)
(* repository of the same name, asked for in two spellings, a legacy "*"   *)
(* installation on the account of one of them that serves both, and two    *)
(* policies.                                                               *)
(***************************************************************************)
EXTENDS Broker

CONSTANTS c1, c2, contents, issues, acme, beta, infra, Infra, inst,
          acmeInfra, betaInfra, every, acmeOnly

MCCall     == {c1, c2}
MCPermName == {contents, issues}
MCOwner    == {acme, beta}
MCName     == {infra, Infra}
MCInst     == {inst}
MCRepo     == {acmeInfra, betaInfra}
MCGlob     == {every, acmeOnly}
MCMatches  == [g \in MCGlob |-> IF g = every THEN MCRepo ELSE {acmeInfra}]
MCSample   == [g \in MCGlob |-> IF g = every THEN betaInfra ELSE acmeInfra]
MCLowered  == [o \in MCOwner |-> [n \in MCName |->
                 IF o = acme THEN acmeInfra ELSE betaInfra]]
MCAccount  == [i \in MCInst |-> acme]
MCHosted   == [i \in MCInst |-> [n \in MCName |-> MCLowered[acme][n]]]
MCInstallations == [o \in {AnyOwner} |-> inst]
MCAsks     == Ask

Only(n, l) == [x \in {n} |-> l]
Both(l, m) == [n \in MCPermName |-> IF n = contents THEN l ELSE m]

MCConfigDefault == Both(Write, Write)

\* The first removes the one default permission for acme/infra.
Loose ==
  [allowed_repos |-> <<every>>, max_permissions |-> Both(Write, Write),
   default_permissions |-> Only(contents, Read),
   repo_max_permissions |-> Only(acmeOnly, Only(contents, None))]
Tight ==
  [allowed_repos |-> <<acmeOnly>>, max_permissions |-> Only(contents, Read),
   default_permissions |-> Only(contents, Read),
   repo_max_permissions |-> <<>>]
MCPolicies == {Loose, Tight}

Post(o, n, p, f) == [owner |-> o, name |-> n, permissions |-> p, force |-> f]

\* The default for a repository under another spelling, and another owner's
\* repository of that name: Loose allows it, and GitHub mints for acme's.
MCRequests ==
  {Post(acme, Infra, NoPerms, TRUE), Post(beta, infra, Only(contents, Write), FALSE)}
=============================================================================
