------------------------------ MODULE MCAppAuth ------------------------------
(***************************************************************************)
(* A small instance of AppAuth for TLC: two threads, two owners with an    *)
(* installation each, both hosting a repository of the same name, and one  *)
(* with none.                                                              *)
(***************************************************************************)
EXTENDS AppAuth, TLC

CONSTANTS c1, c2, contents, acme, other, nobody, site, gone, own, legacy, acmeSite, legacySite

MCCall     == {c1, c2}
MCSymmetry == Permutations(MCCall)
MCOwner    == {acme, other, nobody}
MCName     == {site, gone}
MCInst     == {own, legacy}
MCPermName == {contents}
MCInstallations == [o \in {acme, other} |-> IF o = acme THEN own ELSE legacy]
MCHosted == [i \in {own, legacy} |-> [n \in {site, gone} |->
               IF n = gone THEN NoRepo ELSE IF i = own THEN acmeSite ELSE legacySite]]

Perms(l) == [n \in {contents} |-> l]
Asking(o, n, p, f) == [owner |-> o, name |-> n, permissions |-> p, force |-> f]

MCConfigDefault == Perms(Write)

\* One scope asked for by name and by default, a narrower one, a refresh, the
\* same name under the other owner, and a repository that does not exist.
MCAsks ==
  {Asking(acme, site, NoPerms, FALSE), Asking(acme, site, Perms(Write), TRUE),
   Asking(acme, site, Perms(Read), FALSE), Asking(other, site, Perms(Write), FALSE),
   Asking(acme, gone, NoPerms, FALSE), Asking(nobody, site, Perms(Read), FALSE)}
=============================================================================
