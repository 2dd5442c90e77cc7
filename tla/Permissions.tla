---------------------------- MODULE Permissions ----------------------------
(***************************************************************************)
(* Permission levels and permission mappings, as broker.py ranks and       *)
(* compares them.  A level is its rank; a Python dict from permission      *)
(* names to levels is a function whose domain is a set of names.           *)
(***************************************************************************)
EXTENDS Integers

CONSTANT PermName       \* names of GitHub App permissions ("contents", ...)

\* The ranks of _PERMISSION_LEVELS and _OVERRIDE_LEVELS.  Every other string
\* ranks 99 where a request or a default is compared ("none" included: it is
\* a level only in an override).
None         == 0
Read         == 1
Write        == 2
Admin        == 3
UnknownLevel == 99

CapLevel      == {Read, Write, Admin}
OverrideLevel == CapLevel \cup {None}
AskLevel      == CapLevel \cup {UnknownLevel}
AnyLevel      == OverrideLevel \cup AskLevel

\* All mappings from some permission names to levels of L.
PermMap(L) == UNION {[S -> L] : S \in SUBSET PermName}

NoPerms == [n \in {} |-> None]

\* p gives no more than q: every permission of p is in q, at least as high.
Within(p, q) == \A n \in DOMAIN p : n \in DOMAIN q /\ p[n] <= q[n]
=============================================================================
