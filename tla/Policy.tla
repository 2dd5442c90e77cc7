------------------------------- MODULE Policy -------------------------------
(***************************************************************************)
(* The minting policy of the broker (broker.py): what a policy file holds, *)
(* how it is parsed and validated, and the decision it gives for a         *)
(* repository and a requested permission mapping.                          *)
(***************************************************************************)
EXTENDS Permissions, Sequences

CONSTANTS
  Repo,      \* OWNER/REPO names, lowercased
  Glob,      \* OWNER/REPO fnmatch patterns, lowercased
  Matches,   \* fnmatch: the repositories a pattern matches
  Sample     \* a pattern with every "*" replaced by "x", as a repository name

ASSUME PolicyAssumption ==
  /\ Matches \in [Glob -> SUBSET Repo]
  /\ Sample \in [Glob -> Repo]

\* A policy file as YAML gives it.  Override keys are lowercased by the parser,
\* so two entries of a file may carry the same glob.
RawPolicy ==
  [allowed_repos        : Seq(Glob),
   max_permissions      : PermMap(AnyLevel),
   default_permissions  : PermMap(AskLevel),
   repo_max_permissions : Seq([glob : Glob, caps : PermMap(AnyLevel)])]

OverrideMap == UNION {[S -> PermMap(OverrideLevel)] : S \in SUBSET Glob}

PolicyRecord ==
  [allowed_repos        : Seq(Glob),
   max_permissions      : PermMap(CapLevel),
   default_permissions  : PermMap(AskLevel),
   repo_max_permissions : OverrideMap]

\* What evaluate returns; a reason is kept only as far as load_policy looks.
Reason  == {"granted", "repo_not_in_policy", "permission"}
Verdict == [allowed : BOOLEAN, reason : Reason, granted : PermMap(AskLevel)]

Denied(why) == [allowed |-> FALSE, reason |-> why, granted |-> NoPerms]

repo_allowed(p, r) ==
  \E i \in DOMAIN p.allowed_repos : r \in Matches[p.allowed_repos[i]]

-----------------------------------------------------------------------------
\* The levels a name is held to for r: the global maximum and every matching
\* override that mentions it.
Caps(p, r, n) ==
  {p.max_permissions[n]} \cup
  {p.repo_max_permissions[g][n] :
     g \in {h \in DOMAIN p.repo_max_permissions :
              r \in Matches[h] /\ n \in DOMAIN p.repo_max_permissions[h]}}

Least(S) == CHOOSE l \in S : \A m \in S : l <= m

effective_max(p, r) ==
  [n \in DOMAIN p.max_permissions |-> Least(Caps(p, r, n))]

\* An empty request: the defaults, each lowered to its cap, those without a
\* cap or capped at "none" left out.
default_grant(defaults, caps) ==
  [n \in {m \in DOMAIN defaults \cap DOMAIN caps : caps[m] # None} |->
     IF defaults[n] > caps[n] THEN caps[n] ELSE defaults[n]]

\* mutant: a request above its cap is clamped to it instead of denied
JudgeClamping(p, caps, requested) ==
  [allowed |-> TRUE, reason |-> "granted",
   granted |-> default_grant(IF requested = NoPerms THEN p.default_permissions
                             ELSE requested, caps)]

\* mutant: defaults are granted as they stand
JudgeUnclampedDefaults(p, caps, requested) ==
  IF requested = NoPerms \/ Within(requested, caps)
  THEN [allowed |-> TRUE, reason |-> "granted",
        granted |-> IF requested = NoPerms THEN p.default_permissions
                    ELSE requested]
  ELSE Denied("permission")

\* The part of evaluate after the repository check, given the ceiling.
\* (A cap of None is below every level a request can name.)
judge(p, caps, requested) ==
  IF requested = NoPerms
  THEN [allowed |-> TRUE, reason |-> "granted",
        granted |-> default_grant(p.default_permissions, caps)]
  ELSE IF Within(requested, caps)
       THEN [allowed |-> TRUE, reason |-> "granted", granted |-> requested]
       ELSE Denied("permission")

evaluate(p, r, requested) ==
  IF repo_allowed(p, r)
  THEN judge(p, effective_max(p, r), requested)
  ELSE Denied("repo_not_in_policy")

-----------------------------------------------------------------------------
\* mutant: an earlier entry with the same lowercased key stays
FirstWith(entries, g) ==
  CHOOSE i \in DOMAIN entries :
    /\ entries[i].glob = g
    /\ \A j \in DOMAIN entries : entries[j].glob = g => i <= j

\* _parse_repo_overrides: a later entry with the same lowercased key replaces
\* the earlier one.
LastWith(entries, g) ==
  CHOOSE i \in DOMAIN entries :
    /\ entries[i].glob = g
    /\ \A j \in DOMAIN entries : entries[j].glob = g => j <= i

parse_repo_overrides(entries) ==
  [g \in {entries[i].glob : i \in DOMAIN entries} |->
     entries[LastWith(entries, g)].caps]

policy_of(raw) ==
  [raw EXCEPT !.repo_max_permissions = parse_repo_overrides(@)]

\* mutant: the levels of the maximum are not checked
WellFormedAnyMax(raw) ==
  /\ raw.allowed_repos # <<>>
  /\ DOMAIN raw.max_permissions # {} /\ DOMAIN raw.default_permissions # {}
  /\ \A i \in DOMAIN raw.repo_max_permissions :
       LET caps == raw.repo_max_permissions[i].caps
       IN  DOMAIN caps # {} /\ \A n \in DOMAIN caps : caps[n] \in OverrideLevel

\* The shape checks of load_policy and _parse_repo_overrides.
well_formed(raw) ==
  /\ raw.allowed_repos # <<>>
  /\ DOMAIN raw.max_permissions # {}
  /\ \A n \in DOMAIN raw.max_permissions : raw.max_permissions[n] \in CapLevel
  /\ DOMAIN raw.default_permissions # {}
  /\ \A i \in DOMAIN raw.repo_max_permissions :
       LET caps == raw.repo_max_permissions[i].caps
       IN  DOMAIN caps # {} /\ \A n \in DOMAIN caps : caps[n] \in OverrideLevel

\* mutant: the defaults are not tried
AcceptsUntried(raw) == well_formed(raw)

\* load_policy succeeds: the defaults are tried on a repository made from the
\* first pattern, and a pattern that does not match its own sample passes.
accepts(raw) ==
  /\ well_formed(raw)
  /\ LET v == evaluate(policy_of(raw), Sample[raw.allowed_repos[1]],
                       raw.default_permissions)
     IN  v.allowed \/ v.reason = "repo_not_in_policy"
=============================================================================
