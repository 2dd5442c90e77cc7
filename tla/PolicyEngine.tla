---------------------------- MODULE PolicyEngine ----------------------------
(***************************************************************************)
(* load_policy and Policy.evaluate as they run (broker.py): the file is    *)
(* validated once, and each question lowers a copy of max_permissions by   *)
(* one override entry after another before the verdict is taken from it.   *)
(* The code walks the overrides in the order of the file; the model takes  *)
(* them in every order.                                                    *)
(***************************************************************************)
EXTENDS Policy

CONSTANT PolicyFile     \* the policy files the broker may be started with

ASSUME PolicyFileAssumption == PolicyFile \subseteq RawPolicy

VARIABLES
  file,       \* the policy file read
  policy,     \* the Policy built from it
  pc,         \* "starting", "refused", "idle", "asked", "lowering", "decided"
  question,   \* the arguments of evaluate
  effective,  \* the local dict of _effective_max
  todo,       \* the override globs _effective_max has yet to visit
  verdict     \* the result of evaluate

vars == <<file, policy, pc, question, effective, todo, verdict>>

Question == [repo : Repo, requested : PermMap(AskLevel)]

Phase == {"starting", "refused", "idle", "asked", "lowering", "decided"}

\* The policy is the one its file describes, and the engine is well typed
\* (broker.py:56-66, 142-181).
TypeOK ==
  /\ file \in PolicyFile
  /\ policy = policy_of(file)
  /\ pc \in Phase
  /\ question \in Question
  /\ effective \in PermMap(OverrideLevel)
  /\ todo \subseteq DOMAIN policy.repo_max_permissions
  /\ verdict \in Verdict

Init ==
  /\ file \in PolicyFile
  /\ policy = policy_of(file)
  /\ pc = "starting"
  /\ question \in Question
  /\ effective = NoPerms
  /\ todo = {}
  /\ verdict = Denied("permission")

Serve ==
  /\ pc = "starting"
  /\ accepts(file)
  /\ pc' = "idle"
  /\ UNCHANGED <<file, policy, question, effective, todo, verdict>>

Refuse ==
  /\ pc = "starting"
  /\ ~ accepts(file)
  /\ pc' = "refused"
  /\ UNCHANGED <<file, policy, question, effective, todo, verdict>>

Ask(q) ==
  /\ pc \in {"idle", "decided"}
  /\ pc' = "asked"
  /\ question' = q
  /\ UNCHANGED <<file, policy, effective, todo, verdict>>

RejectRepo ==
  /\ pc = "asked"
  /\ ~ repo_allowed(policy, question.repo)
  /\ pc' = "decided"
  /\ verdict' = Denied("repo_not_in_policy")
  /\ UNCHANGED <<file, policy, question, effective, todo>>

CopyMax ==
  /\ pc = "asked"
  /\ repo_allowed(policy, question.repo)
  /\ pc' = "lowering"
  /\ effective' = policy.max_permissions
  /\ todo' = DOMAIN policy.repo_max_permissions
  /\ UNCHANGED <<file, policy, question, verdict>>

\* mutant: an override is applied whether or not it is lower
LoweredAlways(caps) ==
  [n \in DOMAIN effective |-> IF n \in DOMAIN caps THEN caps[n] ELSE effective[n]]

\* mutant: an override may add a permission the maximum does not have
LoweredAdding(caps) ==
  [n \in DOMAIN effective \cup DOMAIN caps |->
     IF n \in DOMAIN effective /\ (n \in DOMAIN caps => caps[n] >= effective[n])
     THEN effective[n] ELSE caps[n]]

\* One override entry: only names already in the dict, only downwards.
lowered(caps) ==
  [n \in DOMAIN effective |->
     IF n \in DOMAIN caps /\ caps[n] < effective[n] THEN caps[n] ELSE effective[n]]

ApplyOverride(g) ==
  /\ pc = "lowering"
  /\ g \in todo
  /\ todo' = todo \ {g}
  /\ effective' = IF question.repo \in Matches[g]
                  THEN lowered(policy.repo_max_permissions[g])
                  ELSE effective
  /\ UNCHANGED <<file, policy, pc, question, verdict>>

Decide ==
  /\ pc = "lowering"
  /\ todo = {}
  /\ pc' = "decided"
  /\ verdict' = judge(policy, effective, question.requested)
  /\ UNCHANGED <<file, policy, question, effective, todo>>

Next ==
  \/ Serve
  \/ Refuse
  \/ \E q \in Question : Ask(q)
  \/ RejectRepo
  \/ CopyMax
  \/ \E g \in Glob : ApplyOverride(g)
  \/ Decide

Spec == Init /\ [][Next]_vars

-----------------------------------------------------------------------------
\* The inductive invariant: while the loop runs, effective holds the least of
\* the caps visited so far, and a decided verdict is that of evaluate.
VisitedCaps(n) ==
  {policy.max_permissions[n]} \cup
  {policy.repo_max_permissions[g][n] :
     g \in {h \in DOMAIN policy.repo_max_permissions \ todo :
              /\ question.repo \in Matches[h]
              /\ n \in DOMAIN policy.repo_max_permissions[h]}}

ServedInv == pc \notin {"starting", "refused"} => accepts(file)

LoopInv ==
  pc = "lowering" =>
    /\ repo_allowed(policy, question.repo)
    /\ DOMAIN effective = DOMAIN policy.max_permissions
    /\ \A n \in DOMAIN effective :
         /\ effective[n] \in VisitedCaps(n)
         /\ \A m \in VisitedCaps(n) : effective[n] <= m

VerdictInv ==
  pc = "decided" =>
    verdict = evaluate(policy, question.repo, question.requested)

IInv == TypeOK /\ ServedInv /\ LoopInv /\ VerdictInv

-----------------------------------------------------------------------------
\* Nothing is granted beyond the global maximum or beyond any override that
\* matches the repository, whatever the defaults or the request were, and
\* nothing at all for a repository no pattern allows (broker.py:56-121).
GrantWithinCeiling ==
  pc = "decided" /\ verdict.allowed =>
    /\ repo_allowed(policy, question.repo)
    /\ \A n \in DOMAIN verdict.granted :
         /\ n \in DOMAIN policy.max_permissions
         /\ verdict.granted[n] <= policy.max_permissions[n]
         /\ \A g \in DOMAIN policy.repo_max_permissions :
              question.repo \in Matches[g]
                /\ n \in DOMAIN policy.repo_max_permissions[g]
              => /\ policy.repo_max_permissions[g][n] # None
                 /\ verdict.granted[n] <= policy.repo_max_permissions[g][n]

\* "Requests exceeding policy are DENIED, not silently clamped" (broker.py:17):
\* an explicit request is granted as it was made or not at all, and it is
\* refused only when the repository or one of the levels is over the line.
DeniedNotClamped ==
  pc = "decided" /\ question.requested # NoPerms =>
    IF verdict.allowed THEN verdict.granted = question.requested
    ELSE \/ ~ repo_allowed(policy, question.repo)
         \/ \E n \in DOMAIN question.requested :
              \/ n \notin DOMAIN policy.max_permissions
              \/ question.requested[n] > policy.max_permissions[n]
              \/ \E g \in DOMAIN policy.repo_max_permissions :
                   /\ question.repo \in Matches[g]
                   /\ n \in DOMAIN policy.repo_max_permissions[g]
                   /\ question.requested[n] > policy.repo_max_permissions[g][n]

\* "Tightening only: an override can lower or remove ... never add"
\* (broker.py:63-65): whatever is granted would also be granted, at least as
\* high, by the same policy with no overrides at all.
OverridesOnlyTighten ==
  pc = "decided" /\ verdict.allowed =>
    LET open == evaluate([policy EXCEPT !.repo_max_permissions = <<>>],
                         question.repo, question.requested)
    IN  open.allowed /\ Within(verdict.granted, open.granted)

-----------------------------------------------------------------------------
\* The engine computes, entry by entry, the decision PolicyDecision makes in
\* one step: a file is accepted or refused, and a verdict taken, as there.
D == INSTANCE PolicyDecision
       WITH phase <- IF pc = "lowering" THEN "asked" ELSE pc

ImplementsDecision == D!Spec

-----------------------------------------------------------------------------
\* "All matching globs apply; lowest wins" (broker.py:65), read on the file as
\* far as it holds: no grant is above a cap the file sets for a pattern that
\* matches, unless a later entry has the same key but for its case
\* (broker.py:133-139).
FileEntriesApply ==
  pc = "decided" /\ verdict.allowed =>
    \A i \in DOMAIN file.repo_max_permissions :
      LET entry == file.repo_max_permissions[i]
          replaced == \E j \in DOMAIN file.repo_max_permissions :
                        j > i /\ file.repo_max_permissions[j].glob = entry.glob
      IN  question.repo \in Matches[entry.glob] /\ ~ replaced =>
            \A n \in DOMAIN verdict.granted \cap DOMAIN entry.caps :
              verdict.granted[n] <= entry.caps[n]

\* "Defaults must themselves satisfy the ceiling - fail at load, not at mint"
\* (broker.py:177), as far as it holds: a client that names no permissions gets
\* every default in full, whatever its repository, unless an override of that
\* repository lowers it, or the first pattern does not match the name load_policy
\* made of it to try the defaults on (broker.py:178-180).
DefaultsHoldAtMint ==
  /\ pc = "decided" /\ verdict.allowed /\ question.requested = NoPerms
  /\ repo_allowed(policy, Sample[policy.allowed_repos[1]])
  => \A n \in DOMAIN policy.default_permissions :
       \/ n \in DOMAIN verdict.granted
            /\ verdict.granted[n] = policy.default_permissions[n]
       \/ \E g \in DOMAIN policy.repo_max_permissions :
            /\ question.repo \in Matches[g]
            /\ n \in DOMAIN policy.repo_max_permissions[g]
            /\ policy.repo_max_permissions[g][n] < policy.default_permissions[n]
=============================================================================
