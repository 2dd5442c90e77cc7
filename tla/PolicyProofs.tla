---------------------------- MODULE PolicyProofs ----------------------------
(***************************************************************************)
(* Proofs about PolicyEngine, for every set of repositories, patterns,     *)
(* permission names and policy files: type correctness, the ceiling, and   *)
(* that the loop over the overrides computes the one-step decision of      *)
(* PolicyDecision.                                                         *)
(***************************************************************************)
EXTENDS PolicyEngine, PolicyLemmas

-----------------------------------------------------------------------------
\* A served policy is a well-formed one.
LEMMA ServedPolicy ==
  ASSUME TypeOK, ServedInv, pc \notin {"starting", "refused"}
  PROVE  policy \in PolicyRecord
BY PolicyFileAssumption, PolicyOfType DEF TypeOK, ServedInv, accepts

LEMMA InitInv == Init => IInv
<1> SUFFICES ASSUME Init PROVE IInv
  OBVIOUS
<1>1. TypeOK
  BY NoPermsType DEF Init, TypeOK, Phase, Verdict, Reason, Denied
<1> QED
  BY <1>1 DEF Init, IInv, ServedInv, LoopInv, VerdictInv

\* Copying the maximum starts the loop with no override visited.
LEMMA CopyMaxInv ==
  ASSUME IInv, CopyMax
  PROVE  IInv'
<1>1. policy \in PolicyRecord
  BY ServedPolicy DEF IInv, CopyMax
<1>2. policy.max_permissions \in PermMap(CapLevel)
  BY <1>1 DEF PolicyRecord
<1>3. /\ policy.max_permissions \in PermMap(OverrideLevel)
      /\ \A n \in DOMAIN policy.max_permissions : policy.max_permissions[n] \in Int
  BY <1>2, PermMapElim, PermMapIntro, OverrideLevelInt
<1>4. TypeOK'
  BY <1>3 DEF IInv, TypeOK, CopyMax, Phase
<1>5. LoopInv'
  <2>1. \A n : VisitedCaps(n)' = {policy.max_permissions[n]}
    BY DEF CopyMax, VisitedCaps
  <2> QED
    BY <1>3, <2>1 DEF CopyMax, LoopInv
<1> QED
  BY <1>4, <1>5 DEF IInv, CopyMax, ServedInv, VerdictInv

\* Visiting one more override keeps effective the least of the caps visited.
LEMMA ApplyOverrideInv ==
  ASSUME IInv, NEW g \in Glob, ApplyOverride(g)
  PROVE  IInv'
<1> DEFINE ov == policy.repo_max_permissions
           hit(n) == question.repo \in Matches[g] /\ n \in DOMAIN ov[g]
<1>1. policy \in PolicyRecord
  BY ServedPolicy DEF IInv, ApplyOverride
<1>2. /\ g \in DOMAIN ov
      /\ ov[g] \in PermMap(OverrideLevel)
      /\ \A n \in DOMAIN ov[g] : ov[g][n] \in OverrideLevel
  <2>1. g \in DOMAIN ov
    BY DEF IInv, TypeOK, ApplyOverride
  <2>2. ov[g] \in PermMap(OverrideLevel)
    BY <1>1, <2>1 DEF PolicyRecord, OverrideMap
  <2> QED
    BY <2>1, <2>2, PermMapElim
<1>3. /\ effective \in PermMap(OverrideLevel)
      /\ DOMAIN effective \subseteq PermName
      /\ effective = [n \in DOMAIN effective |-> effective[n]]
      /\ \A n \in DOMAIN effective : effective[n] \in OverrideLevel
  BY PermMapElim DEF IInv, TypeOK
<1>4. /\ DOMAIN effective' = DOMAIN effective
      /\ effective' = [n \in DOMAIN effective' |-> effective'[n]]
      /\ \A n \in DOMAIN effective :
           effective'[n] = IF hit(n) /\ ov[g][n] < effective[n]
                           THEN ov[g][n] ELSE effective[n]
  BY <1>3 DEF ApplyOverride, lowered
<1>5. \A n \in DOMAIN effective : effective'[n] \in OverrideLevel
  BY <1>2, <1>3, <1>4
<1>6. TypeOK'
  <2>1. effective' \in PermMap(OverrideLevel)
    BY <1>3, <1>4, <1>5, PermMapIntro
  <2> QED
    BY <2>1 DEF IInv, TypeOK, ApplyOverride
<1>7. ASSUME NEW n
      PROVE  VisitedCaps(n)' = VisitedCaps(n) \cup IF hit(n) THEN {ov[g][n]} ELSE {}
  <2>1. (DOMAIN ov \ todo)' = (DOMAIN ov \ todo) \cup {g}
    BY <1>2 DEF ApplyOverride
  <2>2. policy' = policy /\ question' = question
    BY DEF ApplyOverride
  <2> QED
    BY <2>1, <2>2 DEF VisitedCaps
<1>8. LoopInv'
  <2>1. /\ repo_allowed(policy, question.repo)
        /\ DOMAIN effective = DOMAIN policy.max_permissions
        /\ \A n \in DOMAIN effective :
             /\ effective[n] \in VisitedCaps(n)
             /\ \A m \in VisitedCaps(n) : effective[n] <= m
    BY DEF IInv, LoopInv, ApplyOverride
  <2>2. ASSUME NEW n \in DOMAIN effective
        PROVE  /\ effective'[n] \in VisitedCaps(n)'
               /\ \A m \in VisitedCaps(n)' : effective'[n] <= m
    <3>1. effective[n] \in Int /\ (hit(n) => ov[g][n] \in Int)
      BY <1>2, <1>3, OverrideLevelInt
    <3>2. VisitedCaps(n) \subseteq Int
      <4>1. VisitedCaps(n) \subseteq Caps(policy, question.repo, n)
        BY DEF VisitedCaps, Caps
      <4> QED
        BY <1>1, <2>1, <4>1, CapsType, OverrideLevelInt
    <3>3. effective'[n] = IF hit(n) /\ ov[g][n] < effective[n]
                          THEN ov[g][n] ELSE effective[n]
      BY <1>4
    <3> HIDE DEF hit, ov
    <3> QED
      BY <1>7, <2>1, <3>1, <3>2, <3>3
  <2> QED
    BY <1>4, <2>1, <2>2 DEF ApplyOverride, LoopInv
<1> QED
  BY <1>6, <1>8 DEF IInv, ApplyOverride, ServedInv, VerdictInv

\* Once every override is visited, effective is the ceiling of evaluate.
LEMMA LoopComputesCeiling ==
  ASSUME IInv, pc = "lowering", todo = {}
  PROVE  effective = effective_max(policy, question.repo)
<1>1. policy \in PolicyRecord
  BY ServedPolicy DEF IInv
<1>2. \A n : VisitedCaps(n) = Caps(policy, question.repo, n)
  BY DEF VisitedCaps, Caps
<1>3. /\ DOMAIN effective = DOMAIN policy.max_permissions
      /\ effective = [n \in DOMAIN effective |-> effective[n]]
  BY PermMapElim DEF IInv, TypeOK, LoopInv
<1>4. ASSUME NEW n \in DOMAIN policy.max_permissions
      PROVE  effective[n] = Least(Caps(policy, question.repo, n))
  <2>1. /\ effective[n] \in Caps(policy, question.repo, n)
        /\ \A m \in Caps(policy, question.repo, n) : effective[n] <= m
    BY <1>2, <1>3 DEF IInv, LoopInv
  <2> QED
    BY <1>1, <2>1, CapsType, LeastUnique
<1> QED
  BY <1>3, <1>4 DEF effective_max

LEMMA DecideInv ==
  ASSUME IInv, Decide
  PROVE  IInv' /\ verdict' = evaluate(policy, question.repo, question.requested)
<1>1. policy \in PolicyRecord /\ question \in Question
  BY ServedPolicy DEF IInv, Decide, TypeOK
<1>2. effective = effective_max(policy, question.repo)
  BY LoopComputesCeiling DEF Decide
<1>3. verdict' = evaluate(policy, question.repo, question.requested)
  BY <1>2 DEF Decide, evaluate, IInv, LoopInv
<1>4. verdict' \in Verdict
  BY <1>1, <1>3, EvaluateWithinCeiling DEF Question
<1> QED
  BY <1>3, <1>4 DEF Decide, IInv, TypeOK, Phase, ServedInv, LoopInv, VerdictInv

LEMMA NextInv == IInv /\ [Next]_vars => IInv'
<1> SUFFICES ASSUME IInv, [Next]_vars PROVE IInv'
  OBVIOUS
<1>1. CASE Serve
  BY <1>1 DEF IInv, TypeOK, ServedInv, LoopInv, VerdictInv, Serve, Phase
<1>2. CASE Refuse
  BY <1>2 DEF IInv, TypeOK, ServedInv, LoopInv, VerdictInv, Refuse, Phase
<1>3. ASSUME NEW q \in Question, Ask(q) PROVE IInv'
  BY <1>3 DEF IInv, TypeOK, ServedInv, LoopInv, VerdictInv, Ask, Phase
<1>4. CASE RejectRepo
  <2>1. verdict' = evaluate(policy, question.repo, question.requested)
    BY <1>4 DEF RejectRepo, evaluate
  <2>2. verdict' \in Verdict
    BY <1>4, NoPermsType DEF RejectRepo, Verdict, Reason, Denied
  <2> QED
    BY <1>4, <2>1, <2>2
    DEF IInv, TypeOK, ServedInv, LoopInv, VerdictInv, RejectRepo, Phase
<1>5. CASE CopyMax
  BY <1>5, CopyMaxInv
<1>6. ASSUME NEW g \in Glob, ApplyOverride(g) PROVE IInv'
  BY <1>6, ApplyOverrideInv
<1>7. CASE Decide
  BY <1>7, DecideInv
<1>8. CASE UNCHANGED vars
  BY <1>8 DEF vars, IInv, TypeOK, ServedInv, LoopInv, VerdictInv, VisitedCaps
<1> QED
  BY <1>1, <1>2, <1>3, <1>4, <1>5, <1>6, <1>7, <1>8 DEF Next

\* Every reachable state satisfies the inductive invariant.
THEOREM EngineInvariant == Spec => []IInv
BY InitInv, NextInv, PTL DEF Spec

\* The state of the engine is always well typed (broker.py:56-181).
THEOREM EngineTypeCorrect == Spec => []TypeOK
<1>1. IInv => TypeOK
  BY DEF IInv
<1> QED
  BY <1>1, EngineInvariant, PTL

-----------------------------------------------------------------------------
\* Nothing is granted beyond the maximum or any matching override
\* (broker.py:56-121), for every policy file the broker serves.
THEOREM CeilingHolds == Spec => []GrantWithinCeiling
<1>1. ASSUME IInv PROVE GrantWithinCeiling
  <2> SUFFICES ASSUME pc = "decided", verdict.allowed
               PROVE  /\ repo_allowed(policy, question.repo)
                      /\ \A n \in DOMAIN verdict.granted :
                           /\ n \in DOMAIN policy.max_permissions
                           /\ verdict.granted[n] <= policy.max_permissions[n]
                           /\ \A g \in DOMAIN policy.repo_max_permissions :
                                question.repo \in Matches[g]
                                  /\ n \in DOMAIN policy.repo_max_permissions[g]
                                => /\ policy.repo_max_permissions[g][n] # None
                                   /\ verdict.granted[n] <= policy.repo_max_permissions[g][n]
    BY DEF GrantWithinCeiling
  <2> DEFINE r == question.repo
             e == effective_max(policy, r)
  <2>1. policy \in PolicyRecord /\ question.requested \in PermMap(AskLevel)
    BY <1>1, ServedPolicy DEF IInv, TypeOK, Question
  <2>2. /\ repo_allowed(policy, r)
        /\ verdict.granted \in PermMap(AskLevel)
        /\ Within(verdict.granted, e)
    BY <1>1, <2>1, EvaluateWithinCeiling DEF IInv, VerdictInv, Verdict
  <2>3. ASSUME NEW n \in DOMAIN verdict.granted
        PROVE  /\ n \in DOMAIN policy.max_permissions
               /\ \A m \in Caps(policy, r, n) :
                    verdict.granted[n] <= m /\ m # None
    <3>1. /\ n \in DOMAIN policy.max_permissions
          /\ verdict.granted[n] <= e[n]
          /\ \A m \in Caps(policy, r, n) : e[n] <= m
      BY <2>1, <2>2, EffectiveMaxType DEF Within
    <3>2. /\ verdict.granted[n] \in Int
          /\ verdict.granted[n] > None
      BY <2>2, PermMapElim, OverrideLevelInt
    <3>3. e[n] \in Int /\ Caps(policy, r, n) \subseteq Int
      BY <2>1, <3>1, EffectiveMaxType, PermMapElim, CapsType, OverrideLevelInt
    <3> HIDE DEF e
    <3> QED
      BY <3>1, <3>2, <3>3 DEF None
  <2> QED
    BY <2>2, <2>3 DEF Caps
<1> QED
  BY <1>1, EngineInvariant, PTL

\* An explicit request is granted as made, or refused for a reason
\* (broker.py:17, 105-121).
THEOREM NeverClamped == Spec => []DeniedNotClamped
<1>1. ASSUME IInv PROVE DeniedNotClamped
  <2> DEFINE r == question.repo
             asked == question.requested
             e == effective_max(policy, r)
  <2> SUFFICES ASSUME pc = "decided", asked # NoPerms PROVE DeniedNotClamped
    BY DEF DeniedNotClamped
  <2>1. policy \in PolicyRecord
    BY <1>1, ServedPolicy DEF IInv
  <2>2. verdict = IF repo_allowed(policy, r)
                  THEN IF Within(asked, e)
                       THEN [allowed |-> TRUE, reason |-> "granted", granted |-> asked]
                       ELSE Denied("permission")
                  ELSE Denied("repo_not_in_policy")
    BY <1>1 DEF IInv, VerdictInv, evaluate, judge
  <2>3. CASE verdict.allowed
    BY <2>2, <2>3 DEF Denied, DeniedNotClamped
  <2>4. CASE ~ verdict.allowed /\ repo_allowed(policy, r)
    <3>1. PICK n \in DOMAIN asked :
            n \notin DOMAIN e \/ ~ (asked[n] <= e[n])
      BY <2>2, <2>4 DEF Within
    <3>2. DOMAIN e = DOMAIN policy.max_permissions
      BY <2>1, EffectiveMaxType
    <3>3. CASE n \notin DOMAIN policy.max_permissions
      BY <2>4, <3>3 DEF DeniedNotClamped
    <3>4. CASE n \in DOMAIN policy.max_permissions
      <4>1. e[n] \in Caps(policy, r, n) /\ Caps(policy, r, n) \subseteq Int
        BY <2>1, <3>4, CapsType, LeastIsLeast, OverrideLevelInt DEF effective_max
      <4>2. asked[n] \in Int
        BY <1>1, PermMapElim, OverrideLevelInt DEF IInv, TypeOK, Question
      <4>3. \E m \in Caps(policy, r, n) : asked[n] > m
        BY <3>1, <3>2, <3>4, <4>1, <4>2
      <4> QED
        BY <2>4, <4>3 DEF DeniedNotClamped, Caps
    <3> QED
      BY <3>3, <3>4
  <2>5. CASE ~ repo_allowed(policy, r)
    BY <2>2, <2>5 DEF Denied, DeniedNotClamped
  <2> QED
    BY <2>3, <2>4, <2>5
<1> QED
  BY <1>1, EngineInvariant, PTL

\* Without overrides the ceiling is the maximum.
LEMMA OpenCeiling ==
  ASSUME NEW p \in PolicyRecord, NEW r
  PROVE  LET q == [p EXCEPT !.repo_max_permissions = <<>>]
         IN  /\ repo_allowed(q, r) <=> repo_allowed(p, r)
             /\ q.default_permissions = p.default_permissions
             /\ effective_max(q, r) = p.max_permissions
<1> DEFINE q == [p EXCEPT !.repo_max_permissions = <<>>]
           max == p.max_permissions
<1>1. /\ q.allowed_repos = p.allowed_repos
      /\ q.default_permissions = p.default_permissions
      /\ q.max_permissions = max
      /\ DOMAIN q.repo_max_permissions = {}
  BY DEF PolicyRecord
<1>2. ASSUME NEW n \in DOMAIN max
      PROVE  Least(Caps(q, r, n)) = max[n]
  <2>1. Caps(q, r, n) = {max[n]}
    BY <1>1 DEF Caps
  <2>2. max[n] \in OverrideLevel
    BY PermMapElim, OverrideLevelInt DEF PolicyRecord
  <2>3. max[n] <= max[n]
    BY <2>2 DEF OverrideLevel, CapLevel, None, Read, Write, Admin
  <2> QED
    BY <2>1, <2>2, <2>3, LeastUnique
<1>3. max = [n \in DOMAIN max |-> max[n]]
  BY PermMapElim DEF PolicyRecord
<1>4. effective_max(q, r) = max
  BY <1>1, <1>2, <1>3 DEF effective_max
<1>5. repo_allowed(q, r) <=> repo_allowed(p, r)
  BY <1>1 DEF repo_allowed
<1> QED
  BY <1>1, <1>4, <1>5

\* Overrides only take away: with none of them the same request would be
\* granted, at least as high (broker.py:63-65).
THEOREM OverridesTighten == Spec => []OverridesOnlyTighten
<1>1. ASSUME IInv PROVE OverridesOnlyTighten
  <2> DEFINE r == question.repo
             asked == question.requested
             p == [policy EXCEPT !.repo_max_permissions = <<>>]
             e == effective_max(policy, r)
             max == policy.max_permissions
             open == evaluate(p, r, asked)
             d == policy.default_permissions
  <2> SUFFICES ASSUME pc = "decided", verdict.allowed
               PROVE  open.allowed /\ Within(verdict.granted, open.granted)
    BY DEF OverridesOnlyTighten
  <2>1. policy \in PolicyRecord
    BY <1>1, ServedPolicy DEF IInv
  <2>2. /\ repo_allowed(policy, r)
        /\ verdict = judge(policy, e, asked)
    BY <1>1 DEF IInv, VerdictInv, evaluate, Denied
  <2>3. open = judge(p, max, asked) /\ p.default_permissions = d
    BY <2>1, <2>2, OpenCeiling DEF evaluate
  <2>4. /\ DOMAIN e = DOMAIN max
        /\ \A n \in DOMAIN e : /\ e[n] \in Int /\ max[n] \in Int
                               /\ e[n] <= max[n] /\ max[n] # None
    <3>1. ASSUME NEW n \in DOMAIN max
          PROVE  max[n] \in CapLevel /\ max[n] \in Int /\ max[n] # None
      BY <2>1, PermMapElim, OverrideLevelInt
      DEF PolicyRecord, CapLevel, None, Read, Write, Admin
    <3>2. e \in PermMap(OverrideLevel)
      BY <2>1, EffectiveMaxType
    <3> QED
      BY <2>1, <3>1, <3>2, EffectiveMaxType, CapsType, PermMapElim, OverrideLevelInt
  <2>5. CASE asked = NoPerms
    <3>1. /\ open.allowed
          /\ open.granted = default_grant(d, max)
          /\ verdict.granted = default_grant(d, e)
      BY <2>2, <2>3, <2>5 DEF judge
    <3>2. \A n \in DOMAIN d : d[n] \in Int
      BY <2>1, PermMapElim, OverrideLevelInt DEF PolicyRecord
    <3> HIDE DEF e, max, d
    <3>3. Within(default_grant(d, e), default_grant(d, max))
      BY <2>4, <3>2 DEF default_grant, Within
    <3> QED
      BY <3>1, <3>3
  <2>6. CASE asked # NoPerms
    <3>1. Within(asked, e) /\ verdict.granted = asked
      BY <2>2, <2>6 DEF judge, Denied
    <3>2. \A n \in DOMAIN asked : asked[n] \in Int
      BY <1>1, PermMapElim, OverrideLevelInt DEF IInv, TypeOK, Question
    <3> HIDE DEF e, max, asked
    <3>3. Within(asked, max) /\ Within(asked, asked)
      BY <2>4, <3>1, <3>2 DEF Within
    <3> QED
      BY <2>3, <2>6, <3>1, <3>3 DEF judge
  <2> QED
    BY <2>5, <2>6
<1> QED
  BY <1>1, EngineInvariant, PTL

\* A name that evaluate grants by default, its default when no cap is lower, is
\* held down by the cap that is the least.
LEMMA DefaultOrLower ==
  ASSUME NEW p \in PolicyRecord, NEW r,
         NEW n \in DOMAIN p.default_permissions, n \in DOMAIN p.max_permissions,
         p.default_permissions[n] <= p.max_permissions[n]
  PROVE  LET d == p.default_permissions
             v == default_grant(d, effective_max(p, r))
         IN  \/ n \in DOMAIN v /\ v[n] = d[n]
             \/ \E g \in DOMAIN p.repo_max_permissions :
                  /\ r \in Matches[g]
                  /\ n \in DOMAIN p.repo_max_permissions[g]
                  /\ p.repo_max_permissions[g][n] < d[n]
<1> DEFINE d == p.default_permissions
           e == effective_max(p, r)
           v == default_grant(d, e)
<1>1. d[n] \in AskLevel /\ d[n] \in Int /\ d[n] > None
  BY PermMapElim, OverrideLevelInt DEF PolicyRecord
<1>2. e[n] \in Caps(p, r, n) /\ e[n] \in Int /\ n \in DOMAIN e
  <2>1. Caps(p, r, n) \in SUBSET OverrideLevel /\ Caps(p, r, n) # {}
    BY CapsType
  <2>2. e[n] = Least(Caps(p, r, n)) /\ n \in DOMAIN e
    BY DEF effective_max
  <2>3. Least(Caps(p, r, n)) \in Caps(p, r, n)
    BY <2>1, LeastIsLeast
  <2> QED
    BY <2>1, <2>2, <2>3, OverrideLevelInt
<1>3. CASE e[n] < d[n]
  <2>1. e[n] # p.max_permissions[n]
    BY <1>1, <1>2, <1>3
  <2> QED
    BY <1>2, <1>3, <2>1 DEF Caps
<1>4. CASE ~ (e[n] < d[n])
  <2>1. e[n] # None /\ ~ (d[n] > e[n])
    BY <1>1, <1>2, <1>4 DEF None
  <2> QED
    BY <1>2, <2>1 DEF default_grant
<1> QED
  BY <1>3, <1>4

\* The defaults hold when they are minted, as far as load_policy could tell
\* (broker.py:177-180).
THEOREM DefaultsHold == Spec => []DefaultsHoldAtMint
<1>1. ASSUME IInv PROVE DefaultsHoldAtMint
  <2> DEFINE d == policy.default_permissions
             sample == Sample[policy.allowed_repos[1]]
  <2> SUFFICES ASSUME pc = "decided", verdict.allowed, question.requested = NoPerms,
                      repo_allowed(policy, sample),
                      NEW n \in DOMAIN d
               PROVE  \/ n \in DOMAIN verdict.granted /\ verdict.granted[n] = d[n]
                      \/ \E g \in DOMAIN policy.repo_max_permissions :
                           /\ question.repo \in Matches[g]
                           /\ n \in DOMAIN policy.repo_max_permissions[g]
                           /\ policy.repo_max_permissions[g][n] < d[n]
    BY DEF DefaultsHoldAtMint
  <2>1. policy \in PolicyRecord
    BY <1>1, ServedPolicy DEF IInv
  <2>2. /\ policy = policy_of(file)
        /\ file.allowed_repos = policy.allowed_repos
        /\ file.default_permissions = d
        /\ d # NoPerms
    <3>1. accepts(file) /\ file \in RawPolicy
      BY <1>1, PolicyFileAssumption DEF IInv, ServedInv, TypeOK
    <3>2. DOMAIN file.default_permissions # {}
      BY <3>1 DEF accepts, well_formed
    <3> QED
      BY <1>1, <3>1, <3>2 DEF IInv, TypeOK, policy_of, RawPolicy, NoPerms
  <2>3. Within(d, effective_max(policy, sample))
    <3>1. evaluate(policy, sample, d).allowed
            \/ evaluate(policy, sample, d).reason = "repo_not_in_policy"
      BY <1>1, <2>2 DEF IInv, ServedInv, accepts
    <3> QED
      BY <2>2, <3>1 DEF evaluate, judge, Denied
  <2>4. n \in DOMAIN policy.max_permissions /\ d[n] <= policy.max_permissions[n]
    <3>1. LET e == effective_max(policy, sample)
          IN  /\ n \in DOMAIN policy.max_permissions
              /\ d[n] <= e[n] /\ e[n] <= policy.max_permissions[n]
              /\ e[n] \in Int /\ policy.max_permissions[n] \in Int
      BY <2>1, <2>3, EffectiveMaxType, CapsType, PermMapElim, OverrideLevelInt DEF Within
    <3>2. d[n] \in Int
      BY <2>1, PermMapElim, OverrideLevelInt DEF PolicyRecord
    <3> QED
      BY <3>1, <3>2
  <2>5. verdict.granted = default_grant(d, effective_max(policy, question.repo))
    BY <1>1 DEF IInv, VerdictInv, evaluate, judge, Denied
  <2> QED
    BY <2>1, <2>4, <2>5, DefaultOrLower
<1> QED
  BY <1>1, EngineInvariant, PTL

\* No grant is above a cap the file sets, unless a later entry of the same key
\* replaced it (broker.py:65, 133-139).
THEOREM FileEntriesHold == Spec => []FileEntriesApply
<1>1. ASSUME IInv, GrantWithinCeiling PROVE FileEntriesApply
  <2> DEFINE entries == file.repo_max_permissions
  <2> SUFFICES ASSUME pc = "decided", verdict.allowed,
                      NEW i \in DOMAIN entries,
                      question.repo \in Matches[entries[i].glob],
                      ~ \E j \in DOMAIN entries :
                          j > i /\ entries[j].glob = entries[i].glob,
                      NEW n \in DOMAIN verdict.granted \cap DOMAIN entries[i].caps
               PROVE  verdict.granted[n] <= entries[i].caps[n]
    BY DEF FileEntriesApply
  <2> DEFINE g == entries[i].glob
  <2>1. file \in RawPolicy /\ policy = policy_of(file)
    BY <1>1, PolicyFileAssumption DEF IInv, TypeOK
  <2>2. entries \in Seq([glob : Glob, caps : PermMap(AnyLevel)])
    BY <2>1 DEF RawPolicy
  <2>3. LastWith(entries, g) = i
    <3>1. DOMAIN entries \subseteq Nat
      BY <2>2
    <3>2. \A j \in DOMAIN entries : entries[j].glob = g => j <= i
      BY <3>1
    <3>3. \A k \in DOMAIN entries :
            (\A j \in DOMAIN entries : entries[j].glob = g => j <= k)
              /\ entries[k].glob = g => k = i
      BY <3>1, <3>2
    <3> HIDE DEF entries
    <3> QED
      BY <3>2, <3>3 DEF LastWith
  <2>4. policy.repo_max_permissions = parse_repo_overrides(entries)
    BY <2>1 DEF policy_of, RawPolicy
  <2>5. /\ g \in DOMAIN policy.repo_max_permissions
        /\ policy.repo_max_permissions[g] = entries[i].caps
    BY <2>3, <2>4 DEF parse_repo_overrides
  <2> QED
    BY <1>1, <2>5 DEF GrantWithinCeiling
<1> QED
  BY <1>1, EngineInvariant, CeilingHolds, PTL

\* The operators of Policy are the same seen through the instance.
LEMMA SameLevels ==
  /\ NoPerms = D!NoPerms
  /\ PermMap(AskLevel) = D!PermMap(D!AskLevel)
  /\ \A why : Denied(why) = D!Denied(why)
BY DEF NoPerms, D!NoPerms, None, D!None, Read, D!Read, Write, D!Write, Admin, D!Admin,
       UnknownLevel, D!UnknownLevel, CapLevel, D!CapLevel, AskLevel, D!AskLevel,
       PermMap, D!PermMap, Denied, D!Denied

LEMMA SameCeiling == \A p, r : effective_max(p, r) = D!effective_max(p, r)
BY Zenon DEF effective_max, D!effective_max, Least, D!Least, Caps, D!Caps

LEMMA SameEvaluate ==
  ASSUME NEW p, NEW r, NEW q
  PROVE  evaluate(p, r, q) = D!evaluate(p, r, q)
<1>1. judge(p, effective_max(p, r), q) = D!judge(p, D!effective_max(p, r), q)
  BY SameCeiling, SameLevels, Zenon
  DEF judge, D!judge, default_grant, D!default_grant, Within, D!Within, None, D!None
<1> QED
  BY <1>1, SameLevels, Zenon
  DEF evaluate, D!evaluate, repo_allowed, D!repo_allowed

LEMMA SameLoad ==
  ASSUME NEW raw
  PROVE  /\ policy_of(raw) = D!policy_of(raw)
         /\ accepts(raw) <=> D!accepts(raw)
<1>1. policy_of(raw) = D!policy_of(raw)
  BY Zenon DEF policy_of, D!policy_of, parse_repo_overrides, D!parse_repo_overrides,
               LastWith, D!LastWith
<1>2. well_formed(raw) <=> D!well_formed(raw)
  BY DEF well_formed, D!well_formed, OverrideLevel, D!OverrideLevel, CapLevel,
         D!CapLevel, None, D!None, Read, D!Read, Write, D!Write, Admin, D!Admin
<1> QED
  BY <1>1, <1>2, SameEvaluate, Zenon DEF accepts, D!accepts

\* The loop over the overrides implements the one-step decision: initial
\* states map to initial states, the loop's steps stutter, the last one decides.
THEOREM EngineImplementsDecision == Spec => ImplementsDecision
<1>1. Init => D!Init
  BY SameLevels DEF Init, D!Init, Question, D!Question
<1>2. IInv /\ [Next]_vars => [D!Next]_D!vars
  <2> SUFFICES ASSUME IInv, [Next]_vars PROVE [D!Next]_D!vars
    OBVIOUS
  <2>1. CASE Serve
    BY <2>1, SameLoad DEF Serve, D!Next, D!Serve
  <2>2. CASE Refuse
    BY <2>2, SameLoad DEF Refuse, D!Next, D!Refuse
  <2>3. ASSUME NEW q \in Question, Ask(q) PROVE D!Next
    BY <2>3, SameLevels DEF Ask, D!Next, D!Ask, Question, D!Question
  <2>4. CASE RejectRepo
    <3>1. verdict' = evaluate(policy_of(file), question.repo, question.requested)
      BY <2>4 DEF RejectRepo, evaluate, IInv, TypeOK
    <3> QED
      BY <2>4, <3>1, SameLoad, SameEvaluate DEF RejectRepo, D!Next, D!Decide
  <2>5. CASE CopyMax
    BY <2>5 DEF CopyMax, D!vars
  <2>6. ASSUME NEW g \in Glob, ApplyOverride(g) PROVE UNCHANGED D!vars
    BY <2>6 DEF ApplyOverride, D!vars
  <2>7. CASE Decide
    <3>1. verdict' = evaluate(policy_of(file), question.repo, question.requested)
      BY <2>7, DecideInv DEF IInv, TypeOK
    <3> QED
      BY <2>7, <3>1, SameLoad, SameEvaluate DEF Decide, D!Next, D!Decide
  <2>8. CASE UNCHANGED vars
    BY <2>8 DEF vars, D!vars
  <2> QED
    BY <2>1, <2>2, <2>3, <2>4, <2>5, <2>6, <2>7, <2>8 DEF Next
<1> QED
  BY <1>1, <1>2, EngineInvariant, PTL DEF Spec, D!Spec, ImplementsDecision
=============================================================================
