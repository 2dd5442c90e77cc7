---------------------------- MODULE PolicyLemmas ----------------------------
(***************************************************************************)
(* What the operators of Policy return, for every set of repositories,     *)
(* patterns and permission names: their types, and that what evaluate      *)
(* grants is within the ceiling.  The proofs about the policy engine and   *)
(* about the broker rest on these lemmas.                                  *)
(***************************************************************************)
EXTENDS Policy, WellFoundedInduction, TLAPS

\* A permission mapping is a function into its levels, and conversely.
LEMMA PermMapElim ==
  ASSUME NEW L, NEW f \in PermMap(L)
  PROVE  /\ DOMAIN f \subseteq PermName
         /\ f = [n \in DOMAIN f |-> f[n]]
         /\ \A n \in DOMAIN f : f[n] \in L
BY DEF PermMap

LEMMA PermMapIntro ==
  ASSUME NEW L, NEW f,
         DOMAIN f \subseteq PermName,
         f = [n \in DOMAIN f |-> f[n]],
         \A n \in DOMAIN f : f[n] \in L
  PROVE  f \in PermMap(L)
<1>1. f \in [DOMAIN f -> L]
  OBVIOUS
<1> QED
  BY <1>1 DEF PermMap

LEMMA NoPermsType ==
  ASSUME NEW L
  PROVE  NoPerms \in PermMap(L)
<1>1. /\ DOMAIN NoPerms = {}
      /\ NoPerms = [n \in DOMAIN NoPerms |-> NoPerms[n]]
  BY DEF NoPerms
<1> QED
  BY <1>1, PermMapIntro

LEMMA OverrideLevelInt ==
  /\ OverrideLevel \subseteq Int
  /\ CapLevel \subseteq OverrideLevel
  /\ OverrideLevel \subseteq AskLevel \cup {None}
  /\ AskLevel \subseteq Int
  /\ \A l \in AskLevel : l > None
  /\ \A l \in OverrideLevel : l # None => l \in CapLevel
BY DEF OverrideLevel, CapLevel, AskLevel, None, Read, Write, Admin, UnknownLevel

\* Any set of levels that is not empty has a least one.
LEMMA LeastIsLeast ==
  ASSUME NEW S \in SUBSET OverrideLevel, S # {}
  PROVE  /\ Least(S) \in S
         /\ \A m \in S : Least(S) <= m
<1>1. \E l \in S : \A m \in S : l <= m
  <2>1. CASE None \in S
    BY <2>1 DEF OverrideLevel, CapLevel, None, Read, Write, Admin
  <2>2. CASE None \notin S /\ Read \in S
    BY <2>2 DEF OverrideLevel, CapLevel, None, Read, Write, Admin
  <2>3. CASE None \notin S /\ Read \notin S /\ Write \in S
    BY <2>3 DEF OverrideLevel, CapLevel, None, Read, Write, Admin
  <2>4. CASE None \notin S /\ Read \notin S /\ Write \notin S
    <3>1. S \subseteq {Admin}
      BY <2>4 DEF OverrideLevel, CapLevel
    <3>2. Admin \in S
      BY <3>1
    <3>3. \A m \in S : Admin <= m
      BY <3>1 DEF Admin
    <3> QED
      BY <3>2, <3>3
  <2> QED
    BY <2>1, <2>2, <2>3, <2>4
<1> QED
  BY <1>1 DEF Least

LEMMA LeastUnique ==
  ASSUME NEW S \in SUBSET OverrideLevel, NEW l \in S, \A m \in S : l <= m
  PROVE  Least(S) = l
<1>1. Least(S) \in S /\ Least(S) <= l /\ l <= Least(S)
  BY LeastIsLeast
<1>2. Least(S) \in Int /\ l \in Int
  BY <1>1, OverrideLevelInt
<1> QED
  BY <1>1, <1>2

-----------------------------------------------------------------------------
LEMMA SeqElement ==
  ASSUME NEW S, NEW s \in Seq(S), NEW i \in DOMAIN s
  PROVE  s[i] \in S
OBVIOUS

\* Of the entries with one key, some entry is the last.
LEMMA LastWithIsLast ==
  ASSUME NEW R, NEW entries \in Seq(R), NEW k \in DOMAIN entries
  PROVE  LET g == entries[k].glob
             i == LastWith(entries, g)
         IN  i \in DOMAIN entries /\ entries[i].glob = g
<1> DEFINE g == entries[k].glob
           n == Len(entries)
           T == {n - i : i \in {j \in DOMAIN entries : entries[j].glob = g}}
<1>1. n \in Nat /\ DOMAIN entries = 1 .. n
  OBVIOUS
<1>2. T \subseteq Nat /\ T # {}
  BY <1>1
<1>3. PICK t \in T : \A u \in T : <<u, t>> \notin OpToRel(<, Nat)
  BY <1>2, NatLessThanWellFounded, WFMin, Zenon
<1>4. \A u \in T : ~ (u < t)
  BY <1>2, <1>3 DEF OpToRel
<1>5. PICK i \in DOMAIN entries : entries[i].glob = g /\ t = n - i
  OBVIOUS
<1>6. ASSUME NEW j \in DOMAIN entries, entries[j].glob = g
      PROVE  j <= i
  <2>1. n - j \in T
    BY <1>6
  <2>2. ~ (n - j < n - i)
    BY <1>4, <1>5, <2>1
  <2> HIDE DEF n
  <2> QED
    BY <1>1, <2>2
<1> QED
  BY <1>5, <1>6 DEF LastWith

\* The parser maps each glob of the file to the caps of one of its entries.
LEMMA ParseOverrides ==
  ASSUME NEW entries \in Seq([glob : Glob, caps : PermMap(AnyLevel)])
  PROVE  LET parsed == parse_repo_overrides(entries)
         IN  /\ DOMAIN parsed \subseteq Glob
             /\ parsed = [g \in DOMAIN parsed |-> parsed[g]]
             /\ \A g \in DOMAIN parsed :
                  \E i \in DOMAIN entries : parsed[g] = entries[i].caps
<1>1. \A k \in DOMAIN entries : entries[k].glob \in Glob
  <2> TAKE k \in DOMAIN entries
  <2>1. entries[k] \in [glob : Glob, caps : PermMap(AnyLevel)]
    BY SeqElement, Zenon
  <2> QED
    BY <2>1
<1>2. \A k \in DOMAIN entries : LastWith(entries, entries[k].glob) \in DOMAIN entries
  BY LastWithIsLast
<1> QED
  BY <1>1, <1>2 DEF parse_repo_overrides

\* A file that passes the shape checks becomes a Policy.
LEMMA PolicyOfType ==
  ASSUME NEW raw \in RawPolicy, well_formed(raw)
  PROVE  policy_of(raw) \in PolicyRecord
<1> DEFINE entries == raw.repo_max_permissions
           parsed  == parse_repo_overrides(entries)
<1>1. entries \in Seq([glob : Glob, caps : PermMap(AnyLevel)])
  BY DEF RawPolicy
<1>2. raw.max_permissions \in PermMap(CapLevel)
  <2>1. raw.max_permissions \in PermMap(AnyLevel)
    BY DEF RawPolicy
  <2> QED
    BY <2>1, PermMapElim, PermMapIntro DEF well_formed
<1>3. \A i \in DOMAIN entries : entries[i].caps \in PermMap(OverrideLevel)
  <2> TAKE i \in DOMAIN entries
  <2>1. entries[i] \in [glob : Glob, caps : PermMap(AnyLevel)]
    BY <1>1, SeqElement, Zenon
  <2>2. entries[i].caps \in PermMap(AnyLevel)
    BY <2>1
  <2>3. \A n \in DOMAIN entries[i].caps : entries[i].caps[n] \in OverrideLevel
    BY DEF well_formed
  <2> QED
    BY <2>2, <2>3, PermMapElim, PermMapIntro
<1>4. parsed \in OverrideMap
  <2>1. /\ DOMAIN parsed \subseteq Glob
        /\ parsed = [g \in DOMAIN parsed |-> parsed[g]]
        /\ \A g \in DOMAIN parsed :
             \E i \in DOMAIN entries : parsed[g] = entries[i].caps
    BY <1>1, ParseOverrides
  <2>2. parsed \in [DOMAIN parsed -> PermMap(OverrideLevel)]
    BY <2>1, <1>3
  <2> QED
    BY <2>1, <2>2 DEF OverrideMap
<1>5. policy_of(raw) = [raw EXCEPT !.repo_max_permissions = parsed]
  BY DEF policy_of
<1> HIDE DEF parsed, entries
<1> QED
  BY <1>2, <1>4, <1>5 DEF RawPolicy, PolicyRecord

-----------------------------------------------------------------------------
\* The caps of a name are levels, and there is always one.
LEMMA CapsType ==
  ASSUME NEW p \in PolicyRecord, NEW r, NEW n \in DOMAIN p.max_permissions
  PROVE  /\ Caps(p, r, n) \in SUBSET OverrideLevel
         /\ p.max_permissions[n] \in Caps(p, r, n)
<1>1. p.max_permissions \in PermMap(CapLevel)
  BY DEF PolicyRecord
<1>2. p.max_permissions[n] \in OverrideLevel
  BY <1>1, PermMapElim, OverrideLevelInt
<1>3. \A g \in DOMAIN p.repo_max_permissions :
        p.repo_max_permissions[g] \in PermMap(OverrideLevel)
  BY DEF PolicyRecord, OverrideMap
<1>4. \A g \in DOMAIN p.repo_max_permissions :
        \A m \in DOMAIN p.repo_max_permissions[g] :
          p.repo_max_permissions[g][m] \in OverrideLevel
  BY <1>3, PermMapElim, Zenon
<1> QED
  BY <1>2, <1>4 DEF Caps

\* The ceiling of a repository: one level per name of the global maximum,
\* below every cap that applies.
LEMMA EffectiveMaxType ==
  ASSUME NEW p \in PolicyRecord, NEW r
  PROVE  /\ effective_max(p, r) \in PermMap(OverrideLevel)
         /\ DOMAIN effective_max(p, r) = DOMAIN p.max_permissions
         /\ \A n \in DOMAIN p.max_permissions :
              \A m \in Caps(p, r, n) : effective_max(p, r)[n] <= m
<1> DEFINE e == effective_max(p, r)
<1>1. DOMAIN e = DOMAIN p.max_permissions /\ e = [n \in DOMAIN e |-> e[n]]
  BY DEF effective_max
<1>2. DOMAIN e \subseteq PermName
  BY <1>1, PermMapElim DEF PolicyRecord
<1>3. ASSUME NEW n \in DOMAIN p.max_permissions
      PROVE  e[n] \in OverrideLevel /\ \A m \in Caps(p, r, n) : e[n] <= m
  <2>1. e[n] = Least(Caps(p, r, n))
    BY DEF effective_max
  <2>2. Caps(p, r, n) \in SUBSET OverrideLevel /\ Caps(p, r, n) # {}
    BY CapsType
  <2> QED
    BY <2>1, <2>2, LeastIsLeast
<1> QED
  BY <1>1, <1>2, <1>3, PermMapIntro

\* The defaults, lowered to a ceiling, are within it.
LEMMA DefaultGrantType ==
  ASSUME NEW defaults \in PermMap(AskLevel), NEW caps \in PermMap(OverrideLevel)
  PROVE  /\ default_grant(defaults, caps) \in PermMap(AskLevel)
         /\ Within(default_grant(defaults, caps), caps)
<1> DEFINE d == default_grant(defaults, caps)
<1>1. /\ DOMAIN d = {m \in DOMAIN defaults \cap DOMAIN caps : caps[m] # None}
      /\ d = [n \in DOMAIN d |-> d[n]]
      /\ DOMAIN d \subseteq PermName
  BY PermMapElim DEF default_grant
<1>2. ASSUME NEW n \in DOMAIN d
      PROVE  d[n] \in AskLevel /\ d[n] <= caps[n]
  <2>1. d[n] = IF defaults[n] > caps[n] THEN caps[n] ELSE defaults[n]
    BY <1>1 DEF default_grant
  <2>2. n \in DOMAIN defaults /\ n \in DOMAIN caps /\ caps[n] # None
    BY <1>1
  <2>3. defaults[n] \in AskLevel /\ caps[n] \in OverrideLevel
    BY <2>2, PermMapElim
  <2>4. caps[n] \in AskLevel
    BY <2>2, <2>3, OverrideLevelInt DEF AskLevel
  <2>5. defaults[n] \in Int /\ caps[n] \in Int
    BY <2>3, OverrideLevelInt
  <2> QED
    BY <2>1, <2>3, <2>4, <2>5
<1> QED
  BY <1>1, <1>2, PermMapIntro DEF Within

\* What evaluate grants is within the ceiling of the repository.
LEMMA EvaluateWithinCeiling ==
  ASSUME NEW p \in PolicyRecord, NEW r, NEW requested \in PermMap(AskLevel)
  PROVE  LET v == evaluate(p, r, requested)
         IN  /\ v \in Verdict
             /\ v.allowed => /\ repo_allowed(p, r)
                             /\ Within(v.granted, effective_max(p, r))
<1> DEFINE v == evaluate(p, r, requested)
           e == effective_max(p, r)
<1>1. e \in PermMap(OverrideLevel)
  BY EffectiveMaxType
<1>2. p.default_permissions \in PermMap(AskLevel)
  BY DEF PolicyRecord
<1>3. NoPerms \in PermMap(AskLevel)
  BY NoPermsType
<1>4. default_grant(p.default_permissions, e) \in PermMap(AskLevel)
      /\ Within(default_grant(p.default_permissions, e), e)
  BY <1>1, <1>2, DefaultGrantType
<1> HIDE DEF e
<1>5. CASE ~ repo_allowed(p, r)
  <2>1. v = Denied("repo_not_in_policy")
    BY <1>5 DEF evaluate
  <2>2. v \in Verdict /\ v.allowed = FALSE
    BY <2>1, <1>3 DEF Denied, Verdict, Reason
  <2> QED
    BY <2>2, Zenon
<1>6. CASE repo_allowed(p, r) /\ requested = NoPerms
  <2>1. v = [allowed |-> TRUE, reason |-> "granted",
             granted |-> default_grant(p.default_permissions, e)]
    BY <1>6 DEF evaluate, judge, e
  <2> QED
    BY <2>1, <1>4, <1>6 DEF Verdict, Reason, e
<1>7. CASE repo_allowed(p, r) /\ requested # NoPerms /\ Within(requested, e)
  <2>1. v = [allowed |-> TRUE, reason |-> "granted", granted |-> requested]
    BY <1>7 DEF evaluate, judge, e
  <2> QED
    BY <2>1, <1>7 DEF Verdict, Reason, e
<1>8. CASE repo_allowed(p, r) /\ requested # NoPerms /\ ~ Within(requested, e)
  <2>1. v = Denied("permission")
    BY <1>8 DEF evaluate, judge, e
  <2>2. v \in Verdict /\ v.allowed = FALSE
    BY <2>1, <1>3 DEF Denied, Verdict, Reason
  <2> QED
    BY <2>2, Zenon
<1> QED
  BY <1>5, <1>6, <1>7, <1>8
=============================================================================
