---------------------------- MODULE AppAuthProofs ----------------------------
(***************************************************************************)
(* Proofs about AppAuth, for any number of threads, repositories and       *)
(* permissions and any lifetimes: type correctness, and that no            *)
(* interleaving of lookups, exchanges and stores hands a caller a token of *)
(* another scope, a stale one, or an old one where a refresh was forced.   *)
(***************************************************************************)
EXTENDS AppAuth, TLAPS

\* A token for the arguments a.
For(t, a) ==
  /\ has_installation(a.owner)
  /\ t.inst = installation_for(a.owner)
  /\ t.repo = Hosted[t.inst][a.name] /\ t.repo # NoRepo
  /\ t.permissions = wanted(a)

\* The cached token of a key is of that key's scope and was issued by now.
CacheSound ==
  \A k \in DOMAIN cache :
    /\ cache[k].inst = k.inst
    /\ cache[k].repo = Hosted[k.inst][k.name] /\ cache[k].repo # NoRepo
    /\ cache[k].permissions = k.permissions
    /\ cache[k].expires <= now + TTL

\* A call between its miss and its store: it has an installation, is within its
\* exchange, and the token on its way is its own, issued since it began.
CallSound(c) ==
  /\ pc[c] \in Busy =>
       /\ has_installation(arg[c].owner)
       /\ begun[c] <= now /\ now <= begun[c] + Exchange
       /\ seen[c] <= minted
  /\ pc[c] = "answered" =>
       /\ For(tok[c], arg[c])
       /\ begun[c] + TTL <= tok[c].expires
       /\ tok[c].expires <= now + TTL
       /\ tok[c].id > seen[c]
  /\ pc[c] = "returned" => For(tok[c], arg[c])

AuthInv == AuthTypeOK /\ CacheSound /\ \A c \in Call : CallSound(c)

-----------------------------------------------------------------------------
LEMMA AnAskType == AnAsk \in Asks
BY CallAssumption DEF AnAsk

\* The scope of a call that has an installation is a cache key.
LEMMA ScopeType ==
  ASSUME NEW a \in Asks, has_installation(a.owner)
  PROVE  /\ installation_for(a.owner) \in Inst
         /\ wanted(a) \in PermMap(AskLevel)
         /\ a.name \in Name
         /\ scope_key(a) \in Key
         /\ Hosted[installation_for(a.owner)][a.name] \in HostedRepo
<1>1. a \in Ask
  BY CallAssumption
<1>2. installation_for(a.owner) \in Inst
  BY AuthAssumption DEF has_installation, installation_for
<1>3. wanted(a) \in PermMap(AskLevel) /\ a.name \in Name
  BY <1>1, AuthAssumption DEF Ask, wanted
<1> QED
  BY <1>2, <1>3 DEF scope_key, Key, HostedRepo

LEMMA AuthInitInv == InitAuth => AuthInv
<1> SUFFICES ASSUME InitAuth PROVE AuthInv
  OBVIOUS
<1>1. AuthTypeOK
  BY AnAskType DEF InitAuth, AuthTypeOK
<1>2. CacheSound
  BY DEF InitAuth, CacheSound
<1>3. \A c \in Call : CallSound(c)
  BY DEF InitAuth, CallSound, Busy
<1> QED
  BY <1>1, <1>2, <1>3 DEF AuthInv

\* What a call that ends with an exception, or leaves, keeps.
LEMMA QuietEndInv ==
  ASSUME AuthInv, NEW c \in Call, NEW how \in {"failed", "raised"},
         End(c, how, NoToken), arg' \in [Call -> Asks],
         \A d \in Call \ {c} : arg'[d] = arg[d],
         UNCHANGED <<now, cache, minted>>
  PROVE  AuthInv'
<1>1. AuthTypeOK'
  BY DEF AuthInv, AuthTypeOK, End, Ended
<1>2. CacheSound'
  BY DEF AuthInv, CacheSound
<1>3. ASSUME NEW d \in Call PROVE CallSound(d)'
  BY <1>3 DEF AuthInv, AuthTypeOK, End, CallSound, Busy, For
<1> QED
  BY <1>1, <1>2, <1>3 DEF AuthInv

\* A hit hands out a token that is for the arguments and still usable.
LEMMA HitInv ==
  ASSUME AuthInv, NEW c \in Call, NEW a \in Asks, Hit(c, a)
  PROVE  AuthInv' /\ tok'[c].expires > now + Slack
<1> DEFINE k == scope_key(a)
           t == cache[k]
<1>1. /\ k \in DOMAIN cache
      /\ t \in Token
      /\ t.expires > now + Slack
  BY DEF Hit, hit, usable, AuthInv, AuthTypeOK
<1>2. For(t, a)
  <2>1. /\ t.inst = k.inst
        /\ t.repo = Hosted[k.inst][k.name] /\ t.repo # NoRepo
        /\ t.permissions = k.permissions
    BY <1>1 DEF AuthInv, CacheSound
  <2>2. /\ k.inst = installation_for(a.owner)
        /\ k.name = a.name
        /\ k.permissions = wanted(a)
        /\ has_installation(a.owner)
    BY DEF scope_key, Hit
  <2> HIDE DEF k, t
  <2> QED
    BY <2>1, <2>2 DEF For
<1> HIDE DEF k, t
<1>3. /\ pc' = [pc EXCEPT ![c] = "returned"]
      /\ tok' = [tok EXCEPT ![c] = t]
      /\ begun' = [begun EXCEPT ![c] = 0]
      /\ seen' = [seen EXCEPT ![c] = 0]
      /\ arg' = [arg EXCEPT ![c] = a]
      /\ UNCHANGED <<now, cache, minted>>
  BY DEF Hit, Enter, End, k, t
<1>4. AuthTypeOK'
  BY <1>1, <1>3 DEF AuthInv, AuthTypeOK, Ended
<1>5. CacheSound'
  BY <1>3 DEF AuthInv, CacheSound
<1>6. ASSUME NEW d \in Call PROVE CallSound(d)'
  BY <1>2, <1>3, <1>6 DEF AuthInv, AuthTypeOK, CallSound, Busy, For
<1>7. tok'[c] = t
  BY <1>3 DEF AuthInv, AuthTypeOK
<1> QED
  BY <1>1, <1>4, <1>5, <1>6, <1>7 DEF AuthInv

LEMMA MissInv ==
  ASSUME AuthInv, NEW c \in Call, NEW a \in Asks, Miss(c, a)
  PROVE  AuthInv'
<1>1. AuthTypeOK'
  BY DEF Miss, Enter, AuthInv, AuthTypeOK, Busy
<1>2. CacheSound'
  BY DEF Miss, AuthInv, CacheSound
<1>3. ASSUME NEW d \in Call PROVE CallSound(d)'
  <2>1. now \in Nat /\ now <= now + Exchange /\ minted \in Nat
    BY AuthAssumption DEF AuthInv, AuthTypeOK
  <2> QED
    BY <1>3, <2>1 DEF Miss, Enter, AuthInv, AuthTypeOK, CallSound, Busy, For
<1> QED
  BY <1>1, <1>2, <1>3 DEF AuthInv

LEMMA IssueInv ==
  ASSUME AuthInv, NEW c \in Call, Issue(c)
  PROVE  AuthInv'
<1> DEFINE a == arg[c]
           i == installation_for(a.owner)
           t == [id |-> minted + 1, expires |-> now + TTL, inst |-> i,
                 repo |-> Hosted[i][a.name], permissions |-> wanted(a)]
<1>1. a \in Asks /\ has_installation(a.owner)
  BY DEF Issue, AuthInv, AuthTypeOK, CallSound, Busy
<1>2. t \in Token
  BY <1>1, ScopeType, AuthAssumption DEF Token, AuthInv, AuthTypeOK
<1>3. For(t, a)
  BY <1>1 DEF For, Issue
<1>4. /\ pc' = [pc EXCEPT ![c] = "answered"]
      /\ tok' = [tok EXCEPT ![c] = t]
      /\ minted' = minted + 1
      /\ UNCHANGED <<now, cache, arg, begun, seen>>
  BY DEF Issue
<1>5. t.id = minted + 1 /\ t.expires = now + TTL
  OBVIOUS
<1> HIDE DEF t
<1>6. AuthTypeOK'
  BY <1>2, <1>4 DEF AuthInv, AuthTypeOK, Busy
<1>7. CacheSound'
  BY <1>4 DEF AuthInv, CacheSound
<1>8. ASSUME NEW d \in Call PROVE CallSound(d)'
  <2>1. /\ now \in Nat /\ minted \in Nat /\ TTL \in Nat /\ Exchange \in Nat
        /\ begun[d] \in Nat /\ seen[d] \in Nat
    BY AuthAssumption DEF AuthInv, AuthTypeOK
  <2>2. /\ CallSound(d)
        /\ pc[c] = "minting"
        /\ d # c => tok'[d] = tok[d] /\ pc'[d] = pc[d]
        /\ tok'[c] = t /\ pc'[c] = "answered"
    BY <1>4 DEF AuthInv, AuthTypeOK, Issue
  <2>3. CASE d = c
    BY <1>3, <1>4, <1>5, <2>1, <2>2, <2>3 DEF CallSound, Busy, For
  <2>4. CASE d # c
    BY <1>4, <2>1, <2>2, <2>4 DEF CallSound, Busy, For
  <2> QED
    BY <2>3, <2>4
<1> QED
  BY <1>6, <1>7, <1>8 DEF AuthInv

\* A store leaves the cache sound, and what it returns is usable and new.
LEMMA StoreInv ==
  ASSUME AuthInv, NEW c \in Call, Store(c)
  PROVE  /\ AuthInv'
         /\ tok'[c] = tok[c]
         /\ tok[c].id > seen[c]
         /\ tok[c].expires > now + Slack
         /\ \A k \in DOMAIN cache :
              /\ k \in DOMAIN cache'
              /\ cache'[k] # cache[k] => cache'[k] = tok[c]
<1> DEFINE k == scope_key(arg[c])
           t == tok[c]
<1>1. /\ arg[c] \in Asks /\ has_installation(arg[c].owner)
      /\ t \in Token /\ For(t, arg[c])
      /\ begun[c] + TTL <= t.expires /\ t.expires <= now + TTL
      /\ now <= begun[c] + Exchange
      /\ t.id > seen[c]
  BY DEF Store, AuthInv, AuthTypeOK, CallSound, Busy
<1>2. k \in Key
  BY <1>1, ScopeType
<1>3. /\ k.inst = t.inst /\ t.permissions = k.permissions
      /\ t.repo = Hosted[k.inst][k.name] /\ t.repo # NoRepo
  BY <1>1 DEF For, scope_key
<1>4. t.expires > now + Slack
  <2>1. /\ now \in Nat /\ begun[c] \in Nat /\ t.expires \in Nat
        /\ TTL \in Nat /\ Slack \in Nat /\ Exchange \in Nat
    BY <1>1, AuthAssumption DEF AuthInv, AuthTypeOK, Token
  <2> HIDE DEF t
  <2> QED
    BY <1>1, <2>1, LifetimeAssumption
<1>5. /\ cache' = [j \in DOMAIN cache \cup {k} |-> IF j = k THEN t ELSE cache[j]]
      /\ pc' = [pc EXCEPT ![c] = "returned"]
      /\ tok' = [tok EXCEPT ![c] = t]
      /\ begun' = [begun EXCEPT ![c] = 0]
      /\ seen' = [seen EXCEPT ![c] = 0]
      /\ UNCHANGED <<now, minted, arg>>
  BY DEF Store, End
<1>6. tok' = tok
  BY <1>5 DEF AuthInv, AuthTypeOK
<1> HIDE DEF k, t
<1>7. /\ DOMAIN cache' = DOMAIN cache \cup {k}
      /\ \A j \in DOMAIN cache' : cache'[j] = IF j = k THEN t ELSE cache[j]
  BY <1>5
<1>8. AuthTypeOK'
  BY <1>1, <1>2, <1>5, <1>6, <1>7 DEF AuthInv, AuthTypeOK, Ended, t
<1>9. CacheSound'
  BY <1>1, <1>3, <1>5, <1>7 DEF AuthInv, CacheSound
<1>10. ASSUME NEW d \in Call PROVE CallSound(d)'
  BY <1>1, <1>5, <1>6, <1>10 DEF AuthInv, AuthTypeOK, CallSound, Busy, For, t
<1> QED
  BY <1>1, <1>4, <1>6, <1>7, <1>8, <1>9, <1>10 DEF AuthInv, t

LEMMA LeaveInv ==
  ASSUME AuthInv, NEW c \in Call, Leave(c)
  PROVE  AuthInv'
<1>1. AuthTypeOK'
  BY AnAskType DEF Leave, AuthInv, AuthTypeOK
<1>2. CacheSound'
  BY DEF Leave, AuthInv, CacheSound
<1>3. ASSUME NEW d \in Call PROVE CallSound(d)'
  BY <1>3 DEF Leave, AuthInv, AuthTypeOK, CallSound, Busy, For
<1> QED
  BY <1>1, <1>2, <1>3 DEF AuthInv

LEMMA TickInv ==
  ASSUME AuthInv, Tick
  PROVE  AuthInv'
<1>1. /\ now \in Nat /\ TTL \in Nat /\ Exchange \in Nat
      /\ \A d \in Call : begun[d] \in Nat
  BY AuthAssumption DEF AuthInv, AuthTypeOK
<1>2. AuthTypeOK'
  BY <1>1 DEF Tick, AuthInv, AuthTypeOK
<1>3. CacheSound'
  <2>1. \A k \in DOMAIN cache : cache[k].expires \in Nat
    BY DEF AuthInv, AuthTypeOK, Token
  <2> QED
    BY <1>1, <2>1 DEF Tick, AuthInv, CacheSound
<1>4. ASSUME NEW d \in Call PROVE CallSound(d)'
  <2>1. pc[d] = "answered" => tok[d].expires \in Nat
    BY DEF AuthInv, AuthTypeOK, Token
  <2> QED
    BY <1>1, <1>4, <2>1 DEF Tick, AuthInv, CallSound, Busy, For
<1> QED
  BY <1>2, <1>3, <1>4 DEF AuthInv

\* Calls that end with an exception.
LEMMA ExceptionInv ==
  ASSUME AuthInv, NEW c \in Call,
         \/ \E a \in Asks : NoInstallation(c, a)
         \/ Fail(c)
         \/ Raise(c)
  PROVE  AuthInv'
<1>1. CASE \E a \in Asks : NoInstallation(c, a)
  <2>1. PICK a \in Asks : NoInstallation(c, a)
    BY <1>1
  <2>2. arg' \in [Call -> Asks] /\ \A d \in Call \ {c} : arg'[d] = arg[d]
    BY <2>1 DEF NoInstallation, Enter, AuthInv, AuthTypeOK
  <2> QED
    BY <2>1, <2>2, QuietEndInv DEF NoInstallation
<1>2. arg \in [Call -> Asks]
  BY DEF AuthInv, AuthTypeOK
<1>3. CASE Fail(c)
  BY <1>2, <1>3, QuietEndInv DEF Fail
<1>4. CASE Raise(c)
  BY <1>2, <1>4, QuietEndInv DEF Raise
<1> QED
  BY <1>1, <1>3, <1>4

LEMMA AuthNextInv == AuthInv /\ [NextAuth]_authVars => AuthInv'
<1> SUFFICES ASSUME AuthInv, [NextAuth]_authVars PROVE AuthInv'
  OBVIOUS
<1>1. ASSUME NEW c \in Call, NEW a \in Asks, Begin(c, a) PROVE AuthInv'
  BY <1>1, ExceptionInv, HitInv, MissInv DEF Begin
<1>2. ASSUME NEW c \in Call, Proceed(c) PROVE AuthInv'
  BY <1>2, ExceptionInv, IssueInv, StoreInv DEF Proceed
<1>3. ASSUME NEW c \in Call, Leave(c) PROVE AuthInv'
  BY <1>3, LeaveInv
<1>4. CASE Tick
  BY <1>4, TickInv
<1>5. CASE UNCHANGED authVars
  BY <1>5 DEF authVars, AuthInv, AuthTypeOK, CacheSound, CallSound, For
<1> QED
  BY <1>1, <1>2, <1>3, <1>4, <1>5 DEF NextAuth

\* Every reachable state of the token cache satisfies the invariant.
THEOREM AuthInvariant == SpecAuth => []AuthInv
BY AuthInitInv, AuthNextInv, PTL DEF SpecAuth

\* The cache and the calls are always well typed (auth.py:63-151).
THEOREM AuthTypeCorrect == SpecAuth => []AuthTypeOK
<1>1. AuthInv => AuthTypeOK
  BY DEF AuthInv
<1> QED
  BY <1>1, AuthInvariant, PTL

\* A token returned is for the repository, the installation and the
\* permissions of the call, whichever call minted it (auth.py:51-60, 96-135).
THEOREM ReturnsWhatWasAsked == SpecAuth => []ReturnedForAsk
<1>1. AuthInv => ReturnedForAsk
  BY DEF AuthInv, CallSound, For, wanted, ReturnedForAsk
<1> QED
  BY <1>1, AuthInvariant, PTL

-----------------------------------------------------------------------------
\* A step in which a call comes to return is its hit or its store.
LEMMA ReturnStep ==
  ASSUME AuthInv, NextAuth, NEW c \in Call, pc[c] # "returned", pc'[c] = "returned"
  PROVE  (\E a \in Asks : Hit(c, a)) \/ Store(c)
<1>1. pc \in [Call -> {"idle"} \cup Busy \cup Ended]
  BY DEF AuthInv, AuthTypeOK
<1>2. ASSUME NEW d \in Call, NEW a \in Asks, Begin(d, a)
      PROVE  \E b \in Asks : Hit(c, b)
  BY <1>1, <1>2 DEF Begin, NoInstallation, Hit, Miss, End
<1>3. ASSUME NEW d \in Call, Proceed(d) PROVE Store(c)
  BY <1>1, <1>3 DEF Proceed, Issue, Store, Fail, Raise, End
<1>4. ASSUME NEW d \in Call, Leave(d) PROVE FALSE
  BY <1>1, <1>4 DEF Leave
<1>5. CASE Tick
  BY <1>5 DEF Tick
<1> QED
  BY <1>2, <1>3, <1>4, <1>5 DEF NextAuth

LEMMA UsableStep ==
  ASSUME AuthInv, [NextAuth]_authVars, NEW c \in Call,
         pc[c] # "returned", pc'[c] = "returned"
  PROVE  tok'[c].expires > now + Slack
<1>1. NextAuth
  BY DEF authVars
<1>2. CASE \E a \in Asks : Hit(c, a)
  BY <1>2, HitInv
<1>3. CASE Store(c)
  BY <1>3, StoreInv
<1> QED
  BY <1>1, <1>2, <1>3, ReturnStep

LEMMA ForcedStep ==
  ASSUME AuthInv, [NextAuth]_authVars, NEW c \in Call,
         pc[c] # "returned", pc'[c] = "returned", arg'[c].force
  PROVE  tok'[c].id > IF pc[c] \in Busy THEN seen[c] ELSE minted
<1>1. NextAuth
  BY DEF authVars
<1>2. ASSUME NEW a \in Asks, Hit(c, a) PROVE FALSE
  <2>1. arg'[c] = a
    BY <1>2 DEF Hit, Enter, AuthInv, AuthTypeOK
  <2> QED
    BY <1>2, <2>1 DEF Hit
<1>3. CASE Store(c)
  <2>1. pc[c] \in Busy
    BY <1>3 DEF Store, Busy
  <2> QED
    BY <1>3, <2>1, StoreInv
<1> QED
  BY <1>1, <1>2, <1>3, ReturnStep

\* A token is usable when handed out, from the cache or from GitHub
\* (auth.py:100-105, 123).
THEOREM HandsOutUsable == SpecAuth => HandedOutUsable
<1> DEFINE P(c) == pc[c] # "returned" /\ pc'[c] = "returned"
                   => tok'[c].expires > now + Slack
<1>1. AuthInv /\ [NextAuth]_authVars => [\A c \in Call : P(c)]_authVars
  BY UsableStep
<1> QED
  BY <1>1, AuthInvariant, PTL DEF SpecAuth, HandedOutUsable

\* A forced refresh returns a token issued since it began (auth.py:100-105).
THEOREM ForcedRefreshes == SpecAuth => ForcedIsFresh
<1> DEFINE P(c) == pc[c] # "returned" /\ pc'[c] = "returned" /\ arg'[c].force
                   => tok'[c].id > IF pc[c] \in Busy THEN seen[c] ELSE minted
<1>1. AuthInv /\ [NextAuth]_authVars => [\A c \in Call : P(c)]_authVars
  BY ForcedStep
<1> QED
  BY <1>1, AuthInvariant, PTL DEF SpecAuth, ForcedIsFresh

\* The store that comes last may go back in time by one exchange at most, and
\* never makes a usable entry unusable (auth.py:134).
THEOREM LateStoresAreBounded == SpecAuth => LateStoreBounded
<1> DEFINE P(k) ==
      /\ k \in DOMAIN cache'
      /\ cache[k].expires - cache'[k].expires <= Exchange
      /\ usable(cache[k]) /\ now' = now => cache'[k].expires > now + Slack
<1>1. AuthInv /\ [NextAuth]_authVars => [\A k \in DOMAIN cache : P(k)]_authVars
  <2> SUFFICES ASSUME AuthInv, NextAuth, NEW k \in DOMAIN cache PROVE P(k)
    BY DEF authVars
  <2>1. /\ cache[k].expires \in Nat /\ cache[k].expires <= now + TTL
        /\ now \in Nat /\ TTL \in Nat /\ Slack \in Nat /\ Exchange \in Nat
    BY AuthAssumption DEF AuthInv, AuthTypeOK, CacheSound, Token
  <2>2. ASSUME NEW c \in Call, Store(c) PROVE P(k)
    <3>1. /\ k \in DOMAIN cache'
          /\ cache'[k] # cache[k] => cache'[k] = tok[c]
          /\ tok[c].expires > now + Slack
      BY <2>2, StoreInv
    <3>2. /\ begun[c] + TTL <= tok[c].expires /\ now <= begun[c] + Exchange
          /\ begun[c] \in Nat /\ tok[c].expires \in Nat
      BY <2>2 DEF Store, AuthInv, AuthTypeOK, CallSound, Busy, Token
    <3>3. CASE cache'[k] = cache[k]
      BY <2>1, <3>1, <3>3 DEF usable
    <3>4. CASE cache'[k] = tok[c]
      BY <2>1, <3>1, <3>2, <3>4
    <3> QED
      BY <3>1, <3>3, <3>4
  <2>3. CASE UNCHANGED cache
    BY <2>1, <2>3 DEF usable
  <2>4. (\E c \in Call : Store(c)) \/ UNCHANGED cache
    BY DEF NextAuth, Begin, Proceed, NoInstallation, Hit, Miss, Issue, Fail, Raise,
           Leave, Tick
  <2> QED
    BY <2>2, <2>3, <2>4
<1> QED
  BY <1>1, AuthInvariant, PTL DEF SpecAuth, LateStoreBounded
=============================================================================
