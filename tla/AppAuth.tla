------------------------------- MODULE AppAuth -------------------------------
(***************************************************************************)
(* GitHubAppAuth (auth.py): installation tokens minted from the App key    *)
(* and kept in a cache that every thread of the process shares, with no    *)
(* lock around the lookup, the exchange with GitHub and the store.         *)
(* GitHub itself, which issues the tokens, is external.                    *)
(***************************************************************************)
EXTENDS Permissions

CONSTANTS
  Call,           \* the threads that mint, each one call at a time
  Asks,           \* the calls they make
  Owner,          \* repository owners, lowercased
  Name,           \* bare repository names, as callers spell them
  Inst,           \* installation ids
  AnyOwner,       \* the key "*" of a legacy installation
  Installations,  \* config.installations: owner (or "*") -> installation id
  Hosted,         \* GitHub: the repository a name denotes in an installation
  NoRepo,         \* ... or that there is none
  ConfigDefault,  \* config.default_permissions
  TTL,            \* life of an installation token (an hour)
  Slack,          \* _EXPIRY_SLACK
  Exchange,       \* longest time from the cache miss to the stored answer
  NoToken,
  MaxTime,        \* bound on the clock
  MaxMint         \* bound on the tokens GitHub issues

ASSUME AuthAssumption ==
  /\ AnyOwner \notin Owner
  /\ DOMAIN Installations \subseteq Owner \cup {AnyOwner}
  /\ \A o \in DOMAIN Installations : Installations[o] \in Inst
  /\ ConfigDefault \in PermMap(AskLevel) /\ ConfigDefault # NoPerms
  /\ TTL \in Nat /\ Slack \in Nat /\ Exchange \in Nat
  /\ MaxTime \in Nat /\ MaxMint \in Nat

\* The token outlives the slack by more than an exchange with GitHub takes:
\* 60 minutes against 5, the 20-second phases of the HTTP client, and a key
\* command assumed to be quick (nothing bounds it).
ASSUME LifetimeAssumption == TTL > Slack + Exchange

\* The arguments of mint_for_repo, after split_repo.
Ask == [owner : Owner, name : Name, permissions : PermMap(AskLevel), force : BOOLEAN]

HostedRepo == UNION {{Hosted[i][n] : n \in Name} : i \in Inst}

\* _scope_key
Key == [inst : Inst, name : Name, permissions : PermMap(AskLevel)]

\* InstallationToken; its id is the order in which GitHub issued it.
Token ==
  [id : Nat, expires : Nat, inst : Inst, repo : HostedRepo,
   permissions : PermMap(AskLevel)]

ASSUME CallAssumption ==
  /\ Asks # {} /\ Asks \subseteq Ask
  /\ NoToken \notin Token

AnAsk == CHOOSE a \in Asks : TRUE

VARIABLES
  now,        \* the clock, shared with GitHub
  cache,      \* GitHubAppAuth._cache
  minted,     \* how many tokens GitHub has issued
  pc,         \* pc[c] : where call c stands
  arg,        \* arg[c] : the arguments of call c
  begun,      \* begun[c] : when call c missed the cache, and
  seen,       \* seen[c] : how many tokens were issued by then
  tok         \* tok[c] : the token call c holds

authVars == <<now, cache, minted, pc, arg, begun, seen, tok>>

Ended == {"returned", "failed", "raised"}
Busy  == {"minting", "answered"}

-----------------------------------------------------------------------------
has_installation(owner) ==
  owner \in DOMAIN Installations \/ AnyOwner \in DOMAIN Installations

installation_for(owner) ==
  IF owner \in DOMAIN Installations THEN Installations[owner]
  ELSE Installations[AnyOwner]

\* mint_for_repo: an empty permission mapping means the configured one.
wanted(a) == IF a.permissions = NoPerms THEN ConfigDefault ELSE a.permissions

\* mutant: the key leaves the permissions out
KeyWithoutPermissions(a) ==
  [inst |-> installation_for(a.owner), name |-> a.name, permissions |-> ConfigDefault]

scope_key(a) ==
  [inst |-> installation_for(a.owner), name |-> a.name, permissions |-> wanted(a)]

\* mutant: a token is good until it expires
UsableUntilExpiry(t) == t.expires > now

\* expires_at > now + _EXPIRY_SLACK
usable(t) == t.expires > now + Slack

hit(a) == scope_key(a) \in DOMAIN cache /\ usable(cache[scope_key(a)])

InitAuth ==
  /\ now = 0
  /\ cache = [k \in {} |-> NoToken]
  /\ minted = 0
  /\ pc = [c \in Call |-> "idle"]
  /\ arg = [c \in Call |-> AnAsk]
  /\ begun = [c \in Call |-> 0]
  /\ seen = [c \in Call |-> 0]
  /\ tok = [c \in Call |-> NoToken]

Enter(c, a) ==
  /\ pc[c] = "idle"
  /\ arg' = [arg EXCEPT ![c] = a]

\* The call ends, with a token or an exception.
End(c, how, t) ==
  /\ pc' = [pc EXCEPT ![c] = how]
  /\ tok' = [tok EXCEPT ![c] = t]
  /\ begun' = [begun EXCEPT ![c] = 0]
  /\ seen' = [seen EXCEPT ![c] = 0]

\* installation_for raises ConfigurationError: no installation for the owner.
NoInstallation(c, a) ==
  /\ Enter(c, a)
  /\ ~ has_installation(a.owner)
  /\ End(c, "failed", NoToken)
  /\ UNCHANGED <<now, cache, minted>>

\* mutant: force_refresh is ignored
HitWhenForced(c, a) ==
  /\ Enter(c, a)
  /\ has_installation(a.owner)
  /\ hit(a)
  /\ End(c, "returned", cache[scope_key(a)])
  /\ UNCHANGED <<now, cache, minted>>

Hit(c, a) ==
  /\ Enter(c, a)
  /\ has_installation(a.owner)
  /\ ~ a.force
  /\ hit(a)
  /\ End(c, "returned", cache[scope_key(a)])
  /\ UNCHANGED <<now, cache, minted>>

Miss(c, a) ==
  /\ Enter(c, a)
  /\ has_installation(a.owner)
  /\ a.force \/ ~ hit(a)
  /\ pc' = [pc EXCEPT ![c] = "minting"]
  /\ tok' = [tok EXCEPT ![c] = NoToken]
  /\ begun' = [begun EXCEPT ![c] = now]
  /\ seen' = [seen EXCEPT ![c] = minted]
  /\ UNCHANGED <<now, cache, minted>>

\* GitHub grants the POST: a token for the one repository and the permissions
\* of the body, on its way back.
Issue(c) ==
  LET a == arg[c]
      i == installation_for(a.owner)
  IN
  /\ pc[c] = "minting"
  /\ minted < MaxMint
  /\ Hosted[i][a.name] # NoRepo
  /\ minted' = minted + 1
  /\ tok' = [tok EXCEPT ![c] =
               [id |-> minted + 1, expires |-> now + TTL, inst |-> i,
                repo |-> Hosted[i][a.name], permissions |-> wanted(a)]]
  /\ pc' = [pc EXCEPT ![c] = "answered"]
  /\ UNCHANGED <<now, cache, arg, begun, seen>>

\* mutant: a new token replaces the whole cache
StoreAlone(c) ==
  /\ pc[c] = "answered"
  /\ cache' = [j \in {scope_key(arg[c])} |-> tok[c]]
  /\ End(c, "returned", tok[c])
  /\ UNCHANGED <<now, minted, arg>>

\* The answer is read, stored whatever the cache holds by now, and returned.
Store(c) ==
  LET k == scope_key(arg[c]) IN
  /\ pc[c] = "answered"
  /\ cache' = [j \in DOMAIN cache \cup {k} |-> IF j = k THEN tok[c] ELSE cache[j]]
  /\ End(c, "returned", tok[c])
  /\ UNCHANGED <<now, minted, arg>>

\* mutant: an exception is swallowed and None returned
FailReturningNone(c) ==
  /\ pc[c] \in Busy
  /\ End(c, "returned", NoToken)
  /\ UNCHANGED <<now, cache, minted, arg>>

\* The key source raises ConfigurationError, GitHub answers 4xx or 5xx, or the
\* request times out, before or after the token was issued.
Fail(c) ==
  /\ pc[c] \in Busy
  /\ End(c, "failed", NoToken)
  /\ UNCHANGED <<now, cache, minted, arg>>

\* Any other exception: the key command is not found, the key is no PEM, the
\* body of the answer is not the JSON expected.
Raise(c) ==
  /\ pc[c] \in Busy
  /\ End(c, "raised", NoToken)
  /\ UNCHANGED <<now, cache, minted, arg>>

\* The caller is done with the result and may call again.
Leave(c) ==
  /\ pc[c] \in Ended
  /\ pc' = [pc EXCEPT ![c] = "idle"]
  /\ arg' = [arg EXCEPT ![c] = AnAsk]
  /\ tok' = [tok EXCEPT ![c] = NoToken]
  /\ UNCHANGED <<now, cache, minted, begun, seen>>

\* Time passes, but no exchange outlasts its bound.
Tick ==
  /\ now < MaxTime
  /\ \A c \in Call : pc[c] \in Busy => now < begun[c] + Exchange
  /\ now' = now + 1
  /\ UNCHANGED <<cache, minted, pc, arg, begun, seen, tok>>

Begin(c, a) == NoInstallation(c, a) \/ Hit(c, a) \/ Miss(c, a)
Proceed(c)  == Issue(c) \/ Store(c) \/ Fail(c) \/ Raise(c)

NextAuth ==
  \/ \E c \in Call, a \in Asks : Begin(c, a)
  \/ \E c \in Call : Proceed(c) \/ Leave(c)
  \/ Tick

SpecAuth == InitAuth /\ [][NextAuth]_authVars

-----------------------------------------------------------------------------
\* Cache and calls are well typed, and a call that returned holds a token
\* (auth.py:66-135).
AuthTypeOK ==
  /\ now \in Nat /\ minted \in Nat
  /\ DOMAIN cache \subseteq Key
  /\ \A k \in DOMAIN cache : cache[k] \in Token
  /\ pc \in [Call -> {"idle"} \cup Busy \cup Ended]
  /\ arg \in [Call -> Asks]
  /\ begun \in [Call -> Nat] /\ seen \in [Call -> Nat]
  /\ tok \in [Call -> Token \cup {NoToken}]
  /\ \A c \in Call : pc[c] \in {"answered", "returned"} => tok[c] \in Token

\* A call is never handed a token for another repository, another installation
\* or other permissions than it asked for, whoever filled the cache entry it
\* hit (auth.py:51-60, 96-105, 134).
ReturnedForAsk ==
  \A c \in Call : pc[c] = "returned" =>
    LET a == arg[c] IN
    /\ tok[c].inst = installation_for(a.owner)
    /\ tok[c].repo = Hosted[tok[c].inst][a.name]
    /\ tok[c].permissions =
         IF a.permissions = NoPerms THEN ConfigDefault ELSE a.permissions

\* A forced refresh returns a token issued after the call began, however many
\* other calls filled the cache meanwhile (auth.py:100-105).
ForcedIsFresh ==
  [][\A c \in Call : pc[c] # "returned" /\ pc'[c] = "returned" /\ arg'[c].force
       => tok'[c].id > IF pc[c] \in Busy THEN seen[c] ELSE minted]_authVars

\* A token is more than the slack away from its expiry when it is handed out,
\* cached or just minted (auth.py:18-19, 100-105).
HandedOutUsable ==
  [][\A c \in Call : pc[c] # "returned" /\ pc'[c] = "returned"
       => tok'[c].expires > now + Slack]_authVars

\* Two calls that missed together store in either order; the later store may
\* replace a younger token, but never by one that is older by more than one
\* exchange, and so never a usable token by an unusable one (auth.py:134).
LateStoreBounded ==
  [][\A k \in DOMAIN cache :
       /\ k \in DOMAIN cache'
       /\ cache[k].expires - cache'[k].expires <= Exchange
       /\ usable(cache[k]) /\ now' = now => cache'[k].expires > now + Slack]_authVars
=============================================================================
