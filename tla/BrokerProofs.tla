---------------------------- MODULE BrokerProofs ----------------------------
(***************************************************************************)
(* Proofs about Broker, for any number of threads, clients' requests,      *)
(* policies, crashes and restarts: what is minted is what the policy in    *)
(* force decided, tokens stay within its ceiling, and nothing leaves the   *)
(* broker without its audit line.                                          *)
(***************************************************************************)
EXTENDS Broker, AppAuthProofs, PolicyLemmas

\* The decision an audit line of a status carries.
LineOf(s) == CASE s = 200 -> "granted" [] s = 502 -> "error" [] OTHER -> "denied"

\* What is in progress in thread c was allowed by the policy in force.
Allowed(c) == decide(req[c]).allowed /\ effective[c] = decide(req[c]).granted

ThreadInv(c) ==
  /\ stage[c] \in {"free", "refusing"} => pc[c] = "idle"
  /\ stage[c] = "refusing" => status[c] \in {400, 403}
  /\ stage[c] = "minting" => Allowed(c)
  /\ pc[c] # "idle" => Allowed(c) /\ arg[c] = mint_ask(c)
  /\ status[c] = 200 => pc[c] = "returned"
  /\ stage[c] \in {"audited", "answered"} => line[c] = LineOf(status[c])
  /\ stage[c] = "audited" /\ status[c] = 200 => grant(c) \in logged

BrokerInv ==
  /\ TypeOK
  /\ AuthInv
  /\ \A c \in Call : ThreadInv(c)
  /\ ~ up => \A c \in Call : stage[c] = "free"
  /\ delivered \subseteq logged

-----------------------------------------------------------------------------
LEMMA AnyRequestType == AnyRequest \in Request
<1>1. Request # {}
  BY CallAssumption, BrokerAssumption DEF Ask, Request
<1> QED
  BY <1>1 DEF AnyRequest

\* The policy in force decides with a verdict, within its ceiling.
LEMMA DecideType ==
  ASSUME TypeOK, NEW q \in Request
  PROVE  /\ repo_of(q) \in Repo
         /\ decide(q).granted \in PermMap(AskLevel)
         /\ decide(q).allowed =>
              /\ repo_allowed(policy, repo_of(q))
              /\ Within(decide(q).granted, effective_max(policy, repo_of(q)))
<1>1. policy \in PolicyRecord /\ q.permissions \in PermMap(AskLevel)
  BY BrokerAssumption DEF TypeOK, Request
<1>2. repo_of(q) \in Repo
  BY BrokerAssumption DEF repo_of, Request
<1> QED
  BY <1>1, <1>2, EvaluateWithinCeiling DEF decide, Verdict

LEMMA MintAskType ==
  ASSUME TypeOK, NEW c \in Call
  PROVE  mint_ask(c) \in Asks
<1>1. req[c] \in Request /\ effective[c] \in PermMap(AskLevel)
  BY DEF TypeOK
<1> QED
  BY <1>1, BrokerAssumption DEF mint_ask, Request, Ask

LEMMA GrantType ==
  ASSUME TypeOK, AuthInv, NEW c \in Call, pc[c] = "returned"
  PROVE  grant(c) \in Grant
<1>1. tok[c] \in Token
  BY DEF AuthInv, AuthTypeOK
<1>2. req[c] \in Request
  BY DEF TypeOK
<1> QED
  BY <1>1, <1>2, DecideType DEF grant, Grant, Token

\* A thread no step touches keeps its invariant; the audit stream only grows.
LEMMA ThreadFrame ==
  ASSUME NEW c \in Call, ThreadInv(c), policy' = policy, logged \subseteq logged',
         stage'[c] = stage[c], req'[c] = req[c], effective'[c] = effective[c],
         status'[c] = status[c], line'[c] = line[c],
         pc'[c] = pc[c], arg'[c] = arg[c], tok'[c] = tok[c]
  PROVE  ThreadInv(c)'
BY DEF ThreadInv, Allowed, decide, repo_of, mint_ask, grant, LineOf

-----------------------------------------------------------------------------
LEMMA BrokerInitInv == Init => BrokerInv
<1> SUFFICES ASSUME Init PROVE BrokerInv
  OBVIOUS
<1>1. AuthInv
  BY AuthInitInv DEF Init
<1>2. TypeOK
  BY <1>1, AnyRequestType, NoPermsType DEF Init, TypeOK, AuthInv, Stage
<1>3. ASSUME NEW c \in Call PROVE ThreadInv(c)
  BY DEF Init, InitAuth, ThreadInv
<1> QED
  BY <1>1, <1>2, <1>3 DEF BrokerInv, Init

\* To the cache and the calls, a step of the broker is one of AppAuth, or the
\* end of the process.
LEMMA BrokerAuthStep ==
  ASSUME TypeOK, [Next]_vars
  PROVE  [NextAuth]_authVars \/ Stop
<1>1. ASSUME NEW c \in Call, Mint(c) PROVE NextAuth
  BY <1>1, MintAskType DEF Mint, NextAuth
<1>2. ASSUME NEW c \in Call, Release(c) PROVE [NextAuth]_authVars
  BY <1>2 DEF Release, NextAuth
<1>3. CASE Advance
  BY <1>3 DEF Advance, NextAuth
<1>4. \/ UNCHANGED authVars
      \/ Advance \/ Stop
      \/ \E c \in Call : Mint(c) \/ Release(c)
  BY DEF Next, vars, Handle, ReceiveMalformed, ReceiveNonObject, Receive, AuditDenied,
         AuditError, AuditGranted, Unhandled, Respond, Disconnect, Restart
<1> QED
  BY <1>1, <1>2, <1>3, <1>4

\* The invariant of the cache and the calls survives every step of the broker.
LEMMA BrokerAuthInv ==
  ASSUME BrokerInv, [Next]_vars
  PROVE  AuthInv'
<1>1. AuthInv /\ TypeOK
  BY DEF BrokerInv
<1>2. CASE [NextAuth]_authVars
  BY <1>1, <1>2, AuthNextInv
<1>3. CASE Stop
  <2>1. AuthTypeOK'
    BY <1>1, <1>3, AnAskType DEF Stop, AuthInv, AuthTypeOK
  <2> QED
    BY <1>3, <2>1 DEF Stop, AuthInv, CacheSound, CallSound, Busy
<1> QED
  BY <1>1, <1>2, <1>3, BrokerAuthStep

-----------------------------------------------------------------------------
\* Reading a request, and what the policy makes of it.
LEMMA ReceiveInv ==
  ASSUME BrokerInv, NEW c \in Call,
         \/ ReceiveMalformed(c) \/ ReceiveNonObject(c)
         \/ \E q \in Requests : Receive(c, q)
  PROVE  /\ AuthInv' => TypeOK'
         /\ \A d \in Call : ThreadInv(d)'
<1>1. /\ TypeOK /\ \A d \in Call : ThreadInv(d)
      /\ stage[c] = "free" /\ pc[c] = "idle"
  BY DEF BrokerInv, ThreadInv, ReceiveMalformed, ReceiveNonObject, Receive
<1>2. CASE ReceiveMalformed(c)
  <2>1. AuthInv' => TypeOK'
    BY <1>1, <1>2 DEF ReceiveMalformed, TypeOK, AuthInv, Stage
  <2>2. ASSUME NEW d \in Call, d # c PROVE ThreadInv(d)'
    BY <1>1, <1>2, <2>2, ThreadFrame DEF ReceiveMalformed, TypeOK, authVars
  <2>3. ThreadInv(c)'
    BY <1>1, <1>2 DEF ReceiveMalformed, TypeOK, authVars, ThreadInv
  <2> QED
    BY <2>1, <2>2, <2>3
<1>3. CASE ReceiveNonObject(c)
  <2>1. AuthInv' => TypeOK'
    BY <1>1, <1>3 DEF ReceiveNonObject, TypeOK, AuthInv, Stage
  <2>2. ASSUME NEW d \in Call, d # c PROVE ThreadInv(d)'
    BY <1>1, <1>3, <2>2, ThreadFrame DEF ReceiveNonObject, TypeOK, authVars
  <2>3. ThreadInv(c)'
    BY <1>1, <1>3 DEF ReceiveNonObject, TypeOK, authVars, ThreadInv
  <2> QED
    BY <2>1, <2>2, <2>3
<1>4. ASSUME NEW q \in Requests, Receive(c, q)
      PROVE  /\ AuthInv' => TypeOK'
             /\ \A d \in Call : ThreadInv(d)'
  <2>1. q \in Request /\ decide(q).granted \in PermMap(AskLevel)
    BY <1>1, DecideType, BrokerAssumption
  <2>2. AuthInv' => TypeOK'
    BY <1>1, <1>4, <2>1 DEF Receive, TypeOK, AuthInv, Stage
  <2>3. ASSUME NEW d \in Call, d # c PROVE ThreadInv(d)'
    BY <1>1, <1>4, <2>3, ThreadFrame DEF Receive, TypeOK, authVars
  <2>4. req'[c] = q /\ pc'[c] = "idle" /\ policy' = policy
    BY <1>1, <1>4 DEF Receive, TypeOK, authVars
  <2>5. CASE decide(q).allowed
    <3>1. /\ stage'[c] = "minting" /\ effective'[c] = decide(q).granted
          /\ status'[c] = status[c]
      BY <1>1, <1>4, <2>5 DEF Receive, TypeOK
    <3>2. Allowed(c)'
      BY <2>4, <2>5, <3>1 DEF Allowed, decide, repo_of
    <3> QED
      BY <1>1, <2>2, <2>3, <2>4, <3>1, <3>2 DEF ThreadInv
  <2>6. CASE ~ decide(q).allowed
    <3>1. stage'[c] = "refusing" /\ status'[c] = 403
      BY <1>1, <1>4, <2>6 DEF Receive, TypeOK
    <3> QED
      BY <2>2, <2>3, <2>4, <3>1 DEF ThreadInv
  <2> QED
    BY <2>5, <2>6
<1> QED
  BY <1>2, <1>3, <1>4

\* What a step of the mint in thread c does to the calls.
LEMMA MintFrame ==
  ASSUME TypeOK, NEW c \in Call, Mint(c)
  PROVE  /\ \A d \in Call \ {c} : pc'[d] = pc[d] /\ arg'[d] = arg[d] /\ tok'[d] = tok[d]
         /\ pc[c] \in {"idle", "minting", "answered"}
         /\ pc'[c] # "idle"
         /\ IF pc[c] = "idle" THEN arg'[c] = mint_ask(c) ELSE arg'[c] = arg[c]
<1>1. /\ pc \in [Call -> {"idle"} \cup Busy \cup Ended]
      /\ arg \in [Call -> Asks]
      /\ tok \in [Call -> Token \cup {NoToken}]
  BY DEF TypeOK, AuthTypeOK
<1>2. CASE Begin(c, mint_ask(c))
  BY <1>1, <1>2 DEF Begin, NoInstallation, Hit, Miss, Enter, End
<1>3. CASE Proceed(c)
  BY <1>1, <1>3 DEF Proceed, Issue, Store, Fail, Raise, End, Busy
<1> QED
  BY <1>2, <1>3 DEF Mint

LEMMA MintInv ==
  ASSUME BrokerInv, NEW c \in Call, Mint(c)
  PROVE  /\ AuthInv' => TypeOK'
         /\ \A d \in Call : ThreadInv(d)'
<1>1. TypeOK /\ \A d \in Call : ThreadInv(d)
  BY DEF BrokerInv
<1>2. AuthInv' => TypeOK'
  BY <1>1 DEF Mint, TypeOK, AuthInv, serverVars
<1>3. ASSUME NEW d \in Call, d # c PROVE ThreadInv(d)'
  BY <1>1, <1>3, MintFrame, ThreadFrame DEF Mint, serverVars
<1>4. ThreadInv(c)'
  <2>1. stage[c] = "minting" /\ UNCHANGED serverVars
    BY DEF Mint
  <2>2. Allowed(c) /\ status[c] # 200
    BY <1>1, <2>1, MintFrame DEF ThreadInv
  <2>3. Allowed(c)' /\ mint_ask(c)' = mint_ask(c)
    BY <2>1, <2>2 DEF serverVars, Allowed, decide, repo_of, mint_ask
  <2>4. arg'[c] = mint_ask(c)
    BY <1>1, MintFrame DEF ThreadInv
  <2> QED
    BY <2>1, <2>2, <2>3, <2>4 DEF serverVars, ThreadInv
<1> QED
  BY <1>2, <1>3, <1>4

-----------------------------------------------------------------------------
LEMMA AuditInv ==
  ASSUME BrokerInv, NEW c \in Call,
         AuditDenied(c) \/ AuditError(c) \/ AuditGranted(c)
  PROVE  /\ AuthInv' => TypeOK'
         /\ \A d \in Call : ThreadInv(d)'
         /\ UNCHANGED <<up, delivered>> /\ logged \subseteq logged'
         /\ up
<1>1. TypeOK /\ AuthInv /\ \A d \in Call : ThreadInv(d)
  BY DEF BrokerInv
<1>2. CASE AuditDenied(c)
  <2>1. AuthInv' => TypeOK'
    BY <1>1, <1>2 DEF AuditDenied, TypeOK, AuthInv, Stage
  <2>2. ASSUME NEW d \in Call, d # c PROVE ThreadInv(d)'
    BY <1>1, <1>2, <2>2, ThreadFrame DEF AuditDenied, TypeOK, authVars
  <2>3. ThreadInv(c)'
    BY <1>1, <1>2 DEF AuditDenied, TypeOK, authVars, ThreadInv, LineOf
  <2> QED
    BY <1>2, <2>1, <2>2, <2>3 DEF AuditDenied
<1>3. CASE AuditError(c)
  <2>1. AuthInv' => TypeOK'
    BY <1>1, <1>3 DEF AuditError, TypeOK, AuthInv, Stage
  <2>2. ASSUME NEW d \in Call, d # c PROVE ThreadInv(d)'
    BY <1>1, <1>3, <2>2, ThreadFrame DEF AuditError, TypeOK, authVars
  <2>3. ThreadInv(c)'
    <3>1. Allowed(c)' /\ mint_ask(c)' = mint_ask(c)
      BY <1>1, <1>3 DEF AuditError, ThreadInv, Allowed, decide, repo_of, mint_ask
    <3> QED
      BY <1>1, <1>3, <3>1 DEF AuditError, TypeOK, authVars, ThreadInv, LineOf
  <2> QED
    BY <1>3, <2>1, <2>2, <2>3 DEF AuditError
<1>4. CASE AuditGranted(c)
  <2>1. AuthInv' => TypeOK'
    <3>1. grant(c) \in Grant
      BY <1>1, <1>4, GrantType DEF AuditGranted
    <3> QED
      BY <1>1, <1>4, <3>1 DEF AuditGranted, TypeOK, AuthInv, Stage
  <2>2. ASSUME NEW d \in Call, d # c PROVE ThreadInv(d)'
    BY <1>1, <1>4, <2>2, ThreadFrame DEF AuditGranted, TypeOK, authVars
  <2>3. ThreadInv(c)'
    <3>1. /\ Allowed(c)' /\ mint_ask(c)' = mint_ask(c)
          /\ grant(c)' = grant(c) /\ grant(c) \in logged'
      BY <1>1, <1>4 DEF AuditGranted, authVars, ThreadInv, Allowed, decide, repo_of,
                        mint_ask, grant
    <3>2. pc'[c] = "returned" /\ arg'[c] = mint_ask(c)
      BY <1>1, <1>4 DEF AuditGranted, authVars, ThreadInv
    <3>3. stage'[c] = "audited" /\ status'[c] = 200 /\ line'[c] = "granted"
      BY <1>1, <1>4 DEF AuditGranted, TypeOK
    <3> QED
      BY <3>1, <3>2, <3>3 DEF ThreadInv, LineOf
  <2> QED
    BY <1>4, <2>1, <2>2, <2>3 DEF AuditGranted
<1> QED
  BY <1>2, <1>3, <1>4

\* A request that ends, answered or not.
LEMMA CloseInv ==
  ASSUME BrokerInv, NEW c \in Call,
         Unhandled(c) \/ Respond(c) \/ Disconnect(c)
  PROVE  /\ AuthInv' => TypeOK'
         /\ \A d \in Call : ThreadInv(d)'
         /\ up /\ up' = up
         /\ delivered' \subseteq logged'
<1>1. TypeOK /\ AuthInv /\ (\A d \in Call : ThreadInv(d)) /\ delivered \subseteq logged
  BY DEF BrokerInv
<1>2. /\ UNCHANGED <<authVars, up, restarts, policy, req, effective, status, line, logged>>
      /\ up
      /\ \E s \in Closed :
           /\ stage' = [stage EXCEPT ![c] = s]
           /\ s = "answered" => stage[c] = "audited"
  BY DEF Unhandled, Respond, Disconnect, Closed
<1>3. delivered' \subseteq logged
  <2>1. CASE Respond(c)
    BY <1>1, <2>1 DEF Respond, ThreadInv
  <2> QED
    BY <1>1, <2>1 DEF Unhandled, Disconnect
<1>4. AuthInv' => TypeOK'
  BY <1>1, <1>2, <1>3 DEF TypeOK, AuthInv, Stage, Closed
<1>5. ASSUME NEW d \in Call, d # c PROVE ThreadInv(d)'
  BY <1>1, <1>2, <1>5, ThreadFrame DEF TypeOK, authVars
<1>6. ThreadInv(c)'
  <2>1. (Allowed(c)' <=> Allowed(c)) /\ mint_ask(c)' = mint_ask(c)
    BY <1>2 DEF Allowed, decide, repo_of, mint_ask
  <2> QED
    BY <1>1, <1>2, <2>1 DEF TypeOK, authVars, ThreadInv, Closed
<1> QED
  BY <1>2, <1>3, <1>4, <1>5, <1>6

LEMMA ReleaseInv ==
  ASSUME BrokerInv, NEW c \in Call, Release(c)
  PROVE  /\ AuthInv' => TypeOK'
         /\ \A d \in Call : ThreadInv(d)'
<1>1. TypeOK /\ \A d \in Call : ThreadInv(d)
  BY DEF BrokerInv
<1>2. /\ pc'[c] = "idle"
      /\ \A d \in Call \ {c} : pc'[d] = pc[d] /\ arg'[d] = arg[d] /\ tok'[d] = tok[d]
  BY <1>1 DEF Release, Leave, authVars, TypeOK, AuthTypeOK
<1>3. AuthInv' => TypeOK'
  BY <1>1, AnyRequestType, NoPermsType DEF Release, TypeOK, AuthInv, Stage
<1>4. ASSUME NEW d \in Call, d # c PROVE ThreadInv(d)'
  BY <1>1, <1>2, <1>4, ThreadFrame DEF Release, TypeOK
<1>5. ThreadInv(c)'
  BY <1>1, <1>2 DEF Release, TypeOK, ThreadInv
<1> QED
  BY <1>3, <1>4, <1>5

\* The process ends and starts again: no thread survives either.
LEMMA LifeInv ==
  ASSUME BrokerInv, Stop \/ Restart
  PROVE  /\ AuthInv' => TypeOK'
         /\ \A d \in Call : ThreadInv(d)'
         /\ ~ up' => \A d \in Call : stage'[d] = "free"
<1>1. TypeOK /\ \A d \in Call : ThreadInv(d)
  BY DEF BrokerInv
<1>2. CASE Stop
  <2>1. AuthInv' => TypeOK'
    BY <1>1, <1>2, AnyRequestType, NoPermsType DEF Stop, TypeOK, AuthInv, Stage
  <2>2. ASSUME NEW d \in Call PROVE ThreadInv(d)'
    BY <1>2 DEF Stop, ThreadInv
  <2> QED
    BY <1>2, <2>1, <2>2 DEF Stop
<1>3. CASE Restart
  <2>1. AuthInv' => TypeOK'
    BY <1>1, <1>3 DEF Restart, TypeOK, AuthInv
  <2>2. ASSUME NEW d \in Call PROVE ThreadInv(d)'
    <3>1. stage[d] = "free" /\ pc[d] = "idle" /\ status[d] # 200
      BY <1>1, <1>3 DEF Restart, BrokerInv, ThreadInv
    <3> QED
      BY <1>3, <3>1 DEF Restart, authVars, ThreadInv
  <2> QED
    BY <1>3, <2>1, <2>2 DEF Restart
<1> QED
  BY <1>2, <1>3

LEMMA AdvanceInv ==
  ASSUME BrokerInv, Advance \/ UNCHANGED vars
  PROVE  /\ AuthInv' => TypeOK'
         /\ \A d \in Call : ThreadInv(d)'
         /\ UNCHANGED <<up, stage, delivered, logged>>
<1>1. TypeOK /\ \A d \in Call : ThreadInv(d)
  BY DEF BrokerInv
<1>2. UNCHANGED <<up, restarts, serverVars, pc, arg, tok>>
  BY DEF Advance, Tick, vars, authVars
<1>3. AuthInv' => TypeOK'
  BY <1>1, <1>2 DEF TypeOK, AuthInv, serverVars
<1>4. ASSUME NEW d \in Call PROVE ThreadInv(d)'
  BY <1>1, <1>2, ThreadFrame DEF serverVars
<1> QED
  BY <1>2, <1>3, <1>4 DEF serverVars

-----------------------------------------------------------------------------
LEMMA BrokerNextInv == BrokerInv /\ [Next]_vars => BrokerInv'
<1> SUFFICES ASSUME BrokerInv, [Next]_vars PROVE BrokerInv'
  OBVIOUS
<1>1. AuthInv'
  BY BrokerAuthInv
<1>2. delivered \subseteq logged /\ (~ up => \A d \in Call : stage[d] = "free")
  BY DEF BrokerInv
<1>3. ASSUME NEW c \in Call,
             \/ ReceiveMalformed(c) \/ ReceiveNonObject(c)
             \/ \E q \in Requests : Receive(c, q)
      PROVE  BrokerInv'
  <2>1. up /\ UNCHANGED <<up, delivered, logged>>
    BY <1>3 DEF ReceiveMalformed, ReceiveNonObject, Receive
  <2> QED
    BY <1>1, <1>2, <1>3, <2>1, ReceiveInv DEF BrokerInv
<1>4. ASSUME NEW c \in Call, Mint(c) PROVE BrokerInv'
  <2>1. up /\ UNCHANGED <<up, delivered, logged>>
    BY <1>4 DEF Mint, serverVars
  <2> QED
    BY <1>1, <1>2, <1>4, <2>1, MintInv DEF BrokerInv
<1>5. ASSUME NEW c \in Call, AuditDenied(c) \/ AuditError(c) \/ AuditGranted(c)
      PROVE  BrokerInv'
  BY <1>1, <1>2, <1>5, AuditInv DEF BrokerInv
<1>6. ASSUME NEW c \in Call, Unhandled(c) \/ Respond(c) \/ Disconnect(c)
      PROVE  BrokerInv'
  BY <1>1, <1>2, <1>6, CloseInv DEF BrokerInv
<1>7. ASSUME NEW c \in Call, Release(c) PROVE BrokerInv'
  <2>1. up /\ UNCHANGED <<up, delivered, logged>>
    BY <1>7 DEF Release
  <2> QED
    BY <1>1, <1>2, <1>7, <2>1, ReleaseInv DEF BrokerInv
<1>8. CASE Stop \/ Restart
  <2>1. UNCHANGED <<delivered, logged>>
    BY <1>8 DEF Stop, Restart
  <2> QED
    BY <1>1, <1>2, <1>8, <2>1, LifeInv DEF BrokerInv
<1>9. CASE Advance \/ UNCHANGED vars
  BY <1>1, <1>2, <1>9, AdvanceInv DEF BrokerInv
<1> QED
  BY <1>3, <1>4, <1>5, <1>6, <1>7, <1>8, <1>9 DEF Next, Handle

\* Every reachable state of the broker satisfies the invariant.
THEOREM BrokerInvariant == Spec => []BrokerInv
BY BrokerInitInv, BrokerNextInv, PTL DEF Spec

\* The broker's threads, cache and audit stream are always well typed.
THEOREM BrokerTypeCorrect == Spec => []TypeOK
<1>1. BrokerInv => TypeOK
  BY DEF BrokerInv
<1> QED
  BY <1>1, BrokerInvariant, PTL

\* What is in progress was allowed by the policy in force, with the permissions
\* evaluate granted, across edits, crashes and restarts (broker.py:326-335).
THEOREM MintsAsDecided == Spec => []MintedAsDecided
<1>1. BrokerInv => MintedAsDecided
  <2> SUFFICES ASSUME BrokerInv, NEW c \in Call, pc[c] # "idle"
               PROVE  /\ decide(req[c]).allowed
                      /\ arg[c].permissions = decide(req[c]).granted
    BY DEF MintedAsDecided
  <2>1. Allowed(c) /\ arg[c] = mint_ask(c)
    BY DEF BrokerInv, ThreadInv
  <2>2. arg[c].permissions = effective[c]
    BY <2>1 DEF mint_ask
  <2> QED
    BY <2>1, <2>2 DEF Allowed
<1> QED
  BY <1>1, BrokerInvariant, PTL

\* No token is sent without its line on the audit stream, and the answer says
\* what the line says (broker.py:343-352).
THEOREM AuditsBeforeAnswering == Spec => []AuditPrecedesAnswer
<1>1. BrokerInv => AuditPrecedesAnswer
  BY DEF BrokerInv, ThreadInv, LineOf, AuditPrecedesAnswer
<1> QED
  BY <1>1, BrokerInvariant, PTL

\* A granted token is for the repository asked for, which the policy allows,
\* and within its ceiling, unless the ceiling leaves nothing of the defaults
\* (broker.py:85-121, 334).
THEOREM StaysWithinCeiling == Spec => []GrantsWithinCeilingUnlessEmpty
<1>1. BrokerInv => GrantsWithinCeilingUnlessEmpty
  <2> SUFFICES ASSUME BrokerInv, NEW c \in Call, status[c] = 200, effective[c] # NoPerms
               PROVE  /\ repo_allowed(policy, repo_of(req[c]))
                      /\ own_installation(req[c]) => tok[c].repo = repo_of(req[c])
                      /\ Within(tok[c].permissions, effective_max(policy, repo_of(req[c])))
    BY DEF GrantsWithinCeilingUnlessEmpty
  <2>1. /\ pc[c] = "returned" /\ Allowed(c) /\ arg[c] = mint_ask(c)
        /\ For(tok[c], arg[c])
        /\ req[c] \in Request /\ TypeOK
        /\ arg[c] \in Asks
    BY DEF BrokerInv, ThreadInv, AuthInv, CallSound, TypeOK, AuthTypeOK
  <2>2. /\ repo_allowed(policy, repo_of(req[c]))
        /\ Within(effective[c], effective_max(policy, repo_of(req[c])))
    BY <2>1, DecideType DEF Allowed
  <2>3. tok[c].permissions = effective[c]
    BY <2>1 DEF For, wanted, mint_ask
  <2>4. ASSUME own_installation(req[c])
        PROVE  tok[c].repo = repo_of(req[c])
    <3> DEFINE i == installation_for(req[c].owner)
    <3>1. has_installation(req[c].owner)
      BY <2>1 DEF For, mint_ask
    <3>2. i \in Inst /\ req[c].name \in Name
      BY <2>1, <3>1, AuthAssumption DEF Request, has_installation, installation_for
    <3>3. Hosted[i][req[c].name] \in {NoRepo, repo_of(req[c])}
      BY <2>4, <3>2, BrokerAssumption DEF repo_of, own_installation
    <3> QED
      BY <2>1, <3>3 DEF For, mint_ask
  <2> QED
    BY <2>2, <2>3, <2>4
<1> QED
  BY <1>1, BrokerInvariant, PTL

\* Some default permission is left by the overrides of each allowed repository.
DefaultsSurvive ==
  \A p \in Policies, r \in Repo : repo_allowed(p, r) =>
    \E n \in DOMAIN p.default_permissions \cap DOMAIN p.max_permissions :
      effective_max(p, r)[n] # None

\* What evaluate allows is never empty then.
LEMMA SomethingGranted ==
  ASSUME DefaultsSurvive, NEW p \in Policies, NEW r \in Repo,
         NEW asked_for \in PermMap(AskLevel), evaluate(p, r, asked_for).allowed
  PROVE  evaluate(p, r, asked_for).granted # NoPerms
<1> DEFINE caps == effective_max(p, r)
           granted == evaluate(p, r, asked_for).granted
<1>1. repo_allowed(p, r) /\ p \in PolicyRecord
  BY BrokerAssumption DEF evaluate, Denied
<1>2. granted = judge(p, caps, asked_for).granted
  BY <1>1 DEF evaluate
<1>3. CASE asked_for # NoPerms
  <2>1. judge(p, caps, asked_for).allowed
    BY <1>1 DEF evaluate
  <2>2. granted = asked_for
    BY <1>2, <1>3, <2>1 DEF judge, Denied
  <2> QED
    BY <1>3, <2>2
<1>4. CASE asked_for = NoPerms
  <2>1. granted = default_grant(p.default_permissions, caps)
    BY <1>2, <1>4 DEF judge
  <2>2. PICK n \in DOMAIN p.default_permissions \cap DOMAIN p.max_permissions :
          caps[n] # None
    BY <1>1 DEF DefaultsSurvive
  <2>3. DOMAIN caps = DOMAIN p.max_permissions
    BY DEF effective_max
  <2>4. n \in DOMAIN granted
    BY <2>1, <2>2, <2>3 DEF default_grant
  <2>5. DOMAIN NoPerms = {}
    BY DEF NoPerms
  <2> QED
    BY <2>4, <2>5
<1> QED
  BY <1>3, <1>4

\* An operator who keeps some default permission under every override has no
\* grant above its ceiling: the mint then never falls back on the configured
\* permissions (broker.py:91-104, 334).
THEOREM WithinCeilingWhenDefaultsSurvive ==
  ASSUME DefaultsSurvive
  PROVE  Spec => []GrantsWithinCeiling
<1>1. BrokerInv /\ GrantsWithinCeilingUnlessEmpty => GrantsWithinCeiling
  <2> SUFFICES ASSUME BrokerInv, GrantsWithinCeilingUnlessEmpty,
                      NEW c \in Call, status[c] = 200
               PROVE  Within(tok[c].permissions, effective_max(policy, repo_of(req[c])))
    BY DEF GrantsWithinCeiling
  <2>1. Allowed(c) /\ req[c] \in Request /\ policy \in Policies
    BY DEF BrokerInv, ThreadInv, TypeOK
  <2>2. repo_of(req[c]) \in Repo /\ req[c].permissions \in PermMap(AskLevel)
    BY <2>1, DecideType DEF BrokerInv, Request
  <2>3. effective[c] # NoPerms
    BY <2>1, <2>2, SomethingGranted DEF Allowed, decide
  <2> QED
    BY <2>3 DEF GrantsWithinCeilingUnlessEmpty
<1> QED
  BY <1>1, BrokerInvariant, StaysWithinCeiling, PTL

-----------------------------------------------------------------------------
\* What AppAuth promises one process holds in the broker, whose cache a crash
\* empties at any point of an exchange.

\* A thread of the broker is handed a token for its own request only.
THEOREM BrokerReturnsWhatWasAsked == Spec => []ReturnedForAsk
<1>1. BrokerInv => ReturnedForAsk
  BY DEF BrokerInv, AuthInv, CallSound, For, wanted, ReturnedForAsk
<1> QED
  BY <1>1, BrokerInvariant, PTL

\* It is handed no token within the slack of its expiry (auth.py:100-105).
THEOREM BrokerHandsOutUsable == Spec => HandedOutUsable
<1> DEFINE P(c) == pc[c] # "returned" /\ pc'[c] = "returned"
                   => tok'[c].expires > now + Slack
<1>1. BrokerInv /\ [Next]_vars => [\A c \in Call : P(c)]_authVars
  <2> SUFFICES ASSUME BrokerInv, [Next]_vars, NEW c \in Call,
                      pc[c] # "returned", pc'[c] = "returned"
               PROVE  tok'[c].expires > now + Slack
    OBVIOUS
  <2>1. ~ Stop
    BY DEF Stop
  <2> QED
    BY <2>1, BrokerAuthStep, UsableStep DEF BrokerInv
<1> QED
  BY <1>1, BrokerInvariant, PTL DEF Spec, HandedOutUsable

\* A client that forces a refresh gets a token issued since (auth.py:100-105,
\* broker.py:334).
THEOREM BrokerForcedRefreshes == Spec => ForcedIsFresh
<1> DEFINE P(c) == pc[c] # "returned" /\ pc'[c] = "returned" /\ arg'[c].force
                   => tok'[c].id > IF pc[c] \in Busy THEN seen[c] ELSE minted
<1>1. BrokerInv /\ [Next]_vars => [\A c \in Call : P(c)]_authVars
  <2> SUFFICES ASSUME BrokerInv, [Next]_vars, NEW c \in Call,
                      pc[c] # "returned", pc'[c] = "returned", arg'[c].force
               PROVE  tok'[c].id > IF pc[c] \in Busy THEN seen[c] ELSE minted
    OBVIOUS
  <2>1. ~ Stop
    BY DEF Stop
  <2> QED
    BY <2>1, BrokerAuthStep, ForcedStep DEF BrokerInv
<1> QED
  BY <1>1, BrokerInvariant, PTL DEF Spec, ForcedIsFresh

-----------------------------------------------------------------------------
\* The broker implements BrokerService.

\* The operators of Policy are the same seen through the instance.
LEMMA PromiseSameEvaluate ==
  ASSUME NEW p, NEW r, NEW q
  PROVE  evaluate(p, r, q) = Promise!evaluate(p, r, q)
<1>1. /\ NoPerms = Promise!NoPerms
      /\ \A why : Denied(why) = Promise!Denied(why)
  BY DEF NoPerms, Promise!NoPerms, Denied, Promise!Denied
<1>2. effective_max(p, r) = Promise!effective_max(p, r)
  BY Zenon DEF effective_max, Promise!effective_max, Least, Promise!Least, Caps, Promise!Caps
<1>3. judge(p, effective_max(p, r), q) = Promise!judge(p, Promise!effective_max(p, r), q)
  BY <1>1, <1>2, Zenon
  DEF judge, Promise!judge, default_grant, Promise!default_grant, Within, Promise!Within,
      None, Promise!None
<1> QED
  BY <1>1, <1>3, Zenon
  DEF evaluate, Promise!evaluate, repo_allowed, Promise!repo_allowed

\* What a client sees of a thread at each stage.
LEMMA Seen ==
  ASSUME NEW code
  PROVE  /\ as_seen("refusing", code) = "asked" /\ as_seen("minting", code) = "asked"
         /\ as_seen("audited", code) = IF code = 200 THEN "granted" ELSE "refused"
         /\ as_seen("answered", code) = "over" /\ as_seen("dropped", code) = "over"
         /\ as_seen("free", code) = "free"
BY DEF as_seen, Closed

\* A step of thread c alone is a step of its session alone.
LEMMA OneSession ==
  ASSUME TypeOK, NEW c \in Call,
         \A d \in Call \ {c} :
           stage'[d] = stage[d] /\ status'[d] = status[d] /\ req'[d] = req[d]
  PROVE  /\ sessions' = [sessions EXCEPT ![c] = as_seen(stage'[c], status'[c])]
         /\ questions' = [questions EXCEPT ![c] = asked(req'[c])]
         /\ sessions[c] = as_seen(stage[c], status[c])
         /\ questions[c] = asked(req[c])
         /\ req'[c] = req[c] => questions' = questions
         /\ as_seen(stage'[c], status'[c]) = as_seen(stage[c], status[c])
              => sessions' = sessions
<1> DEFINE sees(d) == as_seen(stage[d], status[d])
<1>1. /\ sessions = [d \in Call |-> sees(d)]
      /\ sessions' = [d \in Call |-> as_seen(stage'[d], status'[d])]
      /\ questions = [d \in Call |-> asked(req[d])]
      /\ questions' = [d \in Call |-> asked(req'[d])]
  BY DEF sessions, questions, as_seen, asked, repo_of
<1> QED
  BY <1>1

\* What AuditGranted puts on the audit stream is what BrokerService grants.
LEMMA GrantIsIssued ==
  ASSUME BrokerInv, NEW c \in Call, AuditGranted(c)
  PROVE  /\ Promise!evaluate(policy, questions[c].repo, questions[c].permissions).allowed
         /\ grants' = grants \cup {Promise!issued(questions[c])}
<1>1. /\ Allowed(c) /\ arg[c] = mint_ask(c) /\ For(tok[c], arg[c])
      /\ questions[c] = asked(req[c])
  BY DEF BrokerInv, ThreadInv, AuthInv, CallSound, AuditGranted, questions
<1>2. /\ asked(req[c]).repo = repo_of(req[c])
      /\ asked(req[c]).permissions = req[c].permissions
  BY DEF asked
<1>3. decide(req[c]) = Promise!evaluate(policy, questions[c].repo, questions[c].permissions)
  BY <1>1, <1>2, PromiseSameEvaluate DEF decide
<1>4. tok[c].permissions = IF effective[c] = NoPerms THEN ConfigDefault ELSE effective[c]
  BY <1>1 DEF For, wanted, mint_ask
<1>5. Promise!issued(questions[c])
        = [repo |-> repo_of(req[c]), permissions |-> tok[c].permissions]
  <2>1. NoPerms = Promise!NoPerms
    BY DEF NoPerms, Promise!NoPerms
  <2> QED
    BY <1>1, <1>2, <1>3, <1>4, <2>1 DEF Promise!issued, Allowed
<1>6. grant(c).repo = repo_of(req[c]) /\ grant(c).permissions = tok[c].permissions
  BY DEF grant
<1>7. grants' = grants \cup {[repo |-> grant(c).repo, permissions |-> grant(c).permissions]}
  BY DEF AuditGranted, grants
<1> QED
  BY <1>1, <1>3, <1>5, <1>6, <1>7 DEF Allowed

LEMMA AskedIsQuestion ==
  ASSUME NEW q \in Request
  PROVE  asked(q) \in Promise!Question
<1>1. PermMap(AskLevel) = Promise!PermMap(Promise!AskLevel)
  BY DEF None, Promise!None, Read, Promise!Read, Write, Promise!Write, Admin,
         Promise!Admin, UnknownLevel, Promise!UnknownLevel, CapLevel, Promise!CapLevel,
         AskLevel, Promise!AskLevel, PermMap, Promise!PermMap
<1>2. repo_of(q) \in Repo /\ q.permissions \in PermMap(AskLevel)
  BY BrokerAssumption DEF Request, repo_of
<1> QED
  BY <1>1, <1>2 DEF asked, Promise!Question

\* A request read, of whatever form, is a question asked or a connection dropped.
LEMMA ReceiveAsks ==
  ASSUME BrokerInv, NEW c \in Call,
         \/ ReceiveMalformed(c) \/ ReceiveNonObject(c)
         \/ \E q \in Requests : Receive(c, q)
  PROVE  Promise!NextService
<1>1. TypeOK /\ stage[c] = "free" /\ UNCHANGED <<policy, logged>>
  BY DEF BrokerInv, ReceiveMalformed, ReceiveNonObject, Receive
<1>2. \A d \in Call \ {c} :
        stage'[d] = stage[d] /\ status'[d] = status[d] /\ req'[d] = req[d]
  BY <1>1 DEF TypeOK, ReceiveMalformed, ReceiveNonObject, Receive
<1>3. /\ sessions' = [sessions EXCEPT ![c] = as_seen(stage'[c], status'[c])]
      /\ questions' = [questions EXCEPT ![c] = asked(req'[c])]
      /\ req'[c] = req[c] => questions' = questions
      /\ sessions[c] = "free"
      /\ grants' = grants
  BY <1>1, <1>2, OneSession, Seen DEF grants
<1>4. CASE ReceiveNonObject(c)
  <2>1. stage'[c] = "dropped" /\ req' = req
    BY <1>1, <1>4 DEF TypeOK, ReceiveNonObject
  <2>2. sessions' = [sessions EXCEPT ![c] = "over"] /\ questions' = questions
    <3>1. as_seen(stage'[c], status'[c]) = "over"
      BY <2>1, Seen
    <3> QED
      BY <1>3, <2>1, <3>1
  <2>3. Promise!Drop(c)
    BY <1>1, <1>3, <2>2 DEF Promise!Drop
  <2> QED
    BY <2>3 DEF Promise!NextService
<1>5. CASE ReceiveMalformed(c) \/ \E q \in Requests : Receive(c, q)
  <2>1. stage'[c] \in {"refusing", "minting"} /\ req'[c] \in Request
    BY <1>1, <1>5, BrokerAssumption DEF TypeOK, ReceiveMalformed, Receive
  <2>2. sessions' = [sessions EXCEPT ![c] = "asked"]
    <3>1. as_seen(stage'[c], status'[c]) = "asked"
      BY <2>1, Seen
    <3> QED
      BY <1>3, <3>1
  <2>3. Promise!Ask(c, asked(req'[c]))
    BY <1>1, <1>3, <2>2 DEF Promise!Ask, Promise!Goes
  <2> QED
    BY <1>3, <2>1, <2>3, AskedIsQuestion DEF Promise!NextService
<1> QED
  BY <1>4, <1>5

\* A request decided, answered or given up is one step of the promise.
LEMMA HandleKeeps ==
  ASSUME BrokerInv, NEW c \in Call,
         \/ AuditDenied(c) \/ AuditError(c) \/ AuditGranted(c)
         \/ Unhandled(c) \/ Respond(c) \/ Disconnect(c)
  PROVE  Promise!NextService
<1>1. TypeOK /\ ThreadInv(c) /\ UNCHANGED <<policy, req>>
  BY DEF BrokerInv, AuditDenied, AuditError, AuditGranted, Unhandled, Respond, Disconnect
<1>2. \A d \in Call \ {c} :
        stage'[d] = stage[d] /\ status'[d] = status[d] /\ req'[d] = req[d]
  BY <1>1 DEF TypeOK, AuditDenied, AuditError, AuditGranted, Unhandled, Respond, Disconnect
<1>3. /\ sessions' = [sessions EXCEPT ![c] = as_seen(stage'[c], status'[c])]
      /\ questions' = questions
      /\ sessions[c] = as_seen(stage[c], status[c])
  BY <1>1, <1>2, OneSession
<1>4. CASE AuditDenied(c) \/ AuditError(c)
  <2>1. /\ stage[c] \in {"refusing", "minting"}
        /\ stage'[c] = "audited" /\ status'[c] # 200
        /\ grants' = grants
    BY <1>1, <1>4 DEF TypeOK, AuditDenied, AuditError, ThreadInv, grants
  <2>2. sessions' = [sessions EXCEPT ![c] = "refused"] /\ sessions[c] = "asked"
    <3>1. as_seen(stage'[c], status'[c]) = "refused"
      BY <2>1, Seen
    <3>2. as_seen(stage[c], status[c]) = "asked"
      BY <2>1, Seen
    <3> QED
      BY <1>3, <3>1, <3>2
  <2>3. Promise!Refuse(c)
    BY <1>1, <1>3, <2>1, <2>2 DEF Promise!Refuse, Promise!Goes
  <2> QED
    BY <2>3 DEF Promise!NextService
<1>5. CASE AuditGranted(c)
  <2>1. stage[c] = "minting" /\ stage'[c] = "audited" /\ status'[c] = 200
    BY <1>1, <1>5 DEF TypeOK, AuditGranted
  <2>2. sessions' = [sessions EXCEPT ![c] = "granted"] /\ sessions[c] = "asked"
    <3>1. as_seen(stage'[c], status'[c]) = "granted"
      BY <2>1, Seen
    <3>2. as_seen(stage[c], status[c]) = "asked"
      BY <2>1, Seen
    <3> QED
      BY <1>3, <3>1, <3>2
  <2>3. Promise!Grant(c)
    BY <1>1, <1>3, <1>5, <2>2, GrantIsIssued DEF Promise!Grant, Promise!Goes
  <2> QED
    BY <2>3 DEF Promise!NextService
<1>6. CASE Respond(c)
  <2>1. stage[c] = "audited" /\ stage'[c] = "answered" /\ grants' = grants
    BY <1>1, <1>6 DEF TypeOK, Respond, grants
  <2>2. sessions' = [sessions EXCEPT ![c] = "over"] /\ sessions[c] \in {"granted", "refused"}
    <3>1. as_seen(stage'[c], status'[c]) = "over"
      BY <2>1, Seen
    <3>2. as_seen(stage[c], status[c]) \in {"granted", "refused"}
      BY <2>1, Seen
    <3> QED
      BY <1>3, <3>1, <3>2
  <2>3. Promise!Answer(c)
    BY <1>1, <1>3, <2>1, <2>2 DEF Promise!Answer, Promise!Goes
  <2> QED
    BY <2>3 DEF Promise!NextService
<1>7. CASE Unhandled(c) \/ Disconnect(c)
  <2>1. /\ stage[c] \in {"refusing", "minting", "audited"} /\ stage'[c] = "dropped"
        /\ grants' = grants
    BY <1>1, <1>7 DEF TypeOK, Unhandled, Disconnect, grants
  <2>2. sessions' = [sessions EXCEPT ![c] = "over"] /\ sessions[c] # "over"
    <3>1. as_seen(stage'[c], status'[c]) = "over"
      BY <2>1, Seen
    <3>2. as_seen(stage[c], status[c]) # "over"
      BY <2>1, Seen
    <3> QED
      BY <1>3, <3>1, <3>2
  <2>3. Promise!Drop(c)
    BY <1>1, <1>3, <2>1, <2>2 DEF Promise!Drop
  <2> QED
    BY <2>3 DEF Promise!NextService
<1> QED
  BY <1>4, <1>5, <1>6, <1>7

LEMMA ReleaseLeaves ==
  ASSUME BrokerInv, NEW c \in Call, Release(c)
  PROVE  Promise!NextService
<1>1. /\ TypeOK /\ stage[c] \in Closed /\ stage'[c] = "free" /\ req'[c] = AnyRequest
      /\ UNCHANGED <<policy, logged>> /\ grants' = grants
  BY DEF BrokerInv, TypeOK, Release, grants
<1>2. \A d \in Call \ {c} :
        stage'[d] = stage[d] /\ status'[d] = status[d] /\ req'[d] = req[d]
  BY <1>1 DEF TypeOK, Release
<1>3. /\ sessions' = [sessions EXCEPT ![c] = "free"]
      /\ questions' = [questions EXCEPT ![c] = asked(AnyRequest)]
      /\ sessions[c] = "over"
  BY <1>1, <1>2, OneSession, Seen DEF Closed
<1>4. Promise!Leave(c)
  BY <1>1, <1>3 DEF Promise!Leave, Promise!Goes
<1> QED
  BY <1>4 DEF Promise!NextService

\* A process that ends forgets every request; a policy edited while it is down
\* is in force before the next is read.
LEMMA LifeKeeps ==
  ASSUME BrokerInv, Stop \/ Restart
  PROVE  Promise!NextService
<1>1. CASE Stop
  <2>1. /\ \A d \in Call : stage'[d] = "free" /\ req'[d] = AnyRequest
        /\ UNCHANGED <<policy, logged>> /\ grants' = grants
    BY <1>1 DEF Stop, grants
  <2>2. /\ sessions' = [d \in Call |-> as_seen(stage'[d], status'[d])]
        /\ questions' = [d \in Call |-> asked(req'[d])]
    BY DEF sessions, questions, as_seen, asked, repo_of
  <2>3. /\ sessions' = [d \in Call |-> "free"]
        /\ questions' = [d \in Call |-> asked(AnyRequest)]
    BY <2>1, <2>2, Seen
  <2>4. Promise!Crash
    BY <2>1, <2>3 DEF Promise!Crash
  <2> QED
    BY <2>4 DEF Promise!NextService
<1>2. CASE Restart
  <2>1. /\ \A d \in Call : stage[d] = "free"
        /\ policy' \in Policies
        /\ UNCHANGED <<stage, status, req, logged>>
    BY <1>2 DEF Restart, BrokerInv
  <2>2. sessions' = sessions /\ questions' = questions /\ grants' = grants
    BY <2>1 DEF sessions, questions, grants, as_seen, asked, repo_of
  <2>3. \A d \in Call : sessions[d] = "free"
    BY <2>1, Seen DEF sessions
  <2>4. Promise!Edit
    BY <2>1, <2>2, <2>3 DEF Promise!Edit
  <2> QED
    BY <2>4 DEF Promise!NextService
<1> QED
  BY <1>1, <1>2

\* However threads, cache, clock and GitHub interleave, the broker does what
\* BrokerService does (broker.py:302-364): the mint and the clock are not seen,
\* and every other step is one of the promise.
THEOREM BrokerKeepsPromise == Spec => KeepsPromise
<1>1. Init => Promise!InitService
  <2> SUFFICES ASSUME Init PROVE Promise!InitService
    OBVIOUS
  <2>1. sessions = [c \in Call |-> "free"]
    BY Seen DEF Init, sessions
  <2>2. questions = [c \in Call |-> asked(AnyRequest)] /\ grants = {}
    BY DEF Init, questions, grants
  <2> QED
    BY <2>1, <2>2 DEF Init, Promise!InitService
<1>2. BrokerInv /\ [Next]_vars => [Promise!NextService]_(Promise!service)
  <2> SUFFICES ASSUME BrokerInv, [Next]_vars
               PROVE  [Promise!NextService]_(Promise!service)
    OBVIOUS
  <2>1. ASSUME NEW c \in Call, Mint(c) PROVE UNCHANGED Promise!service
    BY <2>1 DEF Mint, serverVars, Promise!service, sessions, questions, grants
  <2>2. CASE Advance \/ UNCHANGED vars
    BY <2>2 DEF Advance, vars, serverVars, Promise!service, sessions, questions, grants
  <2> QED
    BY <2>1, <2>2, ReceiveAsks, HandleKeeps, ReleaseLeaves, LifeKeeps DEF Next, Handle
<1> QED
  BY <1>1, <1>2, BrokerInvariant, PTL DEF Spec, Promise!SpecService, KeepsPromise
=============================================================================
