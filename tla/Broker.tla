-------------------------------- MODULE Broker --------------------------------
(***************************************************************************)
(* The ghapp broker (broker.py): one thread per connection reads a token   *)
(* request, asks the policy, mints through the shared GitHubAppAuth,       *)
(* writes the decision to the audit stream and answers.  The process may   *)
(* stop or crash at any moment and be started again with an edited policy. *)
(* Clients are external; the threads are the calls of AppAuth.             *)
(***************************************************************************)
EXTENDS AppAuth, Policy

CONSTANTS
  Requests,     \* the well-formed bodies clients POST to /token
  Lowered,      \* repo.lower(), by owner and bare name
  Account,      \* GitHub: the owner whose account an installation is on
  Policies,     \* the policies load_policy accepts, as an operator edits them
  MaxRestart    \* bound on the restarts

Request == [owner : Owner, name : Name, permissions : PermMap(AskLevel), force : BOOLEAN]

\* GitHub's side of it: an installation hosts repositories of one account.
\* Which owners the configuration sends to it is another matter.
ASSUME BrokerAssumption ==
  /\ Requests \subseteq Request
  /\ Lowered \in [Owner -> [Name -> Repo]]
  /\ Account \in [Inst -> Owner]
  /\ \A i \in Inst, n \in Name : Hosted[i][n] \in {NoRepo, Lowered[Account[i]][n]}
  /\ Policies \subseteq PolicyRecord /\ Policies # {}
  /\ \A p \in Policies : DOMAIN p.default_permissions # {}
  /\ Asks = Ask
  /\ MaxRestart \in Nat

VARIABLES
  up,          \* the process runs
  restarts,    \* how often it was started again
  policy,      \* server.policy
  stage,       \* stage[c] : where do_POST stands in thread c
  req,         \* req[c] : the body of the request
  effective,   \* effective[c] : what evaluate granted
  status,      \* status[c] : the HTTP status decided on (0: none yet)
  line,        \* line[c] : the decision on the audit line written, or "none"
  logged,      \* the grants on the audit stream, which outlives the process
  delivered    \* the tokens clients were sent, as the audit line shows them

serverVars == <<policy, stage, req, effective, status, line, logged, delivered>>
vars == <<authVars, up, restarts, serverVars>>

Stage  == {"free", "refusing", "minting", "audited", "answered", "dropped"}
Closed == {"answered", "dropped"}
Grant  == [repo : Repo, permissions : PermMap(AskLevel), expires : Nat]

AnyRequest == CHOOSE q \in Request : TRUE

repo_of(q) == Lowered[q.owner][q.name]

\* The installation that serves the owner asked for is on that owner's account.
\* A legacy "*" serves every owner, from whichever account it is on.
own_installation(q) == Account[installation_for(q.owner)] = q.owner

decide(q) == evaluate(policy, repo_of(q), q.permissions)

\* The grant as the audit line and the answer show it: with the repository
\* asked for, whichever the installation used hosts under its name.
grant(c) ==
  [repo |-> repo_of(req[c]), permissions |-> tok[c].permissions,
   expires |-> tok[c].expires]

\* mutant: the permissions of the body are minted, not those evaluate granted
MintAsRequested(c) ==
  [owner |-> req[c].owner, name |-> req[c].name,
   permissions |-> req[c].permissions, force |-> req[c].force]

\* The arguments do_POST gives mint_for_repo (effective or None).
mint_ask(c) ==
  [owner |-> req[c].owner, name |-> req[c].name,
   permissions |-> effective[c], force |-> req[c].force]

-----------------------------------------------------------------------------
Init ==
  /\ InitAuth
  /\ up = TRUE
  /\ restarts = 0
  /\ policy \in Policies
  /\ stage = [c \in Call |-> "free"]
  /\ req = [c \in Call |-> AnyRequest]
  /\ effective = [c \in Call |-> NoPerms]
  /\ status = [c \in Call |-> 0]
  /\ line = [c \in Call |-> "none"]
  /\ logged = {}
  /\ delivered = {}

\* A body that is not JSON, lacks a repo, or is too long: 400.
ReceiveMalformed(c) ==
  /\ up /\ stage[c] = "free"
  /\ stage' = [stage EXCEPT ![c] = "refusing"]
  /\ status' = [status EXCEPT ![c] = 400]
  /\ UNCHANGED <<authVars, up, restarts, policy, req, effective, line, logged, delivered>>

\* A body that is JSON but no object: the subscript raises TypeError, which
\* do_POST does not catch, and the connection is closed.
ReceiveNonObject(c) ==
  /\ up /\ stage[c] = "free"
  /\ stage' = [stage EXCEPT ![c] = "dropped"]
  /\ UNCHANGED <<authVars, up, restarts, policy, req, effective, status, line,
                 logged, delivered>>

\* A well-formed body, judged at once: 403, or on to the mint.
Receive(c, q) ==
  /\ up /\ stage[c] = "free"
  /\ req' = [req EXCEPT ![c] = q]
  /\ IF decide(q).allowed
     THEN /\ stage' = [stage EXCEPT ![c] = "minting"]
          /\ effective' = [effective EXCEPT ![c] = decide(q).granted]
          /\ UNCHANGED status
     ELSE /\ stage' = [stage EXCEPT ![c] = "refusing"]
          /\ status' = [status EXCEPT ![c] = 403]
          /\ UNCHANGED effective
  /\ UNCHANGED <<authVars, up, restarts, policy, line, logged, delivered>>

\* Thread c enters mint_for_repo, or takes its next step in there.
Mint(c) ==
  /\ up /\ stage[c] = "minting"
  /\ Begin(c, mint_ask(c)) \/ Proceed(c)
  /\ UNCHANGED <<up, restarts, serverVars>>

\* The line of a refusal (400 or 403).
AuditDenied(c) ==
  /\ up /\ stage[c] = "refusing"
  /\ stage' = [stage EXCEPT ![c] = "audited"]
  /\ line' = [line EXCEPT ![c] = "denied"]
  /\ UNCHANGED <<authVars, up, restarts, policy, req, effective, status, logged, delivered>>

\* The mint raised HTTPError or ConfigurationError: 502.
AuditError(c) ==
  /\ up /\ stage[c] = "minting" /\ pc[c] = "failed"
  /\ stage' = [stage EXCEPT ![c] = "audited"]
  /\ status' = [status EXCEPT ![c] = 502]
  /\ line' = [line EXCEPT ![c] = "error"]
  /\ UNCHANGED <<authVars, up, restarts, policy, req, effective, logged, delivered>>

AuditGranted(c) ==
  /\ up /\ stage[c] = "minting" /\ pc[c] = "returned"
  /\ stage' = [stage EXCEPT ![c] = "audited"]
  /\ status' = [status EXCEPT ![c] = 200]
  /\ line' = [line EXCEPT ![c] = "granted"]
  /\ logged' = logged \cup {grant(c)}
  /\ UNCHANGED <<authVars, up, restarts, policy, req, effective, delivered>>

\* mutant: an exception of another kind is not turned into a closed connection
UnhandledOnlyFromAudit(c) ==
  /\ up /\ stage[c] = "refusing"
  /\ stage' = [stage EXCEPT ![c] = "dropped"]
  /\ UNCHANGED <<authVars, up, restarts, policy, req, effective, status, line,
                 logged, delivered>>

\* An exception do_POST does not catch ends the thread and closes the
\* connection: one of the mint's, or one of writing to the audit stream.
Unhandled(c) ==
  /\ up
  /\ \/ stage[c] = "minting" /\ pc[c] \in Ended
     \/ stage[c] = "refusing"
  /\ stage' = [stage EXCEPT ![c] = "dropped"]
  /\ UNCHANGED <<authVars, up, restarts, policy, req, effective, status, line,
                 logged, delivered>>

\* mutant: the answer goes out before the line is written
RespondFirst(c) ==
  /\ up
  /\ \/ stage[c] = "audited"
     \/ stage[c] = "minting" /\ pc[c] = "returned"
  /\ stage' = [stage EXCEPT ![c] = "answered"]
  /\ delivered' = IF pc[c] = "returned" THEN delivered \cup {grant(c)} ELSE delivered
  /\ UNCHANGED <<authVars, up, restarts, policy, req, effective, status, line, logged>>

Respond(c) ==
  /\ up /\ stage[c] = "audited"
  /\ stage' = [stage EXCEPT ![c] = "answered"]
  /\ delivered' = IF status[c] = 200 THEN delivered \cup {grant(c)} ELSE delivered
  /\ UNCHANGED <<authVars, up, restarts, policy, req, effective, status, line, logged>>

\* The client is gone before the answer is written.
Disconnect(c) ==
  /\ up /\ stage[c] = "audited"
  /\ stage' = [stage EXCEPT ![c] = "dropped"]
  /\ UNCHANGED <<authVars, up, restarts, policy, req, effective, status, line,
                 logged, delivered>>

\* The request is over; another one may use thread c.
Release(c) ==
  /\ up /\ stage[c] \in Closed
  /\ IF pc[c] = "idle" THEN UNCHANGED authVars ELSE Leave(c)
  /\ stage' = [stage EXCEPT ![c] = "free"]
  /\ req' = [req EXCEPT ![c] = AnyRequest]
  /\ effective' = [effective EXCEPT ![c] = NoPerms]
  /\ status' = [status EXCEPT ![c] = 0]
  /\ line' = [line EXCEPT ![c] = "none"]
  /\ UNCHANGED <<up, restarts, policy, logged, delivered>>

\* The process ends, by a signal or a crash: threads and cache are gone.
Stop ==
  /\ up
  /\ up' = FALSE
  /\ stage' = [c \in Call |-> "free"]
  /\ req' = [c \in Call |-> AnyRequest]
  /\ effective' = [c \in Call |-> NoPerms]
  /\ status' = [c \in Call |-> 0]
  /\ line' = [c \in Call |-> "none"]
  /\ cache' = [k \in {} |-> NoToken]
  /\ pc' = [c \in Call |-> "idle"]
  /\ arg' = [c \in Call |-> AnAsk]
  /\ begun' = [c \in Call |-> 0]
  /\ seen' = [c \in Call |-> 0]
  /\ tok' = [c \in Call |-> NoToken]
  /\ UNCHANGED <<now, minted, restarts, policy, logged, delivered>>

\* mutant: the policy is read again while requests are in progress
ReloadPolicy ==
  /\ restarts < MaxRestart
  /\ restarts' = restarts + 1
  /\ policy' \in Policies
  /\ UNCHANGED <<authVars, up, stage, req, effective, status, line, logged, delivered>>

\* It is started again, with the policy file as it now stands.
Restart ==
  /\ ~ up
  /\ restarts < MaxRestart
  /\ restarts' = restarts + 1
  /\ up' = TRUE
  /\ policy' \in Policies
  /\ UNCHANGED <<authVars, stage, req, effective, status, line, logged, delivered>>

Advance == Tick /\ UNCHANGED <<up, restarts, serverVars>>

\* What the handler of thread c does once it has read a request.
Handle(c) ==
  \/ Mint(c)
  \/ AuditDenied(c) \/ AuditError(c) \/ AuditGranted(c)
  \/ Unhandled(c)
  \/ Respond(c) \/ Disconnect(c)

Next ==
  \/ \E c \in Call :
       \/ ReceiveMalformed(c)
       \/ ReceiveNonObject(c)
       \/ \E q \in Requests : Receive(c, q)
       \/ Handle(c)
       \/ Release(c)
  \/ Stop
  \/ Restart
  \/ Advance

\* A thread that has read a request goes on: every wait in do_POST ends, those
\* for GitHub by the timeouts of the HTTP client (auth.py:68).  That a
\* private_key_cmd ends is assumed: config.py:50 runs it with no timeout.
Fairness == \A c \in Call : WF_vars(Handle(c))

Spec == Init /\ [][Next]_vars /\ Fairness

-----------------------------------------------------------------------------
\* The state of the process, its threads and its audit stream is well typed
\* (broker.py:302-364, 384-441).
TypeOK ==
  /\ AuthTypeOK
  /\ up \in BOOLEAN /\ restarts \in Nat
  /\ policy \in Policies
  /\ stage \in [Call -> Stage]
  /\ req \in [Call -> Request]
  /\ effective \in [Call -> PermMap(AskLevel)]
  /\ status \in [Call -> {0, 200, 400, 403, 502}]
  /\ line \in [Call -> {"none", "denied", "error", "granted"}]
  /\ logged \subseteq Grant /\ delivered \subseteq Grant

\* Whatever is in progress was allowed by the policy now in force, with just
\* the permissions evaluate granted: no edit of the policy file reaches a
\* request halfway, and no refused one reaches the mint (broker.py:326-335).
MintedAsDecided ==
  \A c \in Call : pc[c] # "idle" =>
    /\ decide(req[c]).allowed
    /\ arg[c].permissions = decide(req[c]).granted

\* A token is granted for a repository the policy allows, and stays within its
\* ceiling, through defaults, cache and GitHub's answer.  It is a token for that
\* repository if the installation used is the owner's own: a legacy "*" serves
\* any owner (config.py:102-103), and mints for the repository of that name on
\* its own account, which the policy was not asked about.  (When the ceiling
\* leaves nothing of the defaults, see GrantsWithinCeiling.)
GrantsWithinCeilingUnlessEmpty ==
  \A c \in Call : status[c] = 200 /\ effective[c] # NoPerms =>
    /\ repo_allowed(policy, repo_of(req[c]))
    /\ own_installation(req[c]) => tok[c].repo = repo_of(req[c])
    /\ Within(tok[c].permissions, effective_max(policy, repo_of(req[c])))

\* No token leaves the broker, before or after a crash, without its line on the
\* audit stream, and every answer carries the decision of its line
\* (broker.py:19, 322-352).
AuditPrecedesAnswer ==
  /\ delivered \subseteq logged
  /\ \A c \in Call : stage[c] = "answered" =>
       line[c] = CASE status[c] = 200 -> "granted"
                   [] status[c] = 502 -> "error"
                   [] OTHER -> "denied"

\* Every request read is answered or its connection closed, or the process
\* stops: no outcome of the policy, the mint or the audit stream leaves a
\* thread waiting for ever (broker.py:302-364).
EveryRequestEnds ==
  \A c \in Call :
    stage[c] \in {"refusing", "minting", "audited"} ~> stage[c] \in Closed \cup {"free"}

-----------------------------------------------------------------------------
\* The broker keeps the promise of BrokerService: however its threads, its
\* cache and GitHub's answers interleave, clients see single decisions of the
\* policy in force, each logged before it is answered (broker.py:302-364).
asked(q) == [repo |-> repo_of(q), permissions |-> q.permissions]

\* What its clients see of the broker.
as_seen(at, code) ==
  CASE at \in {"refusing", "minting"} -> "asked"
    [] at = "audited" -> IF code = 200 THEN "granted" ELSE "refused"
    [] at \in Closed -> "over"
    [] OTHER -> "free"
sessions  == [c \in Call |-> as_seen(stage[c], status[c])]
questions == [c \in Call |-> asked(req[c])]
grants    == {[repo |-> g.repo, permissions |-> g.permissions] : g \in logged}

Promise == INSTANCE BrokerService WITH
  Conn <- Call, DefaultGrant <- ConfigDefault, NoQuestion <- asked(AnyRequest),
  session <- sessions, question <- questions, logged <- grants

KeepsPromise == Promise!SpecService

-----------------------------------------------------------------------------
\* "Level none removes the permission entirely" (README.md:120): a grant
\* stays within the ceiling even when an override removes every default.
GrantsWithinCeiling ==
  \A c \in Call : status[c] = 200 =>
    Within(tok[c].permissions, effective_max(policy, repo_of(req[c])))

\* "Every request is audited" (skills/github-app-workflow/SKILL.md): no request is over,
\* answered or not, without a decision line.
EveryRequestAudited ==
  \A c \in Call : stage[c] \in Closed => line[c] # "none"
=============================================================================
