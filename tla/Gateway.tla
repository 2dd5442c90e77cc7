------------------------------- MODULE Gateway -------------------------------
(***************************************************************************)
(* The client side (backends.py, tools.py, api.py, cli.py): operations of  *)
(* the Hermes tools, the command line and the git credential helper, each  *)
(* a fixed course of steps that the environment selects.  Each opens its   *)
(* own backend and connection, waits for the broker no longer than its     *)
(* HTTP client does, and may be tried again after it failed or its process *)
(* was killed.  The broker is the one BrokerService promises.              *)
(***************************************************************************)
EXTENDS BrokerService, Sequences

CONSTANTS
  Caller,       \* processes or threads of clients
  Operations,   \* Operations[k] : what caller k is asked to do
  Environments, \* the environments they may run in
  NoOperation,
  NoConn,
  NoToken

Kind == {"mint", "gh_app", "git_app", "api", "app_tool", "app_command", "verify",
         "doctor"}

Operation == [kind : Kind, repo : Repo, permissions : PermMap(AskLevel)]

TokenScope == [repo : Repo, permissions : PermMap(AskLevel)]

\* key_cmd: the key of the App is what a command prints.
Environment == [socket : BOOLEAN, url : BOOLEAN, app : BOOLEAN, key_cmd : BOOLEAN]

ASSUME GatewayAssumption ==
  /\ Environments \subseteq Environment
  /\ Operations \in [Caller -> SUBSET Operation] /\ NoOperation \notin Operation
  /\ NoConn \notin Conn
  /\ NoToken \notin TokenScope
  /\ Policies \subseteq PolicyRecord /\ Policies # {}
  /\ DefaultGrant \in PermMap(AskLevel) /\ DefaultGrant # NoPerms
  /\ NoQuestion \in Question

VARIABLES
  env,      \* what the environment gives: a broker socket, a broker URL, an App,
            \* a command for its key
  op,       \* op[k] : the operation of caller k
  todo,     \* todo[k] : the steps left of it
  result,   \* result[k] : "none", "ok" or "error"
  conn,     \* conn[k] : the connection k waits on
  token,    \* token[k] : the token k holds
  loaded,   \* loaded[k] : the operation read the local App configuration
  posted,   \* posted[k] : the policy in force when k asked for its token
  askpass,  \* askpass[k] : the token in the askpass file of k
  left      \* an askpass file was left behind

client == <<op, todo, result, conn, token, loaded, posted>>
disk == <<askpass, left>>
vars == <<service, env, client, disk>>

AnyPolicy == CHOOSE p \in Policies : TRUE

Step == {"refuse", "open", "describe", "load", "app_call", "mint", "use", "child",
         "write", "run", "remove"}

\* The steps that hand the token on.
Spend == {"use", "child", "write"}

-----------------------------------------------------------------------------
\* get_backend: the socket wins over the URL, and without either tokens are
\* minted in this process.
backend ==
  IF env.socket THEN "socket" ELSE IF env.url THEN "url" ELSE "local"

\* The steps of the endpoints that authenticate as the App itself.  The tool
\* looks for a broker socket only, the command for a URL too.
as_app(refused) == IF refused THEN <<"refuse">> ELSE <<"load", "app_call">>

\* mutant: a call is made before the token for it is asked for
through_api_out_of_order == <<"open", "describe", "use", "mint">>

\* `ghapp token` and the credential helper.
with_token == <<"open", "mint", "use">>

\* gh-app: the token is in the environment of its child.
gh_app == <<"open", "mint", "child">>

\* git-app: the token is in a file while its child runs.
git_app == <<"open", "mint", "write", "run", "remove">>

\* GitHubApi on a backend.
through_api == <<"open", "describe", "mint", "use">>

\* github_app_verify_identity.
verify ==
  IF backend = "socket" THEN <<"open", "describe", "open", "describe", "mint", "use">>
  ELSE <<"open", "describe", "load", "app_call", "open", "describe", "mint", "use">>

\* _doctor: through the broker, or with the App configuration at hand.
doctor ==
  IF backend = "local" THEN <<"load", "app_call", "mint", "mint", "use">>
  ELSE <<"open", "describe", "mint">>

script(kind) ==
  CASE kind = "mint"        -> with_token
    [] kind = "gh_app"      -> gh_app
    [] kind = "git_app"     -> git_app
    [] kind = "api"         -> through_api
    [] kind = "app_tool"    -> as_app(backend = "socket")
    [] kind = "app_command" -> as_app(backend # "local")
    [] kind = "verify"      -> verify
    [] kind = "doctor"      -> doctor

Working(k) == todo[k] # <<>>
At(k, step) == Working(k) /\ Head(todo[k]) = step

\* k waits for gh or git, or for the command of the key: nothing bounds that.
WaitsForProcess(k) ==
  \/ At(k, "child") \/ At(k, "run")
  \/ /\ env.key_cmd
     /\ At(k, "app_call") \/ (At(k, "mint") /\ backend = "local")

-----------------------------------------------------------------------------
Init ==
  /\ InitService
  /\ env \in Environments
  /\ op = [k \in Caller |-> NoOperation]
  /\ todo = [k \in Caller |-> <<>>]
  /\ result = [k \in Caller |-> "none"]
  /\ conn = [k \in Caller |-> NoConn]
  /\ token = [k \in Caller |-> NoToken]
  /\ loaded = [k \in Caller |-> FALSE]
  /\ posted = [k \in Caller |-> AnyPolicy]
  /\ askpass = [k \in Caller |-> NoToken]
  /\ left = FALSE

Call(k, o) ==
  /\ op[k] = NoOperation
  /\ op' = [op EXCEPT ![k] = o]
  /\ todo' = [todo EXCEPT ![k] = script(o.kind)]
  /\ UNCHANGED <<service, env, disk, result, conn, token, loaded, posted>>

\* The step at hand is done; the last one ends the operation.
Done(k) ==
  /\ todo' = [todo EXCEPT ![k] = Tail(@)]
  /\ result' = [result EXCEPT ![k] =
                  IF Len(todo[k]) = 1 /\ @ = "none" THEN "ok" ELSE @]

\* mutant: what follows a child that ends badly is not run
FailsAtOnce(k) ==
  /\ todo' = [todo EXCEPT ![k] = <<>>]
  /\ result' = [result EXCEPT ![k] = "error"]

\* The operation ends with an error; git-app leaves its `with` on the way.
Fails(k) ==
  /\ todo' = [todo EXCEPT ![k] = IF Head(@) \in {"write", "run"} THEN <<"remove">>
                                 ELSE <<>>]
  /\ result' = [result EXCEPT ![k] = "error"]

Describe(k) ==
  /\ At(k, "describe")
  /\ Done(k)
  /\ UNCHANGED <<service, env, disk, op, conn, token, loaded, posted>>

\* app_request, with a JWT signed by the key of the configuration.
CallAsApp(k) ==
  /\ At(k, "app_call")
  /\ Done(k)
  /\ UNCHANGED <<service, env, disk, op, conn, token, loaded, posted>>

\* A call on GitHub or the caller has used the token, or gh or git has ended.
Use(k) ==
  /\ At(k, "use") \/ At(k, "child") \/ At(k, "run")
  /\ Done(k)
  /\ UNCHANGED <<service, env, disk, op, conn, token, loaded, posted>>

WriteAskpass(k) ==
  /\ At(k, "write")
  /\ askpass' = [askpass EXCEPT ![k] = token[k]]
  /\ Done(k)
  /\ UNCHANGED <<service, env, left, op, conn, token, loaded, posted>>

\* The end of TemporaryDirectory, whatever came before.
RemoveAskpass(k) ==
  /\ At(k, "remove")
  /\ askpass' = [askpass EXCEPT ![k] = NoToken]
  /\ Done(k)
  /\ UNCHANGED <<service, env, left, op, conn, token, loaded, posted>>

\* load_config, for a local backend or the App's own token.
LoadApp(k) ==
  /\ At(k, "load") \/ (At(k, "open") /\ backend = "local")
  /\ loaded' = [loaded EXCEPT ![k] = TRUE]
  /\ IF env.app THEN Done(k) ELSE Fails(k)
  /\ UNCHANGED <<service, env, disk, op, conn, token, posted>>

OpenBroker(k) ==
  /\ At(k, "open") /\ backend # "local"
  /\ Done(k)
  /\ UNCHANGED <<service, env, disk, op, conn, token, loaded, posted>>

\* Minted by this process: what was asked for, or the configured default.
MintLocal(k) ==
  /\ At(k, "mint") /\ backend = "local"
  /\ token' = [token EXCEPT ![k] =
       [repo |-> op[k].repo,
        permissions |-> IF op[k].permissions = NoPerms THEN DefaultGrant
                        ELSE op[k].permissions]]
  /\ Done(k)
  /\ UNCHANGED <<service, env, disk, op, conn, loaded, posted>>

\* POST /token on a connection of its own.
Post(k, c) ==
  /\ At(k, "mint") /\ backend # "local"
  /\ conn[k] = NoConn /\ \A j \in Caller : conn[j] # c
  /\ Ask(c, [repo |-> op[k].repo, permissions |-> op[k].permissions])
  /\ conn' = [conn EXCEPT ![k] = c]
  /\ posted' = [posted EXCEPT ![k] = policy]
  /\ UNCHANGED <<env, disk, op, todo, result, token, loaded>>

\* The answer is read: a token, or BrokerDeniedError.
Answered(k) ==
  LET c == conn[k] IN
  /\ At(k, "mint") /\ c # NoConn
  /\ Answer(c)
  /\ IF session[c] = "granted"
     THEN /\ token' = [token EXCEPT ![k] = issued(question[c])]
          /\ Done(k)
     ELSE /\ Fails(k)
          /\ UNCHANGED token
  /\ conn' = [conn EXCEPT ![k] = NoConn]
  /\ UNCHANGED <<env, disk, op, loaded, posted>>

\* mutant: an HTTP client with no timeout waits for its answer
FailUnlessWaiting(k) ==
  /\ Working(k) /\ ~ At(k, "remove") /\ conn[k] = NoConn
  /\ Fails(k)
  /\ UNCHANGED <<service, env, disk, op, conn, token, loaded, posted>>

\* mutant: the connection is kept, for the next operation to use
FailKeepingConnection(k) ==
  /\ Working(k) /\ ~ At(k, "remove")
  /\ Fails(k)
  /\ UNCHANGED <<service, env, disk, op, conn, token, loaded, posted>>

\* The step at hand raises: the broker cannot be reached or closes the
\* connection, the timeout of the HTTP client ends the wait, GitHub refuses,
\* the child cannot be started, or the operation is refused from the start.
\* The connection is abandoned; the broker need not notice.
Fail(k) ==
  /\ Working(k) /\ ~ At(k, "remove")
  /\ Fails(k)
  /\ conn' = [conn EXCEPT ![k] = NoConn]
  /\ UNCHANGED <<service, env, disk, op, token, loaded, posted>>

\* The caller is back where it was before its operation.
Forget(k) ==
  /\ op' = [op EXCEPT ![k] = NoOperation]
  /\ todo' = [todo EXCEPT ![k] = <<>>]
  /\ result' = [result EXCEPT ![k] = "none"]
  /\ token' = [token EXCEPT ![k] = NoToken]
  /\ loaded' = [loaded EXCEPT ![k] = FALSE]
  /\ posted' = [posted EXCEPT ![k] = AnyPolicy]

\* The outcome is reported; the caller may be asked again for the same.
Return(k) ==
  /\ op[k] # NoOperation /\ ~ Working(k)
  /\ Forget(k)
  /\ UNCHANGED <<service, env, conn, disk>>

\* The process is killed, and nothing of it runs any more.
Kill(k) ==
  /\ Working(k)
  /\ Forget(k)
  /\ conn' = [conn EXCEPT ![k] = NoConn]
  /\ askpass' = [askpass EXCEPT ![k] = NoToken]
  /\ left' = (left \/ askpass[k] # NoToken)
  /\ UNCHANGED <<service, env>>

-----------------------------------------------------------------------------
\* What the broker does by itself, for these clients and for no others; an
\* answer nobody waits for is lost.
BrokerStep ==
  /\ \/ \E c \in Conn :
          \/ Grant(c) \/ Refuse(c) \/ Leave(c)
          \/ /\ session[c] # "free"
             /\ Drop(c)
          \/ /\ \A k \in Caller : conn[k] # c
             /\ Answer(c)
     \/ Crash
     \/ Edit
  /\ UNCHANGED <<env, client, disk>>

Proceed(k) ==
  \/ LoadApp(k) \/ OpenBroker(k) \/ Describe(k) \/ CallAsApp(k) \/ MintLocal(k)
  \/ Use(k) \/ WriteAskpass(k) \/ RemoveAskpass(k)
  \/ \E c \in Conn : Post(k, c)
  \/ Answered(k)
  \/ Fail(k)

Next ==
  \/ \E k \in Caller :
       \/ \E o \in Operations[k] : Call(k, o)
       \/ Proceed(k)
       \/ Return(k) \/ Kill(k)
  \/ BrokerStep

\* An operation goes on: the HTTP clients have timeouts, and end every wait but
\* that for another process, which subprocess has none for.
Fairness == \A k \in Caller : WF_vars(~ WaitsForProcess(k) /\ Proceed(k))

Spec == Init /\ [][Next]_vars /\ Fairness

-----------------------------------------------------------------------------
\* The clients' state is well typed, and no call on GitHub is made, no child
\* started and no file written before the token is there (api.py:51-54,
\* cli.py:146-182).
TypeOK ==
  /\ policy \in Policies
  /\ session \in [Conn -> {"free", "asked", "granted", "refused", "over"}]
  /\ question \in [Conn -> Question]
  /\ logged \subseteq TokenScope
  /\ env \in Environments
  /\ op \in [Caller -> Operation \cup {NoOperation}]
  /\ \A k \in Caller : op[k] \in Operations[k] \cup {NoOperation}
  /\ todo \in [Caller -> Seq(Step)]
  /\ result \in [Caller -> {"none", "ok", "error"}]
  /\ conn \in [Caller -> Conn \cup {NoConn}]
  /\ token \in [Caller -> TokenScope \cup {NoToken}]
  /\ loaded \in [Caller -> BOOLEAN]
  /\ posted \in [Caller -> Policies]
  /\ askpass \in [Caller -> TokenScope \cup {NoToken}]
  /\ left \in BOOLEAN
  /\ \A k \in Caller : Working(k) /\ Head(todo[k]) \in Spend => token[k] # NoToken

\* Whatever was abandoned, lost or tried again before, the token an operation
\* holds was asked for its own repository, and has just the permissions it
\* names: no late answer is taken for another's (backends.py:118-153,
\* api.py:37-51).
HeldAsAsked ==
  \A k \in Caller : token[k] # NoToken =>
    /\ token[k].repo = op[k].repo
    /\ op[k].permissions # NoPerms => token[k].permissions = op[k].permissions

\* No token that came from the broker is used without its line on the audit
\* stream, and it is one the policy allowed that was in force when it was asked
\* for, however often the policy changed since (README.md:15-18).
HeldUnderPolicy ==
  \A k \in Caller : token[k] # NoToken /\ backend # "local" =>
    LET verdict == evaluate(posted[k], op[k].repo, op[k].permissions) IN
    /\ token[k] \in logged
    /\ verdict.allowed
    /\ verdict.granted # NoPerms => token[k].permissions = verdict.granted

\* Every operation ends, with an outcome, whatever becomes of the broker and
\* its answers, or is left waiting for gh, for git or for the command of a key
\* in its own process, and for nothing else (backends.py:98-105, 133-136,
\* cli.py:150, 182, config.py:50-52).
EveryOperationEnds ==
  \A k \in Caller : Working(k) ~> ~ Working(k) \/ WaitsForProcess(k)

\* Wherever git-app fails, the file with its token is gone by the time the
\* failure is reported: only a kill leaves one behind (cli.py:167-182).
AskpassRemoved ==
  \A k \in Caller : askpass[k] # NoToken =>
    /\ Working(k) /\ todo[k][Len(todo[k])] = "remove"
    /\ askpass[k] = token[k]

-----------------------------------------------------------------------------
\* "All handlers go through the token backend, so the gateway works identically
\* whether it mints locally or via the broker (GHAPP_BROKER_SOCKET /
\* GHAPP_BROKER_URL)" (tools.py:3-4): with a broker in the environment no
\* operation reads the local App configuration.
BrokerModeNeedsNoApp ==
  \A k \in Caller : loaded[k] => backend = "local"

\* A token "expires within an hour, and is never written to disk" (README.md:5).
TokenNeverOnDisk == ~ left /\ \A k \in Caller : askpass[k] = NoToken
=============================================================================
