# A verification project for ghapp

TLA+ models of `hermes_github_app_plugin` (`src/src/hermes_github_app_plugin/`): the token
broker with its policy, token cache, unix socket and HTTP server, its clients, and the
configuration file. TLC checks them on small instances; TLAPS proves the main safety
properties of policy, cache, broker, socket and HTTP server for all instances.

## The system

`ghapp` gives agents short-lived GitHub tokens, each for one repository and an explicit
permission set. In *local mode* a process holds the App key and mints tokens itself; in
*broker mode* it asks a daemon, over a unix socket or TCP, which holds the key, applies
a policy and writes every decision to an audit stream.

| component | code | state it keeps | operations |
|---|---|---|---|
| policy engine | `broker.py:43-181` | an immutable `Policy` per process | `load_policy`, `evaluate` |
| minting and cache | `auth.py`, `config.py:86-107` | `_cache`: scope -> token, shared by all threads, no lock | `mint_for_repo`, `get_installation_token`, `create_jwt` |
| broker requests | `broker.py:240-367` | one thread per connection; audit stream | `do_POST` (`/token`), `do_GET` |
| broker socket | `broker.py:192-216, 384-441` | the socket file, listener, connections | start, serve, shutdown |
| TCP transport, HTTP connections | `broker.py:219-321, 370-439` | listener, kept-open connections and what was sent on them | start, serve, read, answer, shutdown |
| configuration | `config.py:110-241`, `cli.py:252-310` | a section of Hermes' `config.yaml`; environment | `load_config`, `write_github_app_config`, `ghapp setup` |
| backends | `backends.py` | none but an HTTP client | `mint`, `describe`, `get_backend` |
| Hermes tools, API | `tools.py`, `api.py`, `schemas.py` | none | one token and one GitHub call each |
| CLI, git helpers | `cli.py` | a temporary askpass file | `token`, `api`, `status`, `doctor`, `gh-app`, `git-app`, credential helper |

Clients reach the broker by HTTP; `serve` loads the policy once and hands it and one
`GitHubAppAuth` to all handler threads; a handler calls `Policy.evaluate`, then
`mint_for_repo`, which reads and writes the shared cache around an exchange with GitHub,
then writes an audit line, then answers. `setup` and Hermes write one file.

What is hard here, and what makes each part correct:

* **Policy.** Overrides lower a copy of the maximum one after another. Correct: the
  order does not matter, nothing is granted above any matching cap, overrides never add,
  an explicit request is never clamped, an empty one is.
* **Cache.** Lookup, exchange and store of different threads interleave; tokens age.
  Correct: no caller gets a token of another scope, an unusable one, or an old one when
  it forced a refresh; a late store does no harm.
* **Requests.** Every call in `do_POST` may fail, the client may go, the process may die
  and come back with another policy. Correct: what is minted was decided, within the
  ceiling, audited before it is sent; every request ends.
* **Socket.** Crashes leave the path behind; processes overlap. Correct: a broker started
  alone comes up and is reached, clients are led to the newest, none is left waiting.
* **HTTP server.** Bodies stay unread on connections that are kept open, clients stall, a
  key command hangs, an interrupt finds threads at work. Correct: answers stay with their
  requests, nobody is held up by another, a restart and a shutdown come through.
* **Clients.** They give up after 30 seconds, abandon connections and try again, while
  the broker works on, dies or comes back with another policy. Correct: an operation holds
  the token of its own request, allowed when it asked and logged; every operation ends, but
  for one that waits for a process of its own, and leaves no token file behind.
* **Configuration.** Unlocked read, truncate, write, twice per setup, in a file Hermes
  also writes, and a write that lands at the start of another's longer text. Correct: other
  sections survive, merging does not mix setups, a setup alone takes effect.

`PROJECT.json` lists the hazards one by one with their lines.

## The modules

| module | what it is |
|---|---|
| `Permissions` | levels as ranks, permission dicts as functions, `Within` |
| `Policy` | policy files and `Policy` records; `evaluate`, parsing, validation, as operators |
| `PolicyDecision` | abstract: a file is served or refused, a question answered in one step |
| `PolicyEngine` | the code: the override loop entry by entry; refines `PolicyDecision` |
| `AppAuth` | the cache and the calls of `mint_for_repo`; GitHub and the clock are external |
| `Broker` | extends `AppAuth` and `Policy`: the threads of `do_POST`, stops and restarts |
| `BrokerService` | abstract: what the broker promises on a connection; `Broker` refines it |
| `Gateway` | extends `BrokerService`: backends, tools, commands, credential helper |
| `BrokerSocket` | the life of the socket path |
| `BrokerHTTP` | the server on a port: its start and end, connections, requests and bodies |
| `ConfigFile` | `config.yaml`, setup, `load_config` |
| `MC...` | instances for TLC |
| `PolicyLemmas`, `...Proofs` | lemmas and proofs for TLAPS |

How they correspond to the code:

* *Policy.* Repository names and globs are model values; `Matches` stands for
  `fnmatchcase` on lowercased names and `Sample` for the name `load_policy` makes from the
  first pattern. An unknown level string ranks 99, as in `evaluate`. `judge` states in
  one comparison what the loop at lines 105-120 finds by returning early. The code walks
  the overrides in the order of the file; the engine takes them in any order.
* *AppAuth.* `pc[c]` is where thread `c` stands: `Hit` and `Miss` are lines 96-105, one
  step because the lookup touches the shared dict once; `Issue` is GitHub granting the
  POST, `Store` lines 117-135. `Fail` and `Raise` separate the errors the broker turns
  into a 502 from those it does not. Tokens carry the order and time of issue, their
  installation, repository and permissions. GitHub grants just what the body asks for.
* *Broker.* `stage[c]` is where `do_POST` stands. `Receive*` are lines 302-330 up to the
  verdict, which nothing can interleave with in a way another thread sees, since the
  policy never changes while the process runs. `Unhandled` is an exception of a kind the
  handler does not catch, in the mint or in the audit's `print`. `logged` outlives
  `Stop`; threads and cache do not. `Restart` reads a policy the operator may have edited.
  A thread that has answered is free for the next request of its connection or of another.
  `Promise` maps the stages of `do_POST` to the five states of a `BrokerService` session
  and forgets cache, clock and call. An installation is on one account (`Account`) and
  hosts that account's repositories; which owners it serves is the configuration's choice,
  and a legacy `"*"` serves all. A grant is written with the repository asked for, as the
  audit line and the answer have it; which one the token is good for is `tok[c].repo`.
* *Gateway.* An operation is a course of steps (`script`) taken from the handler it stands
  for; `open` is `get_backend`, `describe` and `app_call` are calls that only succeed or
  fail, `mint` is `backend.mint`, `use` the call or the output the token is for, `child`
  the child of `gh-app`; `write`, `run` and `remove` are `git-app` with its askpass file,
  which `Fails` removes on every way out, and only `Kill` leaves behind. The environment
  (`env`) selects backend and course, and says whether the key of a local App comes from a
  command. `WaitsForProcess` names the steps that wait for another process, which the code
  gives no timeout. `Fail` is any exception: an
  unreachable broker, a closed connection, the 30-second timeout, an answer that is no
  JSON, GitHub's refusal; the broker need not notice that its client is gone. `loaded`
  and `posted` are history: whether the operation read the local App configuration, and
  the policy in force at its POST. Each caller has operations of its own (`Operations`). A
  token's repository is the one asked for, as the broker reports it.
* *BrokerSocket.* One action per system call of lines 211-216 and 433-441. `path` holds
  the number of the socket the path names. `Crash` may come between any two.
* *BrokerHTTP.* One action per step of `serve` on a port, with another process that may
  hold the port (`taken`) and connections in TIME_WAIT (`lingering`); one thread per
  connection, whose `stage` follows `http.server`'s loop and `do_POST`. What a client
  sends is a sequence of heads and bodies, each marked with the request it belongs to. A
  GET, a POST to another path and one with a refused length leave their body unread, where
  the loop expects the next request line (`Stray`). A body that is no request is an error
  of `http.server`, which closes (`Misread`). One that reads as a request is handled as one
  nobody sent (`current` is 0): it is answered, or decided, and the connection kept
  (`ReadStray`), or its headers or announced body take in what the client sends next
  (`ReadOn`), of which a part may be left over (`rest`). What `do_POST` decides is one step
  here (`Decide`), or never ends (`Hang`: a `private_key_cmd` that waits); `Broker` has it in
  full. `Leave` is the shutdown line, `Exit` the end of the interpreter after it: threads
  may decide in between. That a request may ask for its connection to be closed is left
  out: the client then leaves (`HangUp`). The unix socket's connections are handled by
  the same code.
* *ConfigFile.* `ReadFile`, `Truncate` and `Write` are the three accesses of
  `write_github_app_config`; `pass` tells setup's two calls apart. A text is written in one
  piece, being shorter than a write buffer, but at the start of whatever the file holds by
  then, since only opening truncates it: where another setup wrote first, and more, the
  tail of its text stays (`overlays`). What that reads as depends on where the text is
  cut: no YAML (`Broken`, at which every reader fails), or the other sections of one of the
  two and, of the keys, those of the tail (`Tails`, any sets of keys) as the longer text has
  them. A value folded over two lines and cut between them counts as `Broken`; so does what a
  third text leaves of one that is `Broken` already, if not the third text itself.
  `overlaid` records that a write left anything but its own text. Hermes' own edit is
  one step; setup's write may land on it.

## What TLC checks

| run | instance and bounds | what it shows |
|---|---|---|
| `policy` | 2 permissions, 3 repositories, 3 globs, 192 files, all questions | grants within every cap of policy and file, no clamping, overrides only tighten, defaults tried at load hold at the mint, refinement of `PolicyDecision` |
| `app_auth` | 2 threads, 6 kinds of call, 2 installations; 3 tokens, clock to 3, life 3, slack 1, exchange 1 | scope, freshness, usability, late stores |
| `broker` | 2 threads, 2 owners, 2 requests, one installation for `"*"`, 2 policies, 1 restart, 2 tokens, clock to 1, life 1 | minted as decided, within the ceiling, audited before sent, every request ends, `BrokerService` implemented |
| `broker_empty_grant` | as `broker` | *violation*: an empty grant becomes the configured defaults |
| `broker_audit` | as `broker` | *violation*: a body that is no object leaves no audit line |
| `socket` | 3 processes, 3 binds, 1 client | start-up after crashes, reachability, newest, no waiting |
| `http` | 2 connections, one with 2 requests, one with 1, each with its own kinds of request; 2 starts | answers in place, decisions under the policy announced, start-up unless the port is taken, nobody holds up another, shutdown ends |
| `config` | 2 setups, 3 argument sets, 4 environments, 3 files, 3 tails, bounded edits | other sections survive, setup alone takes effect, no mixing but by overlapping writes |
| `gateway` | 2 callers, 2 connections, 5 kinds of operation, 2 policies, both backends | tokens are the caller's own, allowed and logged; `git-app` removes its file; every operation ends or waits for a process |
| `gateway_url` | the tools that call `/app`, broker by URL | *violation*: they read the local App configuration |
| `gateway_disk` | `git-app` alone | *violation*: it writes the token to disk |
| `config_environment` | same as `config` | *violation*: a path in the file beats a command in the environment |

Why the bounds are enough. Hazards of the cache need two threads (one that stores late,
one that stored before) and a lifetime in which a token can be fresh, within the slack and
expired: three ticks of life, one of slack, one of exchange. `MaxMint` allows a cached,
a late and a refreshed token. In `Broker` the second thread shares the cache, one restart
separates two policies, and its two policies disagree on both requests: one allows what
the other refuses, and they grant different defaults. Its one installation serves `"*"` and is
on the account of one of the two owners: one request is for a repository of that owner, the
other for the other owner's of the same name. `AppAuth`'s run has installations by owner. In `Gateway` two connections let
one be abandoned with its answer on the way while the other is used; crashes, policy
edits, kills and repeated operations are not bounded; the two callers' operations differ,
so that a token of one would show in the other; the credential helper's course, which is
`gh-app`'s without a child, is not among them. In `BrokerHTTP` the second request of a
connection is the one that may meet what the first left, the other connection may stall or
hang meanwhile, and the second start is the restart; the first connection may send a POST
to `/token`, one of a refused length whose body is no request, and one to another path whose
body is, the other a GET without a body or a POST to `/token` (`MCRequests`); the client may connect, leave and come
back without bound. In `ConfigFile` two setups suffice for
one text over another; a file that is `Broken` is not repaired, and every setup fails there.
Three socket processes let a third
overlap with a pair in the middle of a hand-over; one client suffices as clients do not
interact. The policy files hold each shape that matters: no,
one and two matching overrides, `none`, a name the maximum lacks, a duplicate key, a bad
level, a pattern that misses its sample. Deadlock is not checked in the broker runs: once
the process has stopped and `MaxRestart` is reached nothing more happens. In
`policy` a refused file ends the process. `MaxTime`,
`MaxMint`, `MaxRestart`, `MaxBind`, `MaxEdit`, `MaxStart` and `MaxRequests` only bound the state space; each is a
conjunct of one guard.

Fairness. `Broker`: weak fairness of each thread's `Handle`, since every wait of `do_POST`
after the request was read ends: the HTTP client has timeouts (`auth.py:68`), and the
audit and answer are local. That a `private_key_cmd`, which runs with no timeout
(`config.py:50`), ends is an assumption of `Broker` alone. `Gateway`: weak fairness of each
operation's next step or failure, but not while it waits for another process: its HTTP
clients have timeouts (`backends.py:98-105`, `api.py:30`, `auth.py:68`), `gh` and `git`
(`cli.py:150, 182`) and the key command of a local App have none, so `EveryOperationEnds`
says that an operation ends or is left at one of these. (The timeouts bound each read; that
nobody sends an endless answer byte by byte is assumed.) `BrokerHTTP`: weak fairness of the
process (`Serve`), of accepting, and of each thread's `Handle`; none of a client's sending,
of another process leaving the port, or of a key command's end, which may hang.
`BrokerSocket`: weak fairness of what `serve` does
unasked, of accepting and of answering. Nothing is assumed of clients, operators,
`Stop`, `Crash` or `Restart`.

## What is proved

For every number of threads, processes, repositories, permissions, policies and
lifetimes, from the named assumptions in the modules:

* `PolicyProofs`: `IInv` of `PolicyEngine` is inductive. Its loop part says that
  `effective` holds the least of the caps visited so far, which is what makes the order of
  the overrides irrelevant; from it follow type correctness, `GrantWithinCeiling`,
  `DeniedNotClamped`, `OverridesOnlyTighten`, `DefaultsHoldAtMint` (from `ServedInv`: what
  `load_policy` tried holds for every repository but for the overrides),
  `FileEntriesApply`, and, step by step, that the engine implements `PolicyDecision`.
* `AppAuthProofs`: `AuthInv` ties each cache entry to its key and each call in progress to
  its own arguments and start (begun within one exchange, its token issued since). From it
  follow `ReturnedForAsk`, `HandedOutUsable`, `ForcedIsFresh` and `LateStoreBounded`. The
  last and the second need `LifetimeAssumption`: a token outlives the slack by more than
  an exchange takes (an hour against five minutes and the time of one exchange). The
  code does not enforce it; GitHub's lifetimes and the HTTP timeouts make it true.
* `BrokerProofs`: `BrokerInv` adds to `AuthInv` what each thread's stage says of its
  request, its decision, its call and its audit line, that a stopped process has no
  threads, and that what was delivered was logged. From it follow `MintedAsDecided`,
  `GrantsWithinCeilingUnlessEmpty` (with the policy lemmas; the token is for the repository
  asked for where the installation is on its owner's account, by `BrokerAssumption`: an
  account hosts its own repositories only; any owner may be sent to any installation) and
  `AuditPrecedesAnswer`; and, because a step of the broker is to the cache and the calls a
  step of `AppAuth` or the end of the process (`BrokerAuthStep`), `ReturnedForAsk`,
  `HandedOutUsable` and `ForcedIsFresh` across crashes and restarts.
* `BrokerKeepsPromise`, in the same module, is the refinement: `Broker` implements
  `BrokerService`. A connection is "asked" while its thread refuses or mints, "granted" or
  "refused" once its line is written, "over" when it is answered or dropped. `ReceiveAsks`
  maps the reading of a body to `Ask`; `HandleKeeps` the audit step to `Grant` or `Refuse`,
  where `BrokerInv` shows that the token logged is the one `issued` for the question by
  the policy still in force; `LifeKeeps` crashes and restarts to `Crash` and `Edit`; the
  steps of the cache and of GitHub are invisible.
* `WithinCeilingWhenDefaultsSurvive` gives the condition under which the third of the
  disagreements below cannot happen: the overrides of every policy leave each repository
  it allows some default permission.
* `BrokerSocketProofs`: `SocketInv` says that sockets are numbered in order, each owned by
  one process, that the path names the newest or nothing, and that of a process that has
  run alone: its path is its own. From it follow the three safety properties of the run.
* `BrokerHTTPProofs`: `HTTPInv` says that what is unread on a connection is a piece, in
  order and up to its end, of what the client sent, of which only the first part may be a
  rest; that the thread stands at the request after those it answered, and finds there
  that request's body or the next request, as long as no body nobody reads was itself a
  request; and, once one was, that only requests after it are affected. Without the order
  on the wire nothing could be said of the request after an unread body. From it follow
  `AnswersInPlace` and, with `NamedInv`, `DecidedUnderPolicyNamed`, the steps between the
  shutdown line and the exit included.
* `GatewayProofs`: `GatewayInv` says of each caller that the steps left of its operation fit
  the token it holds (with a broker no further mint is left, and a call on GitHub comes
  after a mint) and the file of its token (only git and the removal are left); and, while it
  waits, that its connection is its own and carries its own question, asked under the policy
  still in force, until the broker lets go of it. Without the last part an answer could be
  another's, or of another policy. From it follow `HeldAsAsked`, `HeldUnderPolicy`,
  `AskpassRemoved` and type correctness, for any number of callers and connections and any
  policies, edited whenever the broker has no request. `ClientsUseTheService` shows that the
  clients drive the broker by steps of `BrokerService` only, and `ServiceGrantsAsDecided`
  that no grant of that service disagrees with the policy in force: with
  `BrokerKeepsPromise` the two halves, broker and clients, meet in one proved interface.
* `ConfigFileProofs`: `ConfigInv` says that, as long as no write left the tail of another's
  text, the keys `setup` asks for come from one source in the file and also in what each
  setup has read (the file alone is not inductive: a setup writes back what it read), and
  what a setup is about to write has the latest other sections, unless something was
  clobbered; and that, whatever was left before, a setup nobody overlapped is the only one
  running, writes into a file that is still empty, and finds its first write in place when
  it reads for the second. From it follow type correctness, `RestSurvives`, `NeverMixed`
  and `SetupTakesEffect`, for any number of setups, arguments, environments, files and
  tails. `EnvironmentWinsWithPaths` gives the condition that excludes the fifth
  disagreement below: no key inlined in a file, and environments that give a key or a path
  rather than a command.

Every safety property of the passing runs is proved. Only model-checked is liveness
(`EveryRequestEnds`, `EveryOperationEnds`, `NoClientLeftWaiting`, `ComesUpUnlessTaken`,
`NobodyElseHoldsUp`, `ShutdownEnds`): fairness and ENABLED are out of the prover's reach.

## Disagreements found

Five are shown by runs that expect a violation; the first two are written into the
properties that hold as their exceptions:

1. Of two override keys that differ in case only, the later replaces the earlier
   (`broker.py:138`), though "all matching globs apply; lowest wins" (`broker.py:65`):
   `FileEntriesApply` leaves out a replaced entry.
2. `load_policy` accepts defaults above the maximum when the first pattern does not match
   the sample name made from it (`broker.py:177-180`): `DefaultsHoldAtMint` asks that it does.
3. When overrides remove every default permission, the empty grant is replaced by the
   configured defaults (`broker.py:334`, `auth.py:149`), against `README.md:120`
   (run `broker_empty_grant`).
4. A JSON body that is no object ends its request without an audit line
   (`broker.py:321`), against "every request is audited" (`SKILL.md:16`; run `broker_audit`).
5. A key path in the file beats a key command from the environment, and a key inlined in
   the file beats both a path and a command from there (`config.py:197-210`), against
   `README.md:48-51` (run `config_environment`).
6. Two tools know broker mode by `GHAPP_BROKER_SOCKET` alone and load a local key when the
   broker is given by `GHAPP_BROKER_URL` (`tools.py:72, 95`), against `tools.py:3-4`
   (run `gateway_url`).
7. `git-app` writes the token into a script on disk (`cli.py:167-182`), against "never
   written to disk" (`README.md:5`; run `gateway_disk`).

Three more have no line of the documents against them, and no run; the properties that
hold name them as their exceptions:

8. With a legacy `"*"` installation the broker judges the repository a client names while
   GitHub mints for the repository of that name on the installation's own account
   (`config.py:102-103`): `GrantsWithinCeilingUnlessEmpty` promises the repository asked for
   only where the installation is on its owner's account.
9. A body left unread that is itself a request is answered in the place of the next one, or
   takes it in (`broker.py:287-310`): `AnswersInPlace` and `NobodyElseHoldsUp` leave out what
   the same client sends after one.
10. Two setups that have both truncated the file before either writes may leave one's text
   with the tail of the other's (`config.py:156-158`): `RestSurvives` and `NeverMixed` stop
   there, `SetupTakesEffect` does not.

`GrantsWithinCeilingUnlessEmpty` also excepts the third, and `EveryRequestEnds` counts the closed
connection of the fourth as an end.

## Not modelled

JWT contents; tokens that GitHub revokes before they expire (`erase` is a no-op and nothing
reacts); which GitHub address a client calls (`tools.py:37`); `force_refresh` of a client
(it changes nothing a client can tell); whether two threads' audit lines run into each
other (a line is one step); how an error is worded; prompts, tool schemas, parsing of
arguments; the verification after `setup` (it changes nothing, and `doctor` is an
operation of `Gateway`); packaging and CI.

## The plan

1. `Permissions`, `Policy`, `PolicyDecision`, `PolicyEngine`: done, proved.
2. `AppAuth`: done, proved. 3. `Broker`, composing 1 and 2: done, proved.
4. `BrokerSocket`: done, proved. 5. `ConfigFile`: done, proved.
6. `BrokerService` and `Gateway`, with `Broker` implementing the former: done, proved.
7. `BrokerHTTP`: done, its safety proved.
8. Left: the step-by-step facts under the liveness properties (which step is enabled where
   a thread or a caller waits), as far as they can be stated without ENABLED.
