---------------------------- MODULE BrokerSocket ----------------------------
(***************************************************************************)
(* The life of the broker's unix socket (broker.py: _BrokerServer, serve). *)
(* Broker processes are started on one socket path, remove what they find  *)
(* there, bind, serve and remove the path again when interrupted; a crash, *)
(* or a signal other than the interrupt, ends one between any two steps    *)
(* and leaves the path behind.  Nothing stops an operator from starting a  *)
(* process while an older one still runs.  Sockets are numbered in the     *)
(* order they were bound; 0 stands for none.                               *)
(***************************************************************************)
EXTENDS Integers

CONSTANTS
  Broker,     \* broker processes, each started again after it ended
  Client,     \* processes that connect to the path
  MaxBind     \* bound on the sockets ever bound

ASSUME SocketAssumption == MaxBind \in Nat \ {0}

VARIABLES
  phase,       \* phase[b] : where serve stands in process b
  mine,        \* mine[b] : the socket b has bound
  path,        \* the socket the path names
  bound,       \* the number of sockets bound so far
  listening,   \* the sockets the kernel accepts connections for
  chmodded,    \* the sockets that were given socket_mode
  conn,        \* conn[k] : the socket client k is connected to
  accepted,    \* accepted[k] : a handler thread reads k's connection
  overlapped   \* overlapped[b] : another process ran during the life of b

serverVars == <<phase, mine, path, bound, listening, chmodded, overlapped>>
vars == <<serverVars, conn, accepted>>

Phase == {"down", "starting", "removing", "binding", "bound", "listening",
          "serving", "closing", "leaving", "ending", "failed"}

Socket == 0 .. MaxBind

Alive(b) == phase[b] # "down"

Init ==
  /\ phase = [b \in Broker |-> "down"]
  /\ mine = [b \in Broker |-> 0]
  /\ path = 0
  /\ bound = 0
  /\ listening = {}
  /\ chmodded = {}
  /\ conn = [k \in Client |-> 0]
  /\ accepted = [k \in Client |-> FALSE]
  /\ overlapped = [b \in Broker |-> FALSE]

\* Process b takes its next step, and is then in phase p.
Goes(b, from, to) == phase[b] = from /\ phase' = [phase EXCEPT ![b] = to]

Hangs(K) ==
  /\ conn' = [k \in Client |-> IF k \in K THEN 0 ELSE conn[k]]
  /\ accepted' = [k \in Client |-> k \notin K /\ accepted[k]]

-----------------------------------------------------------------------------
\* serve is called and the policy loads.
Start(b) ==
  /\ Goes(b, "down", "starting")
  /\ overlapped' = [c \in Broker |->
       IF c = b THEN \E d \in Broker \ {b} : Alive(d) ELSE overlapped[c] \/ Alive(c)]
  /\ UNCHANGED <<mine, path, bound, listening, chmodded, conn, accepted>>

\* mutant: the path is taken to be free
LookNotAtPath(b) ==
  /\ Goes(b, "starting", "binding")
  /\ UNCHANGED <<mine, path, bound, listening, chmodded, conn, accepted, overlapped>>

\* path.exists(): a leftover file is to be removed first.
LookAtPath(b) ==
  /\ Goes(b, "starting", IF path = 0 THEN "binding" ELSE "removing")
  /\ UNCHANGED <<mine, path, bound, listening, chmodded, conn, accepted, overlapped>>

RemoveLeftover(b) ==
  /\ Goes(b, "removing", "binding")
  /\ path # 0
  /\ path' = 0
  /\ UNCHANGED <<mine, bound, listening, chmodded, conn, accepted, overlapped>>

\* mutant: the process does not notice that the path is taken
BindRegardless(b) ==
  /\ Goes(b, "binding", "bound")
  /\ bound < MaxBind
  /\ bound' = bound + 1
  /\ mine' = [mine EXCEPT ![b] = bound + 1]
  /\ path' = IF path = 0 THEN bound + 1 ELSE path
  /\ UNCHANGED <<listening, chmodded, conn, accepted, overlapped>>

Bind(b) ==
  /\ Goes(b, "binding", "bound")
  /\ path = 0
  /\ bound < MaxBind
  /\ bound' = bound + 1
  /\ mine' = [mine EXCEPT ![b] = bound + 1]
  /\ path' = bound + 1
  /\ UNCHANGED <<listening, chmodded, conn, accepted, overlapped>>

\* mutant: the socket listens before it is bound
ListenUnbound(b) ==
  /\ Goes(b, "binding", "listening")
  /\ listening' = listening \cup {mine[b]}
  /\ UNCHANGED <<mine, path, bound, chmodded, conn, accepted, overlapped>>

Listen(b) ==
  /\ Goes(b, "bound", "listening")
  /\ listening' = listening \cup {mine[b]}
  /\ UNCHANGED <<mine, path, bound, chmodded, conn, accepted, overlapped>>

\* mutant: the leftover is removed only now, and with it the new socket
ChmodAfterRemoval(b) ==
  /\ Goes(b, "listening", "serving")
  /\ path # 0
  /\ chmodded' = chmodded \cup {path}
  /\ path' = 0
  /\ UNCHANGED <<mine, bound, listening, conn, accepted, overlapped>>

\* path.chmod, of whatever the path names by now.
Chmod(b) ==
  /\ Goes(b, "listening", "serving")
  /\ path # 0
  /\ chmodded' = chmodded \cup {path}
  /\ UNCHANGED <<mine, path, bound, listening, conn, accepted, overlapped>>

\* mutant: a chmod that fails is tried for ever
StartFailsBeforeChmod(b) ==
  /\ \/ Goes(b, "removing", "failed") /\ path = 0
     \/ Goes(b, "binding", "failed") /\ path # 0
  /\ UNCHANGED <<mine, path, bound, listening, chmodded, conn, accepted, overlapped>>

\* An OSError while starting: nothing to remove after all, address in use, or
\* no file to chmod.  It leaves serve before the try whose finally cleans up.
StartFails(b) ==
  /\ \/ Goes(b, "removing", "failed") /\ path = 0
     \/ Goes(b, "binding", "failed") /\ path # 0
     \/ Goes(b, "listening", "failed") /\ path = 0
  /\ UNCHANGED <<mine, path, bound, listening, chmodded, conn, accepted, overlapped>>

\* KeyboardInterrupt in serve_forever.
Interrupt(b) ==
  /\ Goes(b, "serving", "closing")
  /\ UNCHANGED <<mine, path, bound, listening, chmodded, conn, accepted, overlapped>>

\* server_close: connections not yet accepted are reset, and the daemon
\* threads of the accepted ones are not waited for.
CloseListener(b) ==
  /\ Goes(b, "closing", "leaving")
  /\ listening' = listening \ {mine[b]}
  /\ Hangs({k \in Client : conn[k] = mine[b] /\ ~ accepted[k]})
  /\ UNCHANGED <<mine, path, bound, chmodded, overlapped>>

\* unlink(missing_ok=True), of whatever the path names by now.
UnlinkPath(b) ==
  /\ Goes(b, "leaving", "ending")
  /\ path' = 0
  /\ UNCHANGED <<mine, bound, listening, chmodded, conn, accepted, overlapped>>

\* The process is gone, and with it its socket, its threads, its connections.
Gone(b) ==
  /\ phase' = [phase EXCEPT ![b] = "down"]
  /\ mine' = [mine EXCEPT ![b] = 0]
  /\ listening' = listening \ {mine[b]}
  /\ overlapped' = [overlapped EXCEPT ![b] = FALSE]
  /\ Hangs({k \in Client : conn[k] # 0 /\ conn[k] = mine[b]})
  /\ UNCHANGED <<path, bound, chmodded>>

Exit(b)  == phase[b] \in {"ending", "failed"} /\ Gone(b)
Crash(b) == Alive(b) /\ Gone(b)

-----------------------------------------------------------------------------
Connect(k) ==
  /\ conn[k] = 0
  /\ path \in listening
  /\ conn' = [conn EXCEPT ![k] = path]
  /\ UNCHANGED <<serverVars, accepted>>

\* serve_forever accepts the connection and starts a thread for it.
Accept(b, k) ==
  /\ phase[b] = "serving"
  /\ conn[k] # 0 /\ conn[k] = mine[b] /\ ~ accepted[k]
  /\ accepted' = [accepted EXCEPT ![k] = TRUE]
  /\ UNCHANGED <<serverVars, conn>>

\* The thread answers, also while the process shuts down.
Answer(b, k) ==
  /\ conn[k] # 0 /\ conn[k] = mine[b] /\ accepted[k]
  /\ Hangs({k})
  /\ UNCHANGED serverVars

\* What serve does next in process b, unasked.
Serve(b) ==
  \/ LookAtPath(b) \/ RemoveLeftover(b) \/ Bind(b) \/ Listen(b) \/ Chmod(b)
  \/ StartFails(b)
  \/ CloseListener(b) \/ UnlinkPath(b) \/ Exit(b)

Next ==
  \/ \E b \in Broker :
       \/ Start(b) \/ Serve(b) \/ Interrupt(b) \/ Crash(b)
       \/ \E k \in Client : Accept(b, k) \/ Answer(b, k)
  \/ \E k \in Client : Connect(k)

\* A process that runs goes on, and its loop accepts and its threads answer.
Fairness ==
  \A b \in Broker :
    /\ WF_vars(Serve(b))
    /\ \A k \in Client : WF_vars(Accept(b, k)) /\ WF_vars(Answer(b, k))

Spec == Init /\ [][Next]_vars /\ Fairness

-----------------------------------------------------------------------------
\* Path, sockets, processes and clients are well typed (broker.py:192-216).
TypeOK ==
  /\ phase \in [Broker -> Phase]
  /\ mine \in [Broker -> Socket]
  /\ path \in Socket /\ bound \in Socket
  /\ listening \subseteq Socket \ {0} /\ chmodded \subseteq Socket \ {0}
  /\ conn \in [Client -> Socket]
  /\ accepted \in [Client -> BOOLEAN]
  /\ overlapped \in [Broker -> BOOLEAN]

\* Whatever an earlier process left behind, killed between any two of its
\* steps, a broker started alone comes up: no leftover path makes the start
\* fail (broker.py:213-216).
StartsWhenAlone == \A b \in Broker : phase[b] = "failed" => overlapped[b]

\* A broker that serves and has run alone is the one clients reach at the
\* path, with the mode asked for (broker.py:211-216, 437-440).
ReachableWhenAlone ==
  \A b \in Broker : phase[b] = "serving" /\ ~ overlapped[b] =>
    path = mine[b] /\ path \in listening /\ path \in chmodded

\* However processes overlap, no client is led to a broker, and so to a
\* policy, that another one has taken the path from (broker.py:213-215).
NewestIsReached ==
  [][\A k \in Client : conn'[k] # conn[k] /\ conn'[k] # 0 => conn'[k] = bound]_vars

\* Every client that connected is answered or reset, whether its broker is
\* still starting, serves, shuts down with the thread at work, or has failed
\* to start after it began to listen (broker.py:195, 215-216, 433-438).
NoClientLeftWaiting == \A k \in Client : conn[k] # 0 ~> conn[k] = 0
=============================================================================
