------------------------------ MODULE BrokerHTTP ------------------------------
(***************************************************************************)
(* The broker as an HTTP server (broker.py: _TCPBrokerServer, _Handler,    *)
(* serve): it binds its port, names its policy in the startup line, takes  *)
(* each connection into a thread of its own, and reads one request after   *)
(* another from it.  Only POST /token reads a body, and only one of a      *)
(* length it takes: any other body stays on the connection, where the next *)
(* request line is due.  Clients send what they like, as slowly as they    *)
(* like, and leave when they like.  What a request is granted is Broker's  *)
(* subject, the unix socket's path that of BrokerSocket.                   *)
(***************************************************************************)
EXTENDS Naturals, Sequences

CONSTANTS
  Conn,          \* connections
  Requests,      \* Requests[c] : the requests a client may send on c
  MaxRequests,   \* MaxRequests[c] : bound on the requests sent on c
  MaxStart       \* bound on the starts of the broker

\* GET of any path, POST /token, POST elsewhere, and POST /token with a
\* Content-Length that is refused.
Route == {"get", "token", "elsewhere", "misfit"}

\* With the body it announces: none, one that is no request, or one that reads
\* as a request (or as the beginning of one) where a request line is due.
Request == [route : Route, body : {"none", "plain", "request"}]

HasBody(q) == q.body # "none"

\* Nobody reads its body, and it reads as a request.
misleading(q) == q.route # "token" /\ q.body = "request"

ASSUME HTTPAssumption ==
  /\ Requests \in [Conn -> SUBSET Request]
  /\ \A c \in Conn : \A q \in Requests[c] : q.route = "token" => HasBody(q)
  /\ MaxRequests \in [Conn -> Nat] /\ MaxStart \in Nat

VARIABLES
  phase,      \* where serve stands
  starts,     \* how often it was called, each time with a policy of its own
  named,      \* the start whose policy the last startup line names
  taken,      \* another process listens on the port
  lingering,  \* connections of an earlier process are in TIME_WAIT
  stage,      \* stage[c] : where connection c and its thread stand
  gone,       \* gone[c] : the client has closed its end
  asked,      \* asked[c] : the requests sent on c
  whole,      \* whole[c] : how many of them were sent with all their body
  unread,     \* unread[c] : what was sent and not yet read
  current,    \* current[c] : the request c's thread handles (0: one nobody sent)
  answers     \* answers[c] : the requests answered, in the order of their answers

server == <<phase, starts, named, taken, lingering>>
traffic == <<gone, asked, whole, unread, current, answers>>
vars == <<server, stage, traffic>>

Phase == {"down", "failed", "starting", "bound", "listening", "serving",
          "closing", "leaving", "ending"}
Stage == {"none", "backlog", "idle", "reading", "deciding", "hung",
          "answering"}

Part(i, p) == [of |-> i, part |-> p]

Open(c) == stage[c] # "none"
Threads == {c \in Conn : stage[c] \notin {"none", "backlog"}}

Moves(c, from, to) == stage[c] = from /\ stage' = [stage EXCEPT ![c] = to]

Init ==
  /\ phase = "down" /\ starts = 0
  /\ named = 0
  /\ taken = FALSE /\ lingering = FALSE
  /\ stage = [c \in Conn |-> "none"]
  /\ gone = [c \in Conn |-> FALSE]
  /\ asked = [c \in Conn |-> <<>>]
  /\ whole = [c \in Conn |-> 0]
  /\ unread = [c \in Conn |-> <<>>]
  /\ current = [c \in Conn |-> 0]
  /\ answers = [c \in Conn |-> <<>>]

-----------------------------------------------------------------------------
\* The server.

Goes(from, to) == phase = from /\ phase' = to

\* serve is called and its policy loads.
Start ==
  /\ phase \in {"down", "failed"} /\ starts < MaxStart
  /\ phase' = "starting" /\ starts' = starts + 1
  /\ UNCHANGED <<named, taken, lingering, stage, traffic>>

\* mutant: no allow_reuse_address
BindUnlingered ==
  /\ Goes("starting", "bound")
  /\ ~ taken /\ ~ lingering
  /\ UNCHANGED <<starts, named, taken, lingering, stage, traffic>>

\* With allow_reuse_address only a listener keeps the port from being bound.
\* (What lingers is of no interest to anyone after that.)
Bind ==
  /\ Goes("starting", "bound")
  /\ ~ taken
  /\ lingering' = FALSE
  /\ UNCHANGED <<starts, named, taken, stage, traffic>>

Listen ==
  /\ Goes("bound", "listening")
  /\ ~ taken
  /\ UNCHANGED <<starts, named, taken, lingering, stage, traffic>>

StartFails ==
  /\ phase \in {"starting", "bound"} /\ taken
  /\ phase' = "failed"
  /\ UNCHANGED <<starts, named, taken, lingering, stage, traffic>>

\* The startup line, and on to serve_forever.
Announce ==
  /\ Goes("listening", "serving")
  /\ named' = starts
  /\ UNCHANGED <<starts, taken, lingering, stage, traffic>>

\* mutant: the server takes connections as soon as it listens
AcceptListening(c) ==
  /\ phase \in {"listening", "serving"}
  /\ Moves(c, "backlog", "idle")
  /\ UNCHANGED <<server, traffic>>

\* mutant: no ThreadingMixIn, one connection is handled after the other
AcceptWhenFree(c) ==
  /\ phase = "serving" /\ Threads = {}
  /\ Moves(c, "backlog", "idle")
  /\ UNCHANGED <<server, traffic>>

\* process_request of ThreadingMixIn: a thread for the connection.
Accept(c) ==
  /\ phase = "serving"
  /\ Moves(c, "backlog", "idle")
  /\ UNCHANGED <<server, traffic>>

Interrupt ==
  /\ Goes("serving", "closing")
  /\ UNCHANGED <<starts, named, taken, lingering, stage, traffic>>

\* The connections in S are closed, and what was sent on them is lost.
Close(S) ==
  /\ stage' = [c \in Conn |-> IF c \in S THEN "none" ELSE stage[c]]
  /\ gone' = [c \in Conn |-> c \notin S /\ gone[c]]
  /\ asked' = [c \in Conn |-> IF c \in S THEN <<>> ELSE asked[c]]
  /\ whole' = [c \in Conn |-> IF c \in S THEN 0 ELSE whole[c]]
  /\ unread' = [c \in Conn |-> IF c \in S THEN <<>> ELSE unread[c]]
  /\ current' = [c \in Conn |-> IF c \in S THEN 0 ELSE current[c]]
  /\ answers' = [c \in Conn |-> IF c \in S THEN <<>> ELSE answers[c]]

\* mutant: the listener is not closed
CloseNothing ==
  /\ Goes("closing", "leaving")
  /\ UNCHANGED <<starts, named, taken, lingering, stage, traffic>>

\* mutant: threads that are no daemons are joined
CloseJoining ==
  /\ Goes("closing", "leaving")
  /\ Threads = {}
  /\ Close({c \in Conn : stage[c] = "backlog"})
  /\ UNCHANGED <<starts, named, taken, lingering>>

\* server_close: nobody waits for daemon threads, which go on.
CloseServer ==
  /\ Goes("closing", "leaving")
  /\ Close({c \in Conn : stage[c] = "backlog"})
  /\ UNCHANGED <<starts, named, taken, lingering>>

\* The process ends, with its threads and connections.
Gone ==
  /\ phase' = "down"
  /\ lingering' = (lingering \/ Threads # {})
  /\ Close({c \in Conn : Open(c)})
  /\ UNCHANGED <<starts, named, taken>>

\* The shutdown line.  Threads may still decide and write lines of their own,
Leave ==
  /\ Goes("leaving", "ending")
  /\ UNCHANGED <<starts, named, taken, lingering, stage, traffic>>

\* until serve has returned and the interpreter exits.
Exit  == phase = "ending" /\ Gone
Crash == phase \notin {"down", "failed"} /\ Gone

\* Another process listens on the port, or ends; the kernel forgets about
\* the connections of an earlier one.
Elsewhere ==
  /\ \/ /\ phase \in {"down", "failed", "starting", "bound"}
        /\ taken' = ~ taken
        /\ UNCHANGED lingering
     \/ /\ lingering' = FALSE
        /\ UNCHANGED taken
  /\ UNCHANGED <<phase, starts, named, stage, traffic>>

-----------------------------------------------------------------------------
\* The thread of a connection.

\* A request line and its headers are read.
ReadHead(c) ==
  /\ unread[c] # <<>> /\ Head(unread[c]).part = "head"
  /\ LET i == Head(unread[c]).of IN
     /\ Moves(c, "idle", CASE asked[c][i].route = "token"  -> "reading"
                           [] asked[c][i].route = "misfit" -> "deciding"
                           [] OTHER                        -> "answering")
     /\ current' = [current EXCEPT ![c] = i]
  /\ unread' = [unread EXCEPT ![c] = Tail(@)]
  /\ UNCHANGED <<server, gone, asked, whole, answers>>

\* A body, or the rest of something, where a request line is due.
Stray(c, bodies) ==
  /\ stage[c] = "idle" /\ unread[c] # <<>>
  /\ LET x == Head(unread[c]) IN
     x.part = "rest" \/ (x.part = "body" /\ asked[c][x.of].body \in bodies)

\* mutant: the error (0) leaves the connection open
MisreadOn(c) ==
  /\ Stray(c, {"plain"})
  /\ unread' = [unread EXCEPT ![c] = Tail(@)]
  /\ answers' = [answers EXCEPT ![c] = Append(@, 0)]
  /\ UNCHANGED <<server, stage, gone, asked, whole, current>>

\* It is no request, alone or run together with the line that follows: an error
\* of http.server, which closes.
Misread(c) ==
  /\ Stray(c, {"plain"})
  /\ Close({c})
  /\ UNCHANGED server

\* What is left of q when its first part is read as a request nobody sent: of
\* that part nothing, or a rest.
Leaves(q) ==
  {Tail(q)} \cup (IF Head(q).part = "rest" THEN {}
                  ELSE {<<Part(Head(q).of, "rest")>> \o Tail(q)})

\* It is read as a request that nobody sent: one that is answered at once, or
\* decided, or that goes on into what follows.
ReadStray(c) ==
  /\ Stray(c, {"request"})
  /\ \E s \in {"reading", "deciding", "answering"} : Moves(c, "idle", s)
  /\ current' = [current EXCEPT ![c] = 0]
  /\ \E q \in Leaves(unread[c]) : unread' = [unread EXCEPT ![c] = q]
  /\ UNCHANGED <<server, gone, asked, whole, answers>>

\* rfile.read(length): all of the body, or less from a client that is gone.
ReadBody(c) ==
  /\ current[c] # 0
  /\ Moves(c, "reading", "deciding")
  /\ \/ /\ unread[c] # <<>>
        /\ unread' = [unread EXCEPT ![c] = Tail(@)]
     \/ /\ unread[c] = <<>> /\ gone[c]
        /\ UNCHANGED unread
  /\ UNCHANGED <<server, gone, asked, whole, current, answers>>

\* The headers or the body of a request that nobody sent take in what follows,
\* and then more of it, or enough.
ReadOn(c) ==
  /\ current[c] = 0
  /\ \E s \in {"reading", "deciding"} : Moves(c, "reading", s)
  /\ \/ /\ unread[c] # <<>>
        /\ \E q \in Leaves(unread[c]) : unread' = [unread EXCEPT ![c] = q]
     \/ /\ unread[c] = <<>> /\ gone[c] /\ stage'[c] = "deciding"
        /\ UNCHANGED unread
  /\ UNCHANGED <<server, gone, asked, whole, current, answers>>

\* The decision is taken and its line written.
Decide(c) ==
  /\ Moves(c, "deciding", "answering")
  /\ UNCHANGED <<server, traffic>>

\* private_key_cmd never ends.
Hang(c) ==
  /\ Moves(c, "deciding", "hung")
  /\ current[c] # 0 => asked[c][current[c]].route = "token"
  /\ UNCHANGED <<server, traffic>>

\* _respond, and back to the next request line.
Answer(c) ==
  /\ Moves(c, "answering", "idle")
  /\ answers' = [answers EXCEPT ![c] = Append(@, current[c])]
  /\ UNCHANGED <<server, gone, asked, whole, unread, current>>

\* The connection ends with its client, or on an exception that is not caught.
Drop(c) ==
  /\ \/ stage[c] = "idle" /\ unread[c] = <<>> /\ gone[c]
     \/ stage[c] = "deciding"
     \/ stage[c] = "answering" /\ gone[c]
  /\ Close({c})
  /\ UNCHANGED server

Handle(c) ==
  \/ ReadHead(c) \/ Misread(c) \/ ReadStray(c) \/ ReadBody(c) \/ ReadOn(c)
  \/ Decide(c) \/ Hang(c) \/ Answer(c) \/ Drop(c)

-----------------------------------------------------------------------------
\* Clients.

Connect(c) ==
  /\ phase \in {"listening", "serving", "closing"}
  /\ Moves(c, "none", "backlog")
  /\ UNCHANGED <<server, traffic>>

Sending(c) == Open(c) /\ ~ gone[c]

\* The head of a request, once what the one before announced is sent.
Send(c, q) ==
  /\ Sending(c)
  /\ whole[c] = Len(asked[c]) /\ Len(asked[c]) < MaxRequests[c]
  /\ asked' = [asked EXCEPT ![c] = Append(@, q)]
  /\ unread' = [unread EXCEPT ![c] = Append(@, Part(Len(asked[c]) + 1, "head"))]
  /\ whole' = IF HasBody(q) THEN whole ELSE [whole EXCEPT ![c] = @ + 1]
  /\ UNCHANGED <<server, stage, gone, current, answers>>

SendBody(c) ==
  /\ Sending(c)
  /\ whole[c] < Len(asked[c])
  /\ whole' = [whole EXCEPT ![c] = @ + 1]
  /\ unread' = [unread EXCEPT ![c] = Append(@, Part(Len(asked[c]), "body"))]
  /\ UNCHANGED <<server, stage, gone, asked, current, answers>>

HangUp(c) ==
  /\ Sending(c)
  /\ gone' = [gone EXCEPT ![c] = TRUE]
  /\ UNCHANGED <<server, stage, asked, whole, unread, current, answers>>

-----------------------------------------------------------------------------
Serve == Bind \/ Listen \/ StartFails \/ Announce \/ CloseServer \/ Leave \/ Exit

Next ==
  \/ Start \/ Serve \/ Interrupt \/ Crash \/ Elsewhere
  \/ \E c \in Conn :
       \/ Accept(c) \/ Handle(c)
       \/ Connect(c) \/ SendBody(c) \/ HangUp(c)
       \/ \E q \in Requests[c] : Send(c, q)

\* The process and each of its threads go on; nothing is asked of clients, of
\* other processes, or of a key command that hangs.
Fairness ==
  /\ WF_vars(Serve)
  /\ \A c \in Conn : WF_vars(Accept(c)) /\ WF_vars(Handle(c))

Spec == Init /\ [][Next]_vars /\ Fairness

-----------------------------------------------------------------------------
\* Server, threads and what is on the wire are well typed; a connection waits
\* only for a listener, and threads run only in a process (broker.py:219-321).
TypeOK ==
  /\ phase \in Phase /\ starts \in 0 .. MaxStart
  /\ named \in 0 .. MaxStart
  /\ taken \in BOOLEAN /\ lingering \in BOOLEAN
  /\ stage \in [Conn -> Stage] /\ gone \in [Conn -> BOOLEAN]
  /\ asked \in [Conn -> Seq(Request)]
  /\ whole \in [Conn -> Nat] /\ current \in [Conn -> Nat]
  /\ unread \in [Conn -> Seq([of : Nat, part : {"head", "body", "rest"}])]
  /\ answers \in [Conn -> Seq(Nat)]
  /\ \A c \in Conn : stage[c] = "backlog" => phase \in {"listening", "serving", "closing"}
  /\ Threads # {} => phase \in {"serving", "closing", "leaving", "ending"}

\* Before its n-th request, c's client sent one whose body is left unread and is
\* itself a request.
misled(c, n) == \E m \in DOMAIN asked[c] : m < n /\ misleading(asked[c][m])

\* On a connection kept open the n-th answer is that of the n-th request, and a
\* request is judged on the body it was sent with: what nobody read never
\* shifts a token, or a denial, to the request after it, unless this client
\* itself sent a body before that nobody reads and that is itself a request
\* (broker.py:287-314).
AnswersInPlace ==
  \A c \in Conn :
    /\ \A n \in DOMAIN answers[c] : answers[c][n] = n \/ misled(c, n)
    /\ stage[c] = "reading" /\ current[c] # 0 /\ unread[c] # <<>> =>
         Head(unread[c]) = Part(current[c], "body")

\* Each decision on the audit stream was taken under the policy that the last
\* startup line before it names: no client is served before the line, though
\* it may connect, and no thread outlives its process (broker.py:423-433).
DecidedUnderPolicyNamed ==
  \A c \in Threads : stage[c] # "idle" => named = starts

\* A broker started again comes up at once, whatever the one before left of its
\* connections, unless another process listens on its port (broker.py:222-237).
ComesUpUnlessTaken ==
  phase = "starting" ~> phase \in {"serving", "down"} \/ taken

\* A request sent whole is answered or its connection closed, whatever other
\* clients leave unsent and whoever's key command hangs; only its own may keep
\* it, or a body before it on its connection that is itself a request and takes
\* it in (broker.py:219-222, 303-311; config.py:50-52).
NobodyElseHoldsUp ==
  \A c \in Conn : \A n \in 1 .. MaxRequests[c] :
    whole[c] >= n /\ Len(answers[c]) < n /\ ~ misled(c, n) ~>
      Len(answers[c]) >= n \/ stage[c] \in {"hung", "none"}

\* An interrupted broker ends, whatever its threads wait for
\* (broker.py:222, 433-441).
ShutdownEnds == phase = "closing" ~> phase = "down"
=============================================================================
