------------------------- MODULE BrokerSocketProofs -------------------------
(***************************************************************************)
(* Proofs about BrokerSocket, for any number of processes and clients and  *)
(* any number of restarts: a broker that runs alone always comes up and is *)
(* the one at the path, and no client reaches one that was superseded.     *)
(***************************************************************************)
EXTENDS BrokerSocket, TLAPS

\* The path names the socket bound last, or none.
PathInv == path # 0 => path = bound

\* From its bind on a process has a socket.
MineInv ==
  \A b \in Broker : phase[b] \in {"bound", "listening", "serving", "closing"}
                    => mine[b] # 0

\* While b runs and has run alone, the path is as its own steps left it.
AloneInv(b) ==
  Alive(b) /\ ~ overlapped[b] =>
    /\ \A c \in Broker \ {b} : ~ Alive(c)
    /\ phase[b] = "removing" => path # 0
    /\ phase[b] = "binding" => path = 0
    /\ phase[b] \in {"bound", "listening", "serving"} => path = mine[b] /\ path # 0
    /\ phase[b] \in {"listening", "serving"} => path \in listening
    /\ phase[b] = "serving" => path \in chmodded
    /\ phase[b] # "failed"

SocketInv == TypeOK /\ PathInv /\ MineInv /\ \A b \in Broker : AloneInv(b)

-----------------------------------------------------------------------------
LEMMA SocketInitInv == Init => SocketInv
BY SocketAssumption
   DEF Init, SocketInv, TypeOK, PathInv, MineInv, AloneInv, Alive, Phase, Socket

LEMMA HangsType ==
  ASSUME SocketInv, NEW K, Hangs(K)
  PROVE  conn' \in [Client -> Socket] /\ accepted' \in [Client -> BOOLEAN]
BY SocketAssumption DEF SocketInv, TypeOK, Hangs, Socket

LEMMA StartInv ==
  ASSUME SocketInv, NEW b \in Broker, Start(b) PROVE SocketInv'
<1>1. TypeOK' /\ PathInv' /\ MineInv'
  BY DEF SocketInv, TypeOK, PathInv, MineInv, Start, Goes, Phase
<1>2. ASSUME NEW c \in Broker PROVE AloneInv(c)'
  BY DEF SocketInv, TypeOK, AloneInv, Start, Goes, Alive
<1> QED
  BY <1>1, <1>2 DEF SocketInv

LEMMA ServeType ==
  ASSUME SocketInv, NEW b \in Broker,
         \/ LookAtPath(b) \/ RemoveLeftover(b) \/ Bind(b) \/ Listen(b) \/ Chmod(b)
         \/ StartFails(b) \/ Interrupt(b) \/ UnlinkPath(b)
  PROVE  TypeOK' /\ PathInv' /\ MineInv'
<1> USE DEF SocketInv, TypeOK, PathInv, MineInv, Goes, Phase, Socket
<1>1. CASE LookAtPath(b)
  <2>1. \E p \in {"binding", "removing"} : phase' = [phase EXCEPT ![b] = p]
    BY <1>1 DEF LookAtPath
  <2> QED
    BY <1>1, <2>1 DEF LookAtPath
<1>2. CASE RemoveLeftover(b)
  BY <1>2, SocketAssumption DEF RemoveLeftover
<1>3. CASE Bind(b)
  BY <1>3, SocketAssumption DEF Bind
<1>4. CASE Listen(b)
  BY <1>4 DEF Listen
<1>5. CASE Chmod(b)
  BY <1>5 DEF Chmod
<1>6. CASE StartFails(b)
  BY <1>6 DEF StartFails
<1>7. CASE Interrupt(b)
  BY <1>7 DEF Interrupt
<1>8. CASE UnlinkPath(b)
  BY <1>8, SocketAssumption DEF UnlinkPath
<1> QED
  BY <1>1, <1>2, <1>3, <1>4, <1>5, <1>6, <1>7, <1>8

LEMMA ServeAlone ==
  ASSUME SocketInv, NEW b \in Broker,
         \/ LookAtPath(b) \/ RemoveLeftover(b) \/ Bind(b) \/ Listen(b) \/ Chmod(b)
         \/ StartFails(b) \/ Interrupt(b) \/ UnlinkPath(b),
         NEW c \in Broker
  PROVE  AloneInv(c)'
<1> USE DEF SocketInv, TypeOK, AloneInv, Goes, Alive
<1>1. CASE LookAtPath(b)
  BY <1>1 DEF LookAtPath
<1>2. CASE RemoveLeftover(b)
  BY <1>2 DEF RemoveLeftover
<1>3. CASE Bind(b)
  BY <1>3, SocketAssumption DEF Bind, Socket
<1>4. CASE Listen(b)
  BY <1>4 DEF Listen
<1>5. CASE Chmod(b)
  BY <1>5 DEF Chmod
<1>6. CASE StartFails(b)
  BY <1>6 DEF StartFails
<1>7. CASE Interrupt(b)
  BY <1>7 DEF Interrupt
<1>8. CASE UnlinkPath(b)
  BY <1>8 DEF UnlinkPath
<1> QED
  BY <1>1, <1>2, <1>3, <1>4, <1>5, <1>6, <1>7, <1>8

LEMMA CloseInv ==
  ASSUME SocketInv, NEW b \in Broker, CloseListener(b) PROVE SocketInv'
<1>1. conn' \in [Client -> Socket] /\ accepted' \in [Client -> BOOLEAN]
  BY HangsType DEF CloseListener
<1>2. TypeOK' /\ PathInv' /\ MineInv'
  BY <1>1 DEF SocketInv, TypeOK, PathInv, MineInv, CloseListener, Goes, Phase, Socket
<1>3. ASSUME NEW c \in Broker PROVE AloneInv(c)'
  BY DEF SocketInv, TypeOK, AloneInv, CloseListener, Goes, Alive
<1> QED
  BY <1>2, <1>3 DEF SocketInv

LEMMA GoneInv ==
  ASSUME SocketInv, NEW b \in Broker, Alive(b), Gone(b) PROVE SocketInv'
<1>1. conn' \in [Client -> Socket] /\ accepted' \in [Client -> BOOLEAN]
  BY HangsType DEF Gone
<1>2. TypeOK' /\ PathInv' /\ MineInv'
  <2>1. 0 \in Socket
    BY SocketAssumption DEF Socket
  <2>2. TypeOK'
    BY <1>1, <2>1 DEF SocketInv, TypeOK, Gone, Phase
  <2> QED
    BY <2>2 DEF SocketInv, TypeOK, PathInv, MineInv, Gone
<1>3. ASSUME NEW c \in Broker PROVE AloneInv(c)'
  BY DEF SocketInv, TypeOK, AloneInv, Gone, Alive
<1> QED
  BY <1>2, <1>3 DEF SocketInv

LEMMA ClientInv ==
  ASSUME SocketInv, NEW k \in Client,
         Connect(k) \/ \E b \in Broker : Accept(b, k) \/ Answer(b, k)
  PROVE  SocketInv'
<1>1. conn' \in [Client -> Socket] /\ accepted' \in [Client -> BOOLEAN]
  BY HangsType DEF SocketInv, TypeOK, Connect, Accept, Answer
<1> QED
  BY <1>1 DEF SocketInv, TypeOK, PathInv, MineInv, AloneInv, Alive, serverVars,
              Connect, Accept, Answer

LEMMA SocketNextInv == SocketInv /\ [Next]_vars => SocketInv'
<1> SUFFICES ASSUME SocketInv, [Next]_vars PROVE SocketInv'
  OBVIOUS
<1>1. ASSUME NEW b \in Broker, Serve(b) \/ Crash(b) \/ Start(b) \/ Interrupt(b)
      PROVE  SocketInv'
  <2>1. CASE Exit(b) \/ Crash(b)
    BY <2>1, GoneInv DEF Exit, Crash, Alive
  <2> QED
    BY <1>1, <2>1, StartInv, ServeType, ServeAlone, CloseInv
       DEF Serve, SocketInv
<1>2. CASE UNCHANGED vars
  BY <1>2 DEF vars, serverVars, SocketInv, TypeOK, PathInv, MineInv, AloneInv, Alive
<1> QED
  BY <1>1, <1>2, ClientInv DEF Next

THEOREM SocketInvariant == Spec => []SocketInv
BY SocketInitInv, SocketNextInv, PTL DEF Spec

\* The processes, sockets and connections are always well typed
\* (broker.py:192-216, 384-441).
THEOREM SocketTypeCorrect == Spec => []TypeOK
<1>1. SocketInv => TypeOK
  BY DEF SocketInv
<1> QED
  BY <1>1, SocketInvariant, PTL

\* A broker started while no other runs comes up, whatever crashes left at the
\* path (broker.py:213-216).
THEOREM ComesUpAlone == Spec => []StartsWhenAlone
<1>1. SocketInv => StartsWhenAlone
  BY DEF SocketInv, AloneInv, Alive, StartsWhenAlone
<1> QED
  BY <1>1, SocketInvariant, PTL

\* A broker that serves and has run alone is the one at the path, listening
\* and with its mode set (broker.py:211-216, 437-440).
THEOREM IsReachedAlone == Spec => []ReachableWhenAlone
<1>1. SocketInv => ReachableWhenAlone
  BY DEF SocketInv, AloneInv, Alive, ReachableWhenAlone
<1> QED
  BY <1>1, SocketInvariant, PTL

\* However processes overlap, a client connects to the broker that bound last
\* (broker.py:213-215).
THEOREM ConnectsToNewest == Spec => NewestIsReached
<1> DEFINE P(k) == conn'[k] # conn[k] /\ conn'[k] # 0 => conn'[k] = bound
<1>1. SocketInv /\ [Next]_vars => [\A k \in Client : P(k)]_vars
  <2> SUFFICES ASSUME SocketInv, Next, NEW k \in Client PROVE P(k)
    BY DEF vars
  <2>1. ASSUME NEW K, Hangs(K) PROVE P(k)
    BY <2>1 DEF Hangs
  <2>2. ASSUME NEW j \in Client, Connect(j) PROVE P(k)
    BY <2>2 DEF Connect, SocketInv, TypeOK, PathInv, Socket
  <2>3. CASE UNCHANGED conn
    BY <2>3
  <2>4. \/ UNCHANGED conn
        \/ \E K : Hangs(K)
        \/ \E j \in Client : Connect(j)
    <3>1. ASSUME NEW b \in Broker, Start(b) \/ Serve(b) \/ Interrupt(b) \/ Crash(b)
          PROVE  UNCHANGED conn \/ \E K : Hangs(K)
      BY <3>1 DEF Start, Serve, Interrupt, Crash, LookAtPath, RemoveLeftover, Bind,
                  Listen, Chmod, StartFails, CloseListener, UnlinkPath, Exit, Gone
    <3>2. ASSUME NEW b \in Broker, NEW j \in Client, Accept(b, j) \/ Answer(b, j)
          PROVE  UNCHANGED conn \/ \E K : Hangs(K)
      BY <3>2 DEF Accept, Answer
    <3> QED
      BY <3>1, <3>2 DEF Next
  <2> QED
    BY <2>1, <2>2, <2>3, <2>4
<1> QED
  BY <1>1, SocketInvariant, PTL DEF Spec, NewestIsReached
=============================================================================
