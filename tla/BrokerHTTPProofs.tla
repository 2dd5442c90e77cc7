--------------------------- MODULE BrokerHTTPProofs ---------------------------
(***************************************************************************)
(* Proofs about BrokerHTTP, for any number of connections, of requests on  *)
(* each and of starts: answers stay with their requests, and decisions     *)
(* with the policy announced.                                              *)
(***************************************************************************)
EXTENDS BrokerHTTP, SequenceTheorems, TLAPS

\* y is what a client that sent x, or what is left of it, sends next.
Follows(x, y, reqs) ==
  \/ x.part # "body" /\ HasBody(reqs[x.of]) /\ y = Part(x.of, "body")
  \/ (x.part # "head" \/ ~ HasBody(reqs[x.of])) /\ y = Part(x.of + 1, "head")

\* q is a piece of what a client sends that makes the requests one by one.
InOrder(q, reqs) ==
  /\ \A k \in 1 .. Len(q) :
       /\ q[k].of \in 1 .. Len(reqs)
       /\ q[k].part = "body" => HasBody(reqs[q[k].of])
  /\ \A k \in 1 .. Len(q) - 1 : Follows(q[k], q[k + 1], reqs)

\* All requests but the last one are sent with their bodies.
SentInv(c) ==
  /\ whole[c] <= Len(asked[c])
  /\ whole[c] < Len(asked[c]) =>
       whole[c] + 1 = Len(asked[c]) /\ HasBody(asked[c][Len(asked[c])])
  /\ \A k \in 1 .. Len(asked[c]) : asked[c][k].route = "token" => HasBody(asked[c][k])

\* x is what was sent last, or what is left of it.
Last(x, n, w, reqs) ==
  /\ x.of = n
  /\ x.part = "head" => w < n \/ ~ HasBody(reqs[n])
  /\ x.part = "body" => w = n

\* What is unread is in order and ends with what was sent last.
UnreadInv(c) ==
  /\ InOrder(unread[c], asked[c])
  /\ unread[c] # <<>> => Last(unread[c][Len(unread[c])], Len(asked[c]), whole[c], asked[c])

\* What a thread finds when it reads a body is the body of its request.
ReadingInv(c) ==
  stage[c] = "reading" /\ current[c] # 0 =>
    /\ unread[c] = <<>> => current[c] = Len(asked[c]) /\ whole[c] < Len(asked[c])
    /\ unread[c] # <<>> => unread[c][1] = Part(current[c], "body")

\* No request was read on c that nobody sent: the thread is at the request
\* after those it answered.  What it finds next is the next request, or the
\* body of this one, which is then none that it was to read.
Straight(c) ==
  LET n == Len(asked[c]) IN
  /\ \A k \in DOMAIN answers[c] : answers[c][k] = k
  /\ Len(answers[c]) = IF stage[c] \in {"none", "backlog", "idle"}
                       THEN current[c] ELSE current[c] - 1
  /\ current[c] <= n
  /\ unread[c] = <<>> =>
       /\ current[c] = n
       /\ n > 0 /\ stage[c] # "reading" /\ asked[c][n].route = "token" =>
            whole[c] = n \/ gone[c]
  /\ unread[c] # <<>> =>
       \/ unread[c][1] = Part(current[c] + 1, "head")
       \/ /\ unread[c][1] = Part(current[c], "body")
          /\ stage[c] # "reading" => asked[c][current[c]].route # "token"

\* One was, but not before a misleading one was answered, in its place.
Strayed(c) ==
  \E m \in 1 .. Len(answers[c]) :
    /\ m <= Len(asked[c]) /\ misleading(asked[c][m])
    /\ \A k \in 1 .. m : answers[c][k] = k

ConnInv(c) ==
  SentInv(c) /\ UnreadInv(c) /\ ReadingInv(c) /\ (Straight(c) \/ Strayed(c))

\* The startup line names the start that serves.
NamedInv == phase \in {"serving", "closing", "leaving", "ending"} => named = starts

HTTPInv == TypeOK /\ NamedInv /\ \A c \in Conn : ConnInv(c)

-----------------------------------------------------------------------------
\* Facts about what is on the wire.
PartSet == [of : Nat, part : {"head", "body", "rest"}]

LEMMA LenPositive ==
  ASSUME NEW q \in Seq(PartSet)
  PROVE  Len(q) \in Nat /\ (q = <<>> <=> Len(q) = 0) /\ (q # <<>> => 1 \in 1 .. Len(q))
OBVIOUS

LEMMA InOrderTail ==
  ASSUME NEW q \in Seq(PartSet), NEW reqs \in Seq(Request), q # <<>>, InOrder(q, reqs)
  PROVE  /\ InOrder(Tail(q), reqs)
         /\ Tail(q) \in Seq(PartSet) /\ Len(Tail(q)) = Len(q) - 1
         /\ Tail(q) # <<>> => /\ Tail(q)[Len(q) - 1] = q[Len(q)]
                              /\ Tail(q)[1] = q[2]
                              /\ Len(q) > 1
                              /\ Follows(q[1], q[2], reqs)
<1>1. /\ Tail(q) \in Seq(PartSet) /\ Len(Tail(q)) = Len(q) - 1 /\ Len(q) \in Nat
      /\ \A k \in 1 .. Len(q) - 1 : Tail(q)[k] = q[k + 1]
  OBVIOUS
<1>2. InOrder(Tail(q), reqs)
  BY <1>1 DEF InOrder
<1>3. Tail(q) # <<>> => Len(q) > 1
  BY <1>1
<1> QED
  BY <1>1, <1>2, <1>3 DEF InOrder

LEMMA InOrderAppend ==
  ASSUME NEW q \in Seq(PartSet), NEW reqs \in Seq(Request), NEW x \in PartSet,
         InOrder(q, reqs), x.of \in 1 .. Len(reqs),
         x.part = "body" => HasBody(reqs[x.of]),
         q # <<>> => Follows(q[Len(q)], x, reqs)
  PROVE  /\ InOrder(Append(q, x), reqs)
         /\ Append(q, x) \in Seq(PartSet) /\ Append(q, x) # <<>>
         /\ Len(Append(q, x)) = Len(q) + 1
         /\ Append(q, x)[Len(q) + 1] = x
         /\ Append(q, x)[1] = IF q = <<>> THEN x ELSE q[1]
<1> DEFINE a == Append(q, x)
<1>1. /\ a \in Seq(PartSet) /\ Len(a) = Len(q) + 1 /\ Len(q) \in Nat
      /\ \A k \in 1 .. Len(q) : a[k] = q[k]
      /\ a[Len(q) + 1] = x
      /\ q = <<>> <=> Len(q) = 0
  OBVIOUS
<1> HIDE DEF a
<1>2. ASSUME NEW k \in 1 .. Len(a) - 1 PROVE Follows(a[k], a[k + 1], reqs)
  <2>1. CASE k = Len(q)
    BY <1>1, <2>1
  <2>2. CASE k # Len(q)
    <3>1. k \in 1 .. Len(q) - 1 /\ a[k] = q[k] /\ a[k + 1] = q[k + 1]
      BY <1>1, <2>2
    <3> QED
      BY <3>1 DEF InOrder
  <2> QED
    BY <2>1, <2>2
<1>3. InOrder(a, reqs)
  <2>1. ASSUME NEW k \in 1 .. Len(a)
        PROVE  a[k].of \in 1 .. Len(reqs) /\ (a[k].part = "body" => HasBody(reqs[a[k].of]))
    <3>1. CASE k \in 1 .. Len(q)
      BY <1>1, <3>1 DEF InOrder
    <3>2. CASE k = Len(q) + 1
      BY <1>1, <3>2
    <3> QED
      BY <1>1, <3>1, <3>2
  <2> QED
    BY <1>2, <2>1 DEF InOrder
<1>4. a # <<>>
  <2>1. Len(a) # 0 /\ Len(<<>>) = 0
    BY <1>1
  <2> QED
    BY <2>1
<1>5. a[1] = IF q = <<>> THEN x ELSE q[1]
  <2>1. CASE q = <<>>
    <3>1. Len(q) + 1 = 1
      BY <1>1, <2>1
    <3>2. a[1] = x
      BY <1>1, <3>1
    <3> QED
      BY <2>1, <3>2
  <2>2. CASE q # <<>>
    BY <1>1, <2>2
  <2> QED
    BY <2>1, <2>2
<1> QED
  BY <1>1, <1>3, <1>4, <1>5 DEF a

\* What is left of a piece when its first part is read is in order, too.
LEMMA InOrderLeaves ==
  ASSUME NEW q \in Seq(PartSet), NEW reqs \in Seq(Request), q # <<>>, InOrder(q, reqs),
         NEW t \in Leaves(q)
  PROVE  /\ InOrder(t, reqs) /\ t \in Seq(PartSet)
         /\ t # <<>> => t[Len(t)] = q[Len(q)] \/ t[Len(t)] = Part(q[Len(q)].of, "rest")
<1>1. CASE t = Tail(q)
  BY <1>1, InOrderTail
<1>2. CASE t = <<Part(Head(q).of, "rest")>> \o Tail(q)
  <2> DEFINE x == Part(q[1].of, "rest")
             n == Len(q)
  <2>1. /\ Len(t) = n /\ n \in Nat \ {0} /\ 1 \in 1 .. n
        /\ t[1] = x /\ \A k \in 2 .. n : t[k] = q[k]
        /\ t \in Seq(PartSet)
    <3>1. q[1] \in PartSet /\ n \in Nat \ {0} /\ 1 \in 1 .. n
      BY LenPositive
    <3>2. x \in PartSet
      BY <3>1 DEF PartSet, Part
    <3>3. Head(q) = q[1] /\ Tail(q) \in Seq(PartSet) /\ Len(Tail(q)) = n - 1
          /\ \A k \in 1 .. n - 1 : Tail(q)[k] = q[k + 1]
      OBVIOUS
    <3> HIDE DEF x
    <3>4. t = <<x>> \o Tail(q)
      BY <1>2, <3>3 DEF x
    <3>5. <<x>> \in Seq(PartSet) /\ Len(<<x>>) = 1 /\ <<x>>[1] = x
      BY <3>2
    <3>6. t \in Seq(PartSet) /\ Len(t) = n
      BY <3>1, <3>3, <3>4, <3>5
    <3>7. t[1] = x
      BY <3>1, <3>3, <3>4, <3>5
    <3>8. ASSUME NEW k \in 2 .. n PROVE t[k] = q[k]
      <4>1. t[k] = Tail(q)[k - 1]
        BY <3>1, <3>3, <3>4, <3>5
      <4> QED
        BY <3>1, <3>3, <4>1
    <3> QED
      BY <3>1, <3>6, <3>7, <3>8
  <2>2. ASSUME NEW k \in 1 .. n
        PROVE  t[k].of \in 1 .. Len(reqs) /\ (t[k].part = "body" => HasBody(reqs[t[k].of]))
    <3>1. CASE k = 1
      BY <2>1, <3>1 DEF InOrder, Part
    <3>2. CASE k # 1
      BY <2>1, <3>2 DEF InOrder
    <3> QED
      BY <3>1, <3>2
  <2>3. ASSUME NEW k \in 1 .. n - 1 PROVE Follows(t[k], t[k + 1], reqs)
    <3>1. Follows(q[k], q[k + 1], reqs) /\ t[k + 1] = q[k + 1]
      BY <2>1 DEF InOrder
    <3>2. CASE k = 1
      BY <2>1, <3>1, <3>2 DEF Follows, Part
    <3>3. CASE k # 1
      BY <2>1, <3>1, <3>3
    <3> QED
      BY <3>2, <3>3
  <2>4. InOrder(t, reqs)
    BY <2>1, <2>2, <2>3 DEF InOrder
  <2> QED
    BY <2>1, <2>4
<1> QED
  BY <1>1, <1>2 DEF Leaves

LEMMA InOrderMore ==
  ASSUME NEW q \in Seq(PartSet), NEW reqs \in Seq(Request), NEW r \in Request,
         InOrder(q, reqs)
  PROVE  /\ InOrder(q, Append(reqs, r))
         /\ Append(reqs, r) \in Seq(Request)
         /\ Len(Append(reqs, r)) = Len(reqs) + 1
         /\ Append(reqs, r)[Len(reqs) + 1] = r
         /\ \A k \in 1 .. Len(reqs) : Append(reqs, r)[k] = reqs[k]
<1> DEFINE a == Append(reqs, r)
<1>1. /\ a \in Seq(Request) /\ Len(a) = Len(reqs) + 1 /\ Len(reqs) \in Nat
      /\ a[Len(reqs) + 1] = r
      /\ \A k \in 1 .. Len(reqs) : a[k] = reqs[k]
      /\ Len(q) \in Nat
  OBVIOUS
<1> HIDE DEF a
<1>2. InOrder(q, a)
  <2>1. \A k \in 1 .. Len(q) : q[k].of \in 1 .. Len(reqs)
    BY DEF InOrder
  <2>2. \A k \in 1 .. Len(q) : a[q[k].of] = reqs[q[k].of] /\ q[k].of \in 1 .. Len(a)
    BY <1>1, <2>1
  <2>3. ASSUME NEW k \in 1 .. Len(q) - 1 PROVE Follows(q[k], q[k + 1], a)
    <3>1. k \in 1 .. Len(q)
      BY <1>1
    <3>2. Follows(q[k], q[k + 1], reqs)
      BY DEF InOrder
    <3> QED
      BY <2>2, <3>1, <3>2 DEF Follows
  <2> QED
    BY <2>2, <2>3 DEF InOrder
<1> QED
  BY <1>1, <1>2 DEF a

-----------------------------------------------------------------------------
\* A connection no step touches.
Same(c) ==
  /\ stage'[c] = stage[c] /\ asked'[c] = asked[c] /\ whole'[c] = whole[c]
  /\ unread'[c] = unread[c] /\ current'[c] = current[c] /\ answers'[c] = answers[c]
  /\ gone'[c] = gone[c]

LEMMA SameInv ==
  ASSUME NEW c \in Conn, ConnInv(c), Same(c)
  PROVE  ConnInv(c)'
BY DEF ConnInv, SentInv, UnreadInv, ReadingInv, Straight, Strayed, Same

LEMMA HTTPInitInv == Init => HTTPInv
<1> SUFFICES ASSUME Init PROVE HTTPInv
  OBVIOUS
<1>1. TypeOK /\ NamedInv
  <2>1. <<>> \in Seq(Request) /\ <<>> \in Seq(PartSet) /\ <<>> \in Seq(Nat)
    OBVIOUS
  <2>2. 0 \in 0 .. MaxStart /\ Threads = {}
    BY HTTPAssumption DEF Init, Threads
  <2> QED
    BY <2>1, <2>2 DEF Init, TypeOK, NamedInv, Phase, Stage, PartSet
<1>2. ASSUME NEW c \in Conn PROVE ConnInv(c)
  <2>1. /\ stage[c] = "none" /\ asked[c] = <<>> /\ whole[c] = 0
        /\ unread[c] = <<>> /\ current[c] = 0 /\ answers[c] = <<>>
    BY DEF Init
  <2>2. /\ Len(<<>>) = 0 /\ 1 .. 0 = {} /\ 1 .. 0 - 1 = {} /\ DOMAIN <<>> = {}
    OBVIOUS
  <2> QED
    BY <2>1, <2>2 DEF ConnInv, SentInv, UnreadInv, ReadingInv, Straight, InOrder
<1> QED
  BY <1>1, <1>2 DEF HTTPInv

\* Closing connections leaves them as they were before their clients came.
LEMMA CloseInv ==
  ASSUME HTTPInv, NEW S \in SUBSET Conn, Close(S)
  PROVE  /\ stage' \in [Conn -> Stage] /\ gone' \in [Conn -> BOOLEAN]
         /\ asked' \in [Conn -> Seq(Request)]
         /\ whole' \in [Conn -> Nat] /\ current' \in [Conn -> Nat]
         /\ unread' \in [Conn -> Seq(PartSet)]
         /\ answers' \in [Conn -> Seq(Nat)]
         /\ \A c \in Conn : ConnInv(c)'
         /\ \A c \in Conn : stage'[c] = IF c \in S THEN "none" ELSE stage[c]
<1>1. ASSUME NEW c \in Conn PROVE ConnInv(c)'
  <2>1. CASE c \notin S
    <3>1. gone'[c] = gone[c]
      <4>1. gone'[c] = (c \notin S /\ gone[c]) /\ gone[c] \in BOOLEAN
        BY DEF Close, HTTPInv, TypeOK
      <4> QED
        BY <2>1, <4>1
    <3>2. Same(c)
      BY <2>1, <3>1 DEF Close, Same
    <3> QED
      BY <3>2, SameInv DEF HTTPInv
  <2>2. CASE c \in S
    <3>1. /\ stage'[c] = "none" /\ asked'[c] = <<>> /\ whole'[c] = 0
          /\ unread'[c] = <<>> /\ current'[c] = 0 /\ answers'[c] = <<>>
      BY <2>2 DEF Close
    <3>2. Len(<<>>) = 0 /\ 1 .. 0 = {} /\ 1 .. 0 - 1 = {} /\ DOMAIN <<>> = {}
      OBVIOUS
    <3>3. SentInv(c)' /\ UnreadInv(c)' /\ ReadingInv(c)'
      BY <3>1, <3>2 DEF SentInv, UnreadInv, ReadingInv, InOrder
    <3>4. Straight(c)'
      BY <3>1, <3>2 DEF Straight
    <3> QED
      BY <3>3, <3>4 DEF ConnInv
  <2> QED
    BY <2>1, <2>2
<1> QED
  BY <1>1 DEF HTTPInv, TypeOK, Close, Stage, PartSet

LEMMA FlagsType ==
  ASSUME HTTPInv, Start \/ Serve \/ Interrupt \/ Crash \/ Elsewhere
  PROVE  taken' \in BOOLEAN /\ lingering' \in BOOLEAN
<1>1. taken \in BOOLEAN /\ lingering \in BOOLEAN
  BY DEF HTTPInv, TypeOK
<1>2. taken' = taken \/ taken' = (~ taken)
  BY Zenon DEF Start, Serve, Bind, Listen, StartFails, Announce, CloseServer, Leave,
               Exit, Interrupt, Crash, Gone, Elsewhere
<1>3. lingering' = lingering \/ lingering' = FALSE \/ lingering' = (lingering \/ Threads # {})
  BY Zenon DEF Start, Serve, Bind, Listen, StartFails, Announce, CloseServer, Leave,
               Exit, Interrupt, Crash, Gone, Elsewhere
<1>4. taken' \in BOOLEAN
  BY <1>1, <1>2
<1> QED
  BY <1>1, <1>3, <1>4

\* Steps of serve, and of the world around it, that close what they close.
LEMMA ServerInv ==
  ASSUME HTTPInv, Start \/ Serve \/ Interrupt \/ Crash \/ Elsewhere
  PROVE  HTTPInv'
<1>1. CASE /\ UNCHANGED <<stage, traffic>>
           /\ \/ Start \/ Bind \/ Listen \/ StartFails
              \/ Announce \/ Interrupt \/ Leave \/ Elsewhere
  <2>1. \A c \in Conn : ConnInv(c)'
    BY <1>1, SameInv DEF HTTPInv, traffic, Same
  <2>2. TypeOK' /\ NamedInv'
    <3>1. Threads' = Threads
      BY <1>1 DEF Threads
    <3>2. phase' \in Phase /\ starts' \in 0 .. MaxStart /\ named' \in 0 .. MaxStart
      BY <1>1, HTTPAssumption
         DEF HTTPInv, TypeOK, Phase, Start, Bind, Listen, StartFails, Announce, Interrupt,
             Leave, Elsewhere, Goes
    <3>3. /\ \A c \in Conn : stage[c] = "backlog" =>
                             phase' \in {"listening", "serving", "closing"}
          /\ Threads # {} => phase' \in {"serving", "closing", "leaving", "ending"}
      BY <1>1 DEF HTTPInv, TypeOK, Start, Bind, Listen, StartFails, Announce, Interrupt,
                  Leave, Elsewhere, Goes
    <3>4. NamedInv'
      BY <1>1 DEF HTTPInv, NamedInv, Start, Bind, Listen, StartFails, Announce, Interrupt,
                  Leave, Elsewhere, Goes
    <3>5. TypeOK'
      BY <1>1, <3>1, <3>2, <3>3, FlagsType DEF HTTPInv, TypeOK, traffic
    <3> QED
      BY <3>4, <3>5
  <2> QED
    BY <2>1, <2>2 DEF HTTPInv
<1>2. CASE CloseServer
  <2>1. Close({c \in Conn : stage[c] = "backlog"})
    BY <1>2 DEF CloseServer
  <2>2. /\ phase = "closing" /\ phase' = "leaving"
        /\ UNCHANGED <<starts, named>>
    BY <1>2 DEF CloseServer, Goes
  <2>3. \A c \in Conn : stage'[c] # "backlog"
    BY <2>1 DEF Close
  <2>4. TypeOK'
    BY <2>1, <2>2, <2>3, CloseInv, FlagsType DEF HTTPInv, TypeOK, Phase, PartSet
  <2> QED
    BY <2>1, <2>2, <2>4, CloseInv DEF HTTPInv, NamedInv
<1>3. CASE Exit \/ Crash
  <2>1. Close({c \in Conn : Open(c)})
    BY <1>3 DEF Exit, Crash, Gone
  <2>2. phase' = "down" /\ UNCHANGED <<starts, named>>
    BY <1>3 DEF Exit, Crash, Gone
  <2>3. \A c \in Conn : stage'[c] = "none"
    BY <2>1 DEF Close, Open
  <2>4. TypeOK'
    BY <2>1, <2>2, <2>3, CloseInv, FlagsType DEF HTTPInv, TypeOK, Phase, Threads, PartSet
  <2> QED
    BY <2>1, <2>2, <2>4, CloseInv DEF HTTPInv, NamedInv
<1> QED
  BY <1>1, <1>2, <1>3
     DEF Start, Serve, Bind, Listen, StartFails, Announce, Interrupt, Leave, Elsewhere

-----------------------------------------------------------------------------
\* Steps that touch one connection: what is left to show is its own invariant.
LEMMA OneConnection ==
  ASSUME HTTPInv, NEW c \in Conn, NEW s \in Stage,
         UNCHANGED server,
         stage' = [stage EXCEPT ![c] = s],
         s = "backlog" => phase \in {"listening", "serving", "closing"},
         s \notin {"none", "backlog"} =>
           phase = "serving" \/ stage[c] \notin {"none", "backlog"},
         gone' \in [Conn -> BOOLEAN],
         asked' \in [Conn -> Seq(Request)],
         whole' \in [Conn -> Nat], current' \in [Conn -> Nat],
         unread' \in [Conn -> Seq(PartSet)],
         answers' \in [Conn -> Seq(Nat)],
         \A d \in Conn \ {c} : Same(d),
         ConnInv(c)'
  PROVE  HTTPInv'
<1>1. \A d \in Conn : ConnInv(d)'
  BY SameInv DEF HTTPInv
<1>2. /\ stage' \in [Conn -> Stage]
      /\ \A d \in Conn : stage'[d] = IF d = c THEN s ELSE stage[d]
  BY DEF HTTPInv, TypeOK
<1>3. /\ \A d \in Conn : stage'[d] = "backlog" =>
                         phase \in {"listening", "serving", "closing"}
      /\ Threads' # {} => phase \in {"serving", "closing", "leaving", "ending"}
  BY <1>2 DEF HTTPInv, TypeOK, Threads
<1>4. TypeOK' /\ NamedInv'
  BY <1>2, <1>3 DEF HTTPInv, TypeOK, NamedInv, server, PartSet
<1> QED
  BY <1>1, <1>4 DEF HTTPInv

\* The parts of the invariant, of one connection, that the steps below use.
LEMMA ConnFacts ==
  ASSUME HTTPInv, NEW c \in Conn
  PROVE  /\ stage[c] \in Stage /\ gone[c] \in BOOLEAN
         /\ asked[c] \in Seq(Request) /\ Len(asked[c]) \in Nat
         /\ whole[c] \in Nat /\ current[c] \in Nat
         /\ unread[c] \in Seq(PartSet) /\ Len(unread[c]) \in Nat
         /\ answers[c] \in Seq(Nat) /\ Len(answers[c]) \in Nat
         /\ stage \in [Conn -> Stage] /\ gone \in [Conn -> BOOLEAN]
         /\ asked \in [Conn -> Seq(Request)]
         /\ whole \in [Conn -> Nat] /\ current \in [Conn -> Nat]
         /\ unread \in [Conn -> Seq(PartSet)]
         /\ answers \in [Conn -> Seq(Nat)]
         /\ ConnInv(c)
BY DEF HTTPInv, TypeOK, PartSet

LEMMA ReadHeadInv ==
  ASSUME HTTPInv, NEW c \in Conn, ReadHead(c)
  PROVE  HTTPInv'
<1> DEFINE q == unread[c]
           i == q[1].of
           n == Len(asked[c])
           s == CASE asked[c][i].route = "token"  -> "reading"
                  [] asked[c][i].route = "misfit" -> "deciding"
                  [] OTHER                        -> "answering"
<1>1. /\ stage[c] = "idle" /\ q # <<>> /\ q[1].part = "head"
      /\ stage' = [stage EXCEPT ![c] = s]
      /\ current' = [current EXCEPT ![c] = i]
      /\ unread' = [unread EXCEPT ![c] = Tail(q)]
      /\ UNCHANGED <<server, gone, asked, whole, answers>>
  BY DEF ReadHead, Moves
<1>2. i \in 1 .. n
  <2>1. InOrder(q, asked[c]) /\ 1 \in 1 .. Len(q)
    BY <1>1, ConnFacts, LenPositive DEF ConnInv, UnreadInv
  <2> QED
    BY <2>1 DEF InOrder
<1>3. /\ InOrder(Tail(q), asked[c])
      /\ Tail(q) \in Seq(PartSet) /\ Len(Tail(q)) = Len(q) - 1
      /\ Tail(q) # <<>> => /\ Tail(q)[Len(q) - 1] = q[Len(q)]
                           /\ Tail(q)[1] = q[2]
                           /\ Follows(q[1], q[2], asked[c])
  BY <1>1, ConnFacts, InOrderTail DEF ConnInv, UnreadInv
<1>4. /\ s \in {"reading", "deciding", "answering"}
      /\ s = "reading" <=> asked[c][i].route = "token"
      /\ stage'[c] = s /\ current'[c] = i /\ unread'[c] = Tail(q)
      /\ asked'[c] = asked[c] /\ whole'[c] = whole[c] /\ answers'[c] = answers[c]
      /\ gone'[c] = gone[c]
  BY <1>1, <1>2, ConnFacts
<1>5. Tail(q) = <<>> => i = n /\ Last(q[1], n, whole[c], asked[c])
  <2> SUFFICES ASSUME Tail(q) = <<>> PROVE i = n /\ Last(q[1], n, whole[c], asked[c])
    OBVIOUS
  <2>1. Len(Tail(q)) = 0 /\ Len(q) \in Nat
    BY <1>3, ConnFacts, LenPositive
  <2>2. Len(q) = 1
    BY <1>3, <2>1
  <2> QED
    BY <1>1, <2>2, ConnFacts DEF ConnInv, UnreadInv, Last
<1> HIDE DEF s
<1>6. SentInv(c)'
  BY <1>4, ConnFacts DEF ConnInv, SentInv
<1>7. UnreadInv(c)'
  BY <1>1, <1>3, <1>4, ConnFacts DEF ConnInv, UnreadInv
<1>8. ReadingInv(c)'
  <2> SUFFICES ASSUME s = "reading"
               PROVE  /\ Tail(q) = <<>> => i = n /\ whole[c] < n
                      /\ Tail(q) # <<>> => Tail(q)[1] = Part(i, "body")
    BY <1>4 DEF ReadingInv
  <2>1. HasBody(asked[c][i])
    BY <1>2, <1>4, ConnFacts DEF ConnInv, SentInv
  <2> QED
    BY <1>1, <1>3, <1>5, <2>1 DEF Follows, Last
<1>9. (Straight(c) \/ Strayed(c))'
  <2>1. CASE Strayed(c)
    BY <1>4, <2>1 DEF Strayed
  <2>2. CASE Straight(c)
    <3>1. i = current[c] + 1 /\ Len(answers[c]) = current[c]
      <4>1. q[1] = Part(current[c] + 1, "head")
        BY <1>1, <2>2 DEF Straight, Part
      <4> QED
        BY <1>1, <2>2, <4>1 DEF Straight, Part
    <3>2. Tail(q) # <<>> =>
            \/ Tail(q)[1] = Part(i + 1, "head")
            \/ Tail(q)[1] = Part(i, "body")
      BY <1>3 DEF Follows
    <3> QED
      BY <1>2, <1>4, <1>5, <2>2, <3>1, <3>2, ConnFacts DEF Straight
  <2> QED
    BY <2>1, <2>2, ConnFacts DEF ConnInv
<1>10. ConnInv(c)' /\ \A d \in Conn \ {c} : Same(d)
  BY <1>1, <1>6, <1>7, <1>8, <1>9, ConnFacts DEF ConnInv, Same
<1>11. /\ current' \in [Conn -> Nat]
       /\ unread' \in [Conn -> Seq(PartSet)]
  BY <1>1, <1>2, <1>3, ConnFacts
<1> QED
  BY <1>1, <1>4, <1>10, <1>11, ConnFacts, OneConnection DEF Stage

LEMMA ReadBodyInv ==
  ASSUME HTTPInv, NEW c \in Conn, ReadBody(c)
  PROVE  HTTPInv'
<1> DEFINE q == unread[c]
           n == Len(asked[c])
           i == current[c]
<1>1. /\ stage[c] = "reading" /\ i # 0
      /\ stage' = [stage EXCEPT ![c] = "deciding"]
      /\ UNCHANGED <<server, gone, asked, whole, current, answers>>
  BY DEF ReadBody, Moves
<1>2. /\ stage'[c] = "deciding" /\ gone'[c] = gone[c]
      /\ asked'[c] = asked[c] /\ whole'[c] = whole[c]
      /\ current'[c] = current[c] /\ answers'[c] = answers[c]
  BY <1>1, ConnFacts
<1>3. SentInv(c)' /\ ReadingInv(c)'
  BY <1>2, ConnFacts DEF ConnInv, SentInv, ReadingInv
<1>4. CASE q = <<>> /\ gone[c] /\ unread' = unread
  <2>1. UnreadInv(c)'
    BY <1>2, <1>4, ConnFacts DEF ConnInv, UnreadInv
  <2>2. (Straight(c) \/ Strayed(c))'
    BY <1>1, <1>2, <1>4, ConnFacts DEF ConnInv, Straight, Strayed
  <2>3. ConnInv(c)' /\ \A d \in Conn \ {c} : Same(d)
    BY <1>1, <1>3, <1>4, <2>1, <2>2, ConnFacts DEF ConnInv, Same
  <2> QED
    BY <1>1, <1>4, <2>3, ConnFacts, OneConnection DEF Stage
<1>5. CASE q # <<>> /\ unread' = [unread EXCEPT ![c] = Tail(q)]
  <2>1. /\ InOrder(Tail(q), asked[c])
        /\ Tail(q) \in Seq(PartSet) /\ Len(Tail(q)) = Len(q) - 1
        /\ Tail(q) # <<>> => /\ Tail(q)[Len(q) - 1] = q[Len(q)]
                             /\ Tail(q)[1] = q[2]
                             /\ Follows(q[1], q[2], asked[c])
    BY <1>5, ConnFacts, InOrderTail DEF ConnInv, UnreadInv
  <2>2. unread'[c] = Tail(q) /\ q[1] = Part(i, "body")
    BY <1>1, <1>5, ConnFacts DEF ConnInv, ReadingInv
  <2>3. Tail(q) # <<>> => Tail(q)[1] = Part(i + 1, "head")
    BY <2>1, <2>2 DEF Follows, Part
  <2>4. Tail(q) = <<>> => i = n /\ whole[c] = n
    <3> SUFFICES ASSUME Tail(q) = <<>> PROVE i = n /\ whole[c] = n
      OBVIOUS
    <3>1. Len(Tail(q)) = 0 /\ Len(q) \in Nat
      BY <2>1, ConnFacts, LenPositive
    <3>2. Len(q) = 1
      BY <2>1, <3>1
    <3>3. Last(q[1], n, whole[c], asked[c])
      BY <1>5, <3>2, ConnFacts DEF ConnInv, UnreadInv
    <3> QED
      BY <2>2, <3>3 DEF Part, Last
  <2>5. UnreadInv(c)'
    BY <1>2, <1>5, <2>1, <2>2, ConnFacts DEF ConnInv, UnreadInv
  <2>6. (Straight(c) \/ Strayed(c))'
    <3>1. CASE Strayed(c)
      BY <1>2, <3>1 DEF Strayed
    <3>2. CASE Straight(c)
      BY <1>1, <1>2, <2>2, <2>3, <2>4, <3>2, ConnFacts DEF Straight
    <3> QED
      BY <3>1, <3>2, ConnFacts DEF ConnInv
  <2>7. ConnInv(c)' /\ \A d \in Conn \ {c} : Same(d)
    BY <1>1, <1>3, <1>5, <2>5, <2>6, ConnFacts DEF ConnInv, Same
  <2>8. unread' \in [Conn -> Seq(PartSet)]
    BY <1>5, <2>1, ConnFacts
  <2> QED
    BY <1>1, <2>7, <2>8, ConnFacts, OneConnection DEF Stage
<1> QED
  BY <1>4, <1>5 DEF ReadBody

\* Where a body or a rest is due for a request line on a connection that has
\* not strayed, it is the body of the last request answered.
LEMMA StrayFrom ==
  ASSUME HTTPInv, NEW c \in Conn, Stray(c, {"request"})
  PROVE  Strayed(c)
<1> DEFINE i == current[c]
<1> SUFFICES ASSUME Straight(c) PROVE Strayed(c)
  BY ConnFacts DEF ConnInv
<1>1. /\ stage[c] = "idle" /\ unread[c] # <<>>
      /\ \/ unread[c][1].part = "rest"
         \/ /\ unread[c][1].part = "body"
            /\ asked[c][unread[c][1].of].body = "request"
  BY DEF Stray
<1>2. /\ unread[c][1] = Part(i, "body") /\ asked[c][i].route # "token"
      /\ asked[c][i].body = "request"
  BY <1>1 DEF Straight, Part
<1>3. i \in 1 .. Len(asked[c])
  <2>1. 1 \in 1 .. Len(unread[c])
    BY <1>1, ConnFacts, LenPositive
  <2> QED
    BY <1>2, <2>1, ConnFacts DEF ConnInv, UnreadInv, InOrder, Part
<1>4. Len(answers[c]) = i /\ \A k \in 1 .. i : answers[c][k] = k
  BY <1>1, ConnFacts DEF Straight
<1> QED
  BY <1>2, <1>3, <1>4 DEF Strayed, misleading

\* A thread that reads on in a request nobody sent is on a strayed connection.
LEMMA ReadOnFrom ==
  ASSUME HTTPInv, NEW c \in Conn, ReadOn(c)
  PROVE  Strayed(c)
<1>1. stage[c] = "reading" /\ current[c] = 0
  BY DEF ReadOn, Moves
<1>2. Len(answers[c]) # current[c] - 1
  BY <1>1, ConnFacts
<1> QED
  BY <1>1, <1>2, ConnFacts DEF ConnInv, Straight

LEMMA StrayInv ==
  ASSUME HTTPInv, NEW c \in Conn, ReadStray(c) \/ ReadOn(c)
  PROVE  HTTPInv'
<1>1. /\ Strayed(c) /\ stage[c] \notin {"none", "backlog"}
      /\ stage[c] = "idle" \/ current[c] = 0
  BY StrayFrom, ReadOnFrom DEF ReadStray, ReadOn, Stray, Moves
<1>2. PICK s \in {"reading", "deciding", "answering"} : stage' = [stage EXCEPT ![c] = s]
  BY DEF ReadStray, ReadOn, Moves
<1>3. PICK t : /\ unread' = [unread EXCEPT ![c] = t]
               /\ t = unread[c] \/ (unread[c] # <<>> /\ t \in Leaves(unread[c]))
  <2>1. CASE ReadStray(c)
    BY <2>1 DEF ReadStray, Stray
  <2>2. CASE ReadOn(c) /\ unread[c] # <<>>
    BY <2>2 DEF ReadOn
  <2>3. CASE ReadOn(c) /\ unread[c] = <<>>
    <3>1. unread' = [unread EXCEPT ![c] = unread[c]]
      BY <2>3, ConnFacts DEF ReadOn
    <3> QED
      BY <3>1
  <2> QED
    BY <2>1, <2>2, <2>3
<1>4. /\ current' \in [Conn -> Nat] /\ current'[c] = 0
      /\ \A d \in Conn \ {c} : current'[d] = current[d]
      /\ UNCHANGED <<server, gone, asked, whole, answers>>
  <2>1. CASE ReadStray(c)
    BY <2>1, ConnFacts DEF ReadStray
  <2>2. CASE ReadOn(c)
    BY <2>2, ConnFacts DEF ReadOn
  <2> QED
    BY <2>1, <2>2
<1>5. /\ InOrder(t, asked[c]) /\ t \in Seq(PartSet)
      /\ t # <<>> => Last(t[Len(t)], Len(asked[c]), whole[c], asked[c])
  <2>1. CASE t = unread[c]
    BY <2>1, ConnFacts DEF ConnInv, UnreadInv
  <2>2. CASE unread[c] # <<>> /\ t \in Leaves(unread[c])
    <3>1. /\ InOrder(t, asked[c]) /\ t \in Seq(PartSet)
          /\ t # <<>> => \/ t[Len(t)] = unread[c][Len(unread[c])]
                         \/ t[Len(t)] = Part(unread[c][Len(unread[c])].of, "rest")
      BY <2>2, ConnFacts, InOrderLeaves DEF ConnInv, UnreadInv
    <3>2. Last(unread[c][Len(unread[c])], Len(asked[c]), whole[c], asked[c])
      BY <2>2, ConnFacts DEF ConnInv, UnreadInv
    <3> QED
      BY <3>1, <3>2 DEF Last, Part
  <2> QED
    BY <1>3, <2>1, <2>2
<1>6. ConnInv(c)'
  <2>1. /\ unread'[c] = t /\ asked'[c] = asked[c] /\ whole'[c] = whole[c]
        /\ answers'[c] = answers[c]
    BY <1>3, <1>4, ConnFacts
  <2>2. SentInv(c)' /\ UnreadInv(c)' /\ ReadingInv(c)'
    BY <1>4, <1>5, <2>1, ConnFacts DEF ConnInv, SentInv, UnreadInv, ReadingInv
  <2>3. Strayed(c)'
    BY <1>1, <2>1 DEF Strayed
  <2> QED
    BY <2>2, <2>3 DEF ConnInv
<1>7. \A d \in Conn \ {c} : Same(d)
  BY <1>2, <1>3, <1>4, ConnFacts DEF Same
<1>8. unread' \in [Conn -> Seq(PartSet)]
  BY <1>3, <1>5, ConnFacts
<1> QED
  BY <1>1, <1>2, <1>4, <1>6, <1>7, <1>8, ConnFacts, OneConnection DEF Stage

\* Steps that only move the thread, or take the connection.
LEMMA MovesInv ==
  ASSUME HTTPInv, NEW c \in Conn,
         Accept(c) \/ Decide(c) \/ Hang(c) \/ Connect(c)
  PROVE  HTTPInv'
<1>1. PICK s \in {"backlog", "idle", "answering", "hung"} :
        /\ stage' = [stage EXCEPT ![c] = s]
        /\ UNCHANGED <<server, traffic>>
        /\ s \in {"backlog", "idle"} => stage[c] \in {"none", "backlog"}
        /\ s \in {"answering", "hung"} => stage[c] = "deciding"
        /\ s = "backlog" => phase \in {"listening", "serving", "closing"}
        /\ s = "idle" => phase = "serving"
  BY DEF Accept, Decide, Hang, Connect, Moves
<1>2. ConnInv(c)'
  BY <1>1, ConnFacts
     DEF traffic, ConnInv, SentInv, UnreadInv, ReadingInv, Straight, Strayed
<1>3. \A d \in Conn \ {c} : Same(d)
  BY <1>1, ConnFacts DEF traffic, Same
<1> QED
  BY <1>1, <1>2, <1>3, ConnFacts, OneConnection DEF traffic, Stage

LEMMA AnswerInv ==
  ASSUME HTTPInv, NEW c \in Conn, Answer(c)
  PROVE  HTTPInv'
<1> DEFINE a == answers[c]
           i == current[c]
           b == Append(a, i)
<1>1. /\ stage[c] = "answering"
      /\ stage' = [stage EXCEPT ![c] = "idle"]
      /\ answers' = [answers EXCEPT ![c] = b]
      /\ UNCHANGED <<server, gone, asked, whole, unread, current>>
  BY DEF Answer, Moves
<1>2. /\ b \in Seq(Nat) /\ Len(b) = Len(a) + 1 /\ Len(a) \in Nat
      /\ \A k \in 1 .. Len(a) : b[k] = a[k]
      /\ b[Len(a) + 1] = i /\ DOMAIN b = 1 .. Len(a) + 1 /\ DOMAIN a = 1 .. Len(a)
  <2>1. a \in Seq(Nat) /\ i \in Nat
    BY ConnFacts
  <2> HIDE DEF a, i
  <2> QED
    BY <2>1
<1>3. /\ stage'[c] = "idle" /\ answers'[c] = b
      /\ asked'[c] = asked[c] /\ whole'[c] = whole[c] /\ gone'[c] = gone[c]
      /\ current'[c] = i /\ unread'[c] = unread[c]
  BY <1>1, ConnFacts
<1> HIDE DEF b
<1>4. SentInv(c)' /\ UnreadInv(c)' /\ ReadingInv(c)'
  BY <1>3, ConnFacts DEF ConnInv, SentInv, UnreadInv, ReadingInv
<1>5. (Straight(c) \/ Strayed(c))'
  <2>1. CASE Strayed(c)
    <3>1. PICK m \in 1 .. Len(a) :
            /\ m <= Len(asked[c]) /\ misleading(asked[c][m])
            /\ \A k \in 1 .. m : a[k] = k
      BY <2>1 DEF Strayed
    <3>2. m \in 1 .. Len(b) /\ \A k \in 1 .. m : b[k] = k
      <4>1. \A k \in 1 .. m : k \in 1 .. Len(a)
        BY <1>2, <3>1
      <4> QED
        BY <1>2, <3>1, <4>1
    <3>3. /\ m <= Len(asked'[c]) /\ misleading(asked'[c][m])
          /\ m \in 1 .. Len(answers'[c]) /\ \A k \in 1 .. m : answers'[c][k] = k
      BY <1>3, <3>1, <3>2
    <3> QED
      BY <3>3 DEF Strayed
  <2>2. CASE Straight(c)
    <3>1. Len(a) = i - 1 /\ i \in Nat /\ \A k \in 1 .. Len(a) : a[k] = k
      BY <1>1, <1>2, <2>2, ConnFacts DEF Straight
    <3>2. Len(b) = i /\ \A k \in DOMAIN b : b[k] = k
      <4> HIDE DEF a, i
      <4>1. ASSUME NEW k \in 1 .. Len(a) + 1 PROVE b[k] = k
        <5>1. k \in 1 .. Len(a) \/ k = Len(a) + 1
          BY <1>2
        <5> QED
          BY <1>2, <3>1, <5>1
      <4> QED
        BY <1>2, <3>1, <4>1
    <3> QED
      BY <1>1, <1>3, <2>2, <3>2, ConnFacts DEF Straight
  <2> QED
    BY <2>1, <2>2, ConnFacts DEF ConnInv
<1>6. ConnInv(c)' /\ \A d \in Conn \ {c} : Same(d)
  BY <1>1, <1>4, <1>5, ConnFacts DEF ConnInv, Same
<1>7. answers' \in [Conn -> Seq(Nat)]
  BY <1>1, <1>2, ConnFacts
<1> QED
  BY <1>1, <1>6, <1>7, ConnFacts, OneConnection DEF Stage

LEMMA LoseInv ==
  ASSUME HTTPInv, NEW c \in Conn, Misread(c) \/ Drop(c)
  PROVE  HTTPInv'
<1>1. Close({c}) /\ UNCHANGED server
  BY DEF Misread, Drop
<1>2. /\ \A d \in Conn : ConnInv(d)'
      /\ \A d \in Conn : stage'[d] = IF d = c THEN "none" ELSE stage[d]
  BY <1>1, CloseInv
<1>3. TypeOK'
  <2>1. Threads' \subseteq Threads
    BY <1>2 DEF Threads
  <2> QED
    BY <1>1, <1>2, <2>1, CloseInv DEF HTTPInv, TypeOK, server, PartSet
<1> QED
  BY <1>1, <1>2, <1>3 DEF HTTPInv, NamedInv, server

LEMMA HangUpInv ==
  ASSUME HTTPInv, NEW c \in Conn, HangUp(c)
  PROVE  HTTPInv'
<1>1. /\ gone' = [gone EXCEPT ![c] = TRUE]
      /\ UNCHANGED <<server, stage, asked, whole, unread, current, answers>>
  BY DEF HangUp
<1>2. ConnInv(c)'
  <2>1. gone'[c] = TRUE
    BY <1>1, ConnFacts
  <2> QED
    BY <1>1, <2>1, ConnFacts
       DEF ConnInv, SentInv, UnreadInv, ReadingInv, Straight, Strayed
<1>3. \A d \in Conn \ {c} : ConnInv(d)'
  <2>1. \A d \in Conn \ {c} : Same(d)
    BY <1>1, ConnFacts DEF Same
  <2> QED
    BY <2>1, SameInv DEF HTTPInv
<1>4. TypeOK' /\ NamedInv'
  BY <1>1 DEF HTTPInv, TypeOK, NamedInv, Threads, server
<1> QED
  BY <1>2, <1>3, <1>4 DEF HTTPInv

\* What a client sends goes to the end of what is unread.
LEMMA SendInv ==
  ASSUME HTTPInv, NEW c \in Conn, NEW r \in Requests[c], Send(c, r)
  PROVE  HTTPInv'
<1> DEFINE q == unread[c]
           n == Len(asked[c])
           m == n + 1
           reqs == Append(asked[c], r)
           x == Part(m, "head")
<1>1. /\ whole[c] = n /\ ~ gone[c]
      /\ asked' = [asked EXCEPT ![c] = reqs]
      /\ unread' = [unread EXCEPT ![c] = Append(q, x)]
      /\ whole' = IF HasBody(r) THEN whole ELSE [whole EXCEPT ![c] = @ + 1]
      /\ UNCHANGED <<server, stage, gone, current, answers>>
  BY DEF Send, Sending
<1>2. r \in Request /\ (r.route = "token" => HasBody(r))
  BY HTTPAssumption
<1>3. /\ InOrder(q, reqs) /\ reqs \in Seq(Request)
      /\ Len(reqs) = m /\ reqs[m] = r
      /\ \A k \in 1 .. n : reqs[k] = asked[c][k]
  BY <1>2, ConnFacts, InOrderMore DEF ConnInv, UnreadInv
<1>4. x \in PartSet /\ x.of = m /\ x.part = "head" /\ m \in Nat /\ m \in 1 .. m
  BY ConnFacts DEF Part, PartSet
<1>5. q # <<>> => Follows(q[Len(q)], x, reqs)
  <2> SUFFICES ASSUME q # <<>> PROVE Follows(q[Len(q)], x, reqs)
    OBVIOUS
  <2> DEFINE y == q[Len(q)]
  <2>1. Last(y, n, whole[c], asked[c])
    BY ConnFacts DEF ConnInv, UnreadInv
  <2>2. y.of = n /\ (y.part = "head" => ~ HasBody(asked[c][n]))
    BY <1>1, <2>1, ConnFacts DEF Last
  <2>3. n \in 1 .. n
    <3>1. Len(q) \in 1 .. Len(q)
      BY ConnFacts, LenPositive
    <3> QED
      BY <2>2, <3>1, ConnFacts DEF ConnInv, UnreadInv, InOrder
  <2> HIDE DEF y
  <2>4. Follows(y, x, reqs)
    BY <1>3, <2>2, <2>3 DEF Follows
  <2> QED
    BY <2>4 DEF y
<1> DEFINE a == Append(q, x)
<1>6. /\ InOrder(a, reqs)
      /\ a \in Seq(PartSet) /\ a # <<>> /\ Len(a) = Len(q) + 1 /\ a[Len(q) + 1] = x
      /\ a[1] = IF q = <<>> THEN x ELSE q[1]
  <2>1. x.of \in 1 .. Len(reqs) /\ (x.part = "body" => HasBody(reqs[x.of]))
    BY <1>3, <1>4
  <2>2. q \in Seq(PartSet)
    BY ConnFacts
  <2> HIDE DEF q, x, reqs
  <2> QED
    BY <1>3, <1>4, <1>5, <2>1, <2>2, InOrderAppend
<1>7. /\ asked'[c] = reqs /\ unread'[c] = a
      /\ whole'[c] = IF HasBody(r) THEN n ELSE m
      /\ stage'[c] = stage[c] /\ current'[c] = current[c] /\ answers'[c] = answers[c]
      /\ gone'[c] = FALSE
  BY <1>1, ConnFacts
<1> HIDE DEF a, reqs, x
<1>8. SentInv(c)'
  <2>1. \A k \in 1 .. m : reqs[k].route = "token" => HasBody(reqs[k])
    <3>1. ASSUME NEW k \in 1 .. n, asked[c][k].route = "token" PROVE HasBody(asked[c][k])
      BY <3>1, ConnFacts DEF ConnInv, SentInv
    <3>2. \A k \in 1 .. m : k \in 1 .. n \/ k = m
      BY <1>4, ConnFacts
    <3> QED
      BY <1>2, <1>3, <3>1, <3>2
  <2>2. whole'[c] <= m /\ (whole'[c] < m => whole'[c] + 1 = m /\ HasBody(reqs[m]))
    BY <1>3, <1>7, ConnFacts
  <2> QED
    BY <1>3, <1>7, <2>1, <2>2 DEF SentInv
<1>9. UnreadInv(c)'
  <2>1. a[Len(a)] = x
    BY <1>6
  <2>2. Last(x, m, whole'[c], reqs)
    BY <1>3, <1>4, <1>7, ConnFacts DEF Last
  <2>3. Len(asked'[c]) = m /\ asked'[c] = reqs /\ unread'[c] = a
    BY <1>3, <1>7
  <2> QED
    BY <1>6, <2>1, <2>2, <2>3 DEF UnreadInv
<1>10. ReadingInv(c)'
  <2> SUFFICES ASSUME stage[c] = "reading", current[c] # 0
               PROVE  a # <<>> /\ a[1] = Part(current[c], "body")
    BY <1>7 DEF ReadingInv
  <2>1. q # <<>> /\ q[1] = Part(current[c], "body")
    BY <1>1, ConnFacts DEF ConnInv, ReadingInv
  <2> QED
    BY <1>6, <2>1
<1>11. (Straight(c) \/ Strayed(c))'
  <2>1. CASE Strayed(c)
    <3>1. PICK k \in 1 .. Len(answers[c]) :
            /\ k <= n /\ misleading(asked[c][k])
            /\ \A j \in 1 .. k : answers[c][j] = j
      BY <2>1 DEF Strayed
    <3>2. k \in 1 .. n /\ k <= m
      BY <3>1, ConnFacts
    <3>3. k <= Len(asked'[c]) /\ misleading(asked'[c][k]) /\ k \in 1 .. Len(answers'[c])
      BY <1>3, <1>7, <3>1, <3>2
    <3> QED
      BY <1>7, <3>1, <3>3 DEF Strayed
  <2>2. CASE Straight(c) /\ q = <<>>
    <3>1. current[c] = n /\ x = Part(current[c] + 1, "head")
      BY <2>2 DEF Straight, x
    <3> QED
      BY <1>3, <1>6, <1>7, <2>2, <3>1, ConnFacts DEF Straight
  <2>3. CASE Straight(c) /\ q # <<>>
    <3>1. /\ current[c] \in 0 .. n /\ a[1] = q[1]
          /\ q[1].of \in 1 .. n
      <4>1. 1 \in 1 .. Len(q)
        BY <2>3, ConnFacts, LenPositive
      <4> QED
        BY <1>6, <2>3, <4>1, ConnFacts DEF Straight, ConnInv, UnreadInv, InOrder
    <3>2. q[1] = Part(current[c], "body") => reqs[current[c]] = asked[c][current[c]]
      BY <1>3, <3>1 DEF Part
    <3> QED
      BY <1>3, <1>6, <1>7, <2>3, <3>1, <3>2, ConnFacts DEF Straight
  <2> QED
    BY <2>1, <2>2, <2>3, ConnFacts DEF ConnInv
<1>12. ConnInv(c)' /\ \A d \in Conn \ {c} : Same(d)
  BY <1>1, <1>8, <1>9, <1>10, <1>11, ConnFacts DEF ConnInv, Same
<1>13. /\ asked' \in [Conn -> Seq(Request)] /\ whole' \in [Conn -> Nat]
       /\ unread' \in [Conn -> Seq(PartSet)]
  BY <1>1, <1>3, <1>6, ConnFacts DEF a
<1>14. /\ stage' = [stage EXCEPT ![c] = stage[c]]
       /\ stage[c] = "backlog" => phase \in {"listening", "serving", "closing"}
  BY <1>1, ConnFacts DEF HTTPInv, TypeOK
<1> QED
  BY <1>1, <1>12, <1>13, <1>14, ConnFacts, OneConnection

LEMMA SendBodyInv ==
  ASSUME HTTPInv, NEW c \in Conn, SendBody(c)
  PROVE  HTTPInv'
<1> DEFINE q == unread[c]
           n == Len(asked[c])
           x == Part(n, "body")
           a == Append(q, x)
<1>1. /\ whole[c] < n /\ ~ gone[c]
      /\ whole' = [whole EXCEPT ![c] = @ + 1]
      /\ unread' = [unread EXCEPT ![c] = a]
      /\ UNCHANGED <<server, stage, gone, asked, current, answers>>
  BY DEF SendBody, Sending
<1>2. whole[c] + 1 = n /\ HasBody(asked[c][n]) /\ n \in Nat /\ n \in 1 .. n
  BY <1>1, ConnFacts DEF ConnInv, SentInv
<1>3. x \in PartSet /\ x.of = n /\ x.part = "body"
  BY <1>2 DEF Part, PartSet
<1>4. q # <<>> => Follows(q[Len(q)], x, asked[c])
  <2>1. q # <<>> => q[Len(q)].of = n /\ q[Len(q)].part # "body"
    BY <1>1, <1>2, ConnFacts DEF ConnInv, UnreadInv, Last
  <2> QED
    BY <1>2, <2>1 DEF Follows
<1>5. /\ InOrder(a, asked[c])
      /\ a \in Seq(PartSet) /\ a # <<>> /\ Len(a) = Len(q) + 1 /\ a[Len(q) + 1] = x
      /\ a[1] = IF q = <<>> THEN x ELSE q[1]
  <2>1. x.of \in 1 .. Len(asked[c]) /\ (x.part = "body" => HasBody(asked[c][x.of]))
    BY <1>2, <1>3
  <2>2. q \in Seq(PartSet) /\ asked[c] \in Seq(Request) /\ InOrder(q, asked[c])
    BY ConnFacts DEF ConnInv, UnreadInv
  <2> HIDE DEF q, x
  <2> QED
    BY <1>3, <1>4, <2>1, <2>2, InOrderAppend
<1>6. /\ asked'[c] = asked[c] /\ unread'[c] = a /\ whole'[c] = n /\ gone'[c] = gone[c]
      /\ stage'[c] = stage[c] /\ current'[c] = current[c] /\ answers'[c] = answers[c]
  BY <1>1, <1>2, ConnFacts
<1> HIDE DEF a
<1>7. SentInv(c)'
  BY <1>2, <1>6, ConnFacts DEF ConnInv, SentInv
<1>8. UnreadInv(c)'
  <2>1. a[Len(a)] = x /\ Last(x, n, n, asked[c])
    BY <1>3, <1>5 DEF Last
  <2> QED
    BY <1>5, <1>6, <2>1 DEF UnreadInv
<1>9. ReadingInv(c)'
  BY <1>5, <1>6, ConnFacts DEF ConnInv, ReadingInv
<1>10. (Straight(c) \/ Strayed(c))'
  <2>1. CASE Strayed(c)
    BY <1>6, <2>1 DEF Strayed
  <2>2. CASE Straight(c) /\ q = <<>>
    <3>1. /\ current[c] = n
          /\ stage[c] # "reading" => asked[c][n].route # "token"
      BY <1>1, <1>2, <2>2 DEF Straight
    <3>2. a[1] = Part(current[c], "body")
      BY <1>5, <2>2, <3>1
    <3> QED
      BY <1>5, <1>6, <2>2, <3>1, <3>2 DEF Straight
  <2>3. CASE Straight(c) /\ q # <<>>
    BY <1>5, <1>6, <2>3 DEF Straight
  <2> QED
    BY <2>1, <2>2, <2>3, ConnFacts DEF ConnInv
<1>11. ConnInv(c)' /\ \A d \in Conn \ {c} : Same(d)
  BY <1>1, <1>7, <1>8, <1>9, <1>10, ConnFacts DEF ConnInv, Same
<1>12. /\ whole' \in [Conn -> Nat] /\ unread' \in [Conn -> Seq(PartSet)]
  BY <1>1, <1>5, ConnFacts
<1>13. /\ stage' = [stage EXCEPT ![c] = stage[c]]
       /\ stage[c] = "backlog" => phase \in {"listening", "serving", "closing"}
  BY <1>1, ConnFacts DEF HTTPInv, TypeOK
<1> QED
  BY <1>1, <1>11, <1>12, <1>13, ConnFacts, OneConnection

-----------------------------------------------------------------------------
LEMMA HTTPNextInv == HTTPInv /\ [Next]_vars => HTTPInv'
<1> SUFFICES ASSUME HTTPInv, [Next]_vars PROVE HTTPInv'
  OBVIOUS
<1>1. ASSUME NEW c \in Conn, Handle(c) PROVE HTTPInv'
  BY <1>1, ReadHeadInv, ReadBodyInv, StrayInv, MovesInv, AnswerInv, LoseInv DEF Handle
<1>2. ASSUME NEW c \in Conn, Accept(c) \/ Connect(c) PROVE HTTPInv'
  BY <1>2, MovesInv
<1>3. CASE UNCHANGED vars
  <2>1. \A c \in Conn : ConnInv(c)'
    BY <1>3, SameInv DEF HTTPInv, vars, traffic, Same
  <2> QED
    BY <1>3, <2>1 DEF HTTPInv, TypeOK, NamedInv, vars, server, traffic, Threads
<1> QED
  BY <1>1, <1>2, <1>3, ServerInv, SendInv, SendBodyInv, HangUpInv DEF Next

\* Every reachable state satisfies the inductive invariant.
THEOREM HTTPInvariant == Spec => []HTTPInv
BY HTTPInitInv, HTTPNextInv, PTL DEF Spec

\* Server, threads and wire are always well typed (broker.py:219-321).
THEOREM HTTPTypeCorrect == Spec => []TypeOK
<1>1. HTTPInv => TypeOK
  BY DEF HTTPInv
<1> QED
  BY <1>1, HTTPInvariant, PTL

\* On a kept-open connection answers come in the order of the requests, unless
\* their client sent a body that is a request where nobody reads one, and a body
\* is read for the request it was sent with (broker.py:287-314).
THEOREM AnswersStayInPlace == Spec => []AnswersInPlace
<1>1. ASSUME HTTPInv, NEW c \in Conn, NEW n \in DOMAIN answers[c], answers[c][n] # n
      PROVE  misled(c, n)
  <2>1. Strayed(c)
    BY <1>1, ConnFacts DEF ConnInv, Straight
  <2>2. PICK m \in 1 .. Len(answers[c]) :
          /\ m <= Len(asked[c]) /\ misleading(asked[c][m])
          /\ \A k \in 1 .. m : answers[c][k] = k
    BY <2>1 DEF Strayed
  <2>3. n \in Nat /\ n \notin 1 .. m /\ n >= 1
    BY <1>1, <2>2, ConnFacts
  <2>4. m \in DOMAIN asked[c] /\ m < n
    BY <2>2, <2>3, ConnFacts
  <2> QED
    BY <2>2, <2>4 DEF misled
<1>2. ASSUME HTTPInv, NEW c \in Conn, stage[c] = "reading", current[c] # 0, unread[c] # <<>>
      PROVE  Head(unread[c]) = Part(current[c], "body")
  BY <1>2, ConnFacts DEF ConnInv, ReadingInv
<1>3. HTTPInv => AnswersInPlace
  BY <1>1, <1>2 DEF AnswersInPlace
<1> QED
  BY <1>3, HTTPInvariant, PTL

\* Every decision is taken under the policy the last startup line names
\* (broker.py:423-433).
THEOREM DecidesUnderPolicyNamed == Spec => []DecidedUnderPolicyNamed
<1>1. HTTPInv => DecidedUnderPolicyNamed
  BY DEF HTTPInv, TypeOK, NamedInv, DecidedUnderPolicyNamed
<1> QED
  BY <1>1, HTTPInvariant, PTL
=============================================================================
