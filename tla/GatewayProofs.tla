---------------------------- MODULE GatewayProofs ----------------------------
(***************************************************************************)
(* Proofs about Gateway, for any number of callers, connections and        *)
(* operations and any policies: each operation holds the token of its own  *)
(* request, as allowed and logged, and git-app's file does not outlive it. *)
(***************************************************************************)
EXTENDS Gateway, PolicyLemmas

\* What is left of a course asks for one token at most.
MintsOnce(steps) ==
  \A i, j \in DOMAIN steps : steps[i] = "mint" /\ steps[j] = "mint" => i = j

\* A step that hands the token on comes after the mint, unless one is held.
UsesLater(steps, held) ==
  \A j \in DOMAIN steps :
    steps[j] \in Spend => held \/ \E i \in 1 .. j - 1 : steps[i] = "mint"

\* After the askpass file is written come git and its removal, and no more.
RemovesLast(steps) ==
  \A i \in DOMAIN steps : steps[i] = "write" =>
    /\ steps[Len(steps)] = "remove"
    /\ \A j \in DOMAIN steps : j > i => steps[j] \in {"run", "remove"}

\* The steps left of k's operation fit the token it holds and its file.
CourseInv(k) ==
  /\ UsesLater(todo[k], token[k] # NoToken)
  /\ RemovesLast(todo[k])
  /\ backend # "local" =>
       /\ MintsOnce(todo[k])
       /\ token[k] # NoToken => \A i \in DOMAIN todo[k] : todo[k][i] # "mint"
  /\ askpass[k] # NoToken =>
       /\ todo[k] # <<>> /\ todo[k][Len(todo[k])] = "remove"
       /\ \A i \in DOMAIN todo[k] : todo[k][i] \in {"run", "remove"}
       /\ askpass[k] = token[k]

\* While k waits its connection is its own, and carries its own question, asked
\* under the policy in force, until the broker lets go of it.
WaitInv(k) ==
  conn[k] # NoConn =>
    LET c == conn[k] IN
    /\ At(k, "mint") /\ backend # "local"
    /\ \A j \in Caller \ {k} : conn[j] # c
    /\ session[c] \in {"asked", "granted", "refused"} =>
         /\ question[c] = [repo |-> op[k].repo, permissions |-> op[k].permissions]
         /\ posted[k] = policy
    /\ session[c] = "granted" =>
         /\ evaluate(policy, op[k].repo, op[k].permissions).allowed
         /\ issued(question[c]) \in logged

\* The token k holds is the one its own operation asked for.
TokenInv(k) ==
  /\ token[k] # NoToken =>
       /\ op[k] # NoOperation
       /\ token[k].repo = op[k].repo
       /\ op[k].permissions # NoPerms => token[k].permissions = op[k].permissions
       /\ backend # "local" =>
            LET verdict == evaluate(posted[k], op[k].repo, op[k].permissions) IN
            /\ token[k] \in logged
            /\ verdict.allowed
            /\ verdict.granted # NoPerms => token[k].permissions = verdict.granted
  /\ op[k] = NoOperation => todo[k] = <<>>

CallerInv(k) == CourseInv(k) /\ WaitInv(k) /\ TokenInv(k)

GatewayInv == TypeOK /\ \A k \in Caller : CallerInv(k)

-----------------------------------------------------------------------------
\* Facts about courses.

LEMMA TailSteps ==
  ASSUME NEW t \in Seq(Step), t # <<>>
  PROVE  /\ Tail(t) \in Seq(Step) /\ Len(t) \in Nat /\ Len(t) >= 1
         /\ DOMAIN t = 1 .. Len(t) /\ DOMAIN Tail(t) = 1 .. Len(t) - 1
         /\ Len(Tail(t)) = Len(t) - 1
         /\ \A i \in 1 .. Len(t) - 1 : Tail(t)[i] = t[i + 1] /\ i + 1 \in DOMAIN t
         /\ Head(t) = t[1] /\ 1 \in DOMAIN t
         /\ Len(t) # 1 => Tail(t) # <<>> /\ Tail(t)[Len(t) - 1] = t[Len(t)]
<1>1. Len(t) \in Nat /\ Len(t) >= 1 /\ DOMAIN t = 1 .. Len(t) /\ Head(t) = t[1]
  OBVIOUS
<1>2. Tail(t) \in Seq(Step) /\ Len(Tail(t)) = Len(t) - 1
  OBVIOUS
<1>3. DOMAIN Tail(t) = 1 .. Len(t) - 1
  BY <1>2
<1>4. \A i \in 1 .. Len(t) - 1 : Tail(t)[i] = t[i + 1]
  OBVIOUS
<1>5. Len(t) # 1 => Tail(t) # <<>>
  <2>1. Len(<<>>) = 0
    OBVIOUS
  <2> QED
    BY <1>1, <1>2, <2>1
<1>6. Len(t) # 1 => Tail(t)[Len(t) - 1] = t[Len(t)]
  BY <1>1, <1>4
<1> QED
  BY <1>1, <1>2, <1>3, <1>4, <1>5, <1>6

\* Doing a step keeps a course in shape.
LEMMA TailInShape ==
  ASSUME NEW t \in Seq(Step), t # <<>>, RemovesLast(t)
  PROVE  /\ RemovesLast(Tail(t))
         /\ MintsOnce(t) => MintsOnce(Tail(t))
         /\ MintsOnce(t) /\ t[1] = "mint" => \A i \in DOMAIN Tail(t) : Tail(t)[i] # "mint"
         /\ \A held \in BOOLEAN :
              UsesLater(t, held) /\ t[1] # "mint" => UsesLater(Tail(t), held)
<1> DEFINE u == Tail(t)
<1>1. /\ Len(t) \in Nat /\ Len(t) >= 1
      /\ DOMAIN t = 1 .. Len(t) /\ DOMAIN u = 1 .. Len(t) - 1 /\ Len(u) = Len(t) - 1
      /\ \A i \in 1 .. Len(t) - 1 : u[i] = t[i + 1] /\ i + 1 \in DOMAIN t
      /\ 1 \in DOMAIN t
      /\ Len(t) # 1 => u[Len(t) - 1] = t[Len(t)]
  BY TailSteps
<1> HIDE DEF u
<1>2. RemovesLast(u)
  <2> SUFFICES ASSUME NEW i \in DOMAIN u, u[i] = "write"
               PROVE  /\ u[Len(u)] = "remove"
                      /\ \A j \in DOMAIN u : j > i => u[j] \in {"run", "remove"}
    BY DEF RemovesLast
  <2>1. t[i + 1] = "write" /\ i + 1 \in DOMAIN t
    BY <1>1
  <2>2. /\ t[Len(t)] = "remove"
        /\ \A j \in DOMAIN t : j > i + 1 => t[j] \in {"run", "remove"}
    BY <2>1 DEF RemovesLast
  <2> QED
    BY <1>1, <2>2
<1>3. MintsOnce(t) => MintsOnce(u)
  <2> SUFFICES ASSUME MintsOnce(t),
                      NEW i \in DOMAIN u, NEW j \in DOMAIN u, u[i] = "mint", u[j] = "mint"
               PROVE  i = j
    BY DEF MintsOnce
  <2>1. i + 1 = j + 1
    BY <1>1 DEF MintsOnce
  <2> QED
    BY <1>1, <2>1
<1>4. MintsOnce(t) /\ t[1] = "mint" => \A i \in DOMAIN u : u[i] # "mint"
  BY <1>1 DEF MintsOnce
<1>5. ASSUME NEW held \in BOOLEAN, UsesLater(t, held), t[1] # "mint"
      PROVE  UsesLater(u, held)
  <2> SUFFICES ASSUME NEW j \in DOMAIN u, u[j] \in Spend, ~ held
               PROVE  \E i \in 1 .. j - 1 : u[i] = "mint"
    BY DEF UsesLater
  <2>1. PICK i \in 1 .. j : t[i] = "mint"
    BY <1>1, <1>5 DEF UsesLater
  <2>2. i - 1 \in 1 .. j - 1 /\ u[i - 1] = "mint"
    BY <1>1, <1>5, <2>1
  <2> QED
    BY <2>2
<1> QED
  BY <1>2, <1>3, <1>4, <1>5 DEF u

\* A course that starts with no token and no file.
Shaped(steps) ==
  /\ steps \in Seq(Step)
  /\ UsesLater(steps, FALSE)
  /\ RemovesLast(steps)
  /\ backend # "local" => MintsOnce(steps)

LEMMA ScriptInShape ==
  ASSUME NEW kind \in Kind
  PROVE  Shaped(script(kind))
<1>1. ASSUME NEW s, s = <<"open", "mint", "use">>
      PROVE  Shaped(s)
  <2>1. /\ s \in Seq(Step) /\ DOMAIN s = 1 .. 3 /\ Len(s) = 3
        /\ s[1] = "open" /\ s[2] = "mint" /\ s[3] = "use"
    BY <1>1 DEF Step
  <2> QED
    BY <2>1 DEF Shaped, UsesLater, RemovesLast, MintsOnce, Spend
<1>2. ASSUME NEW s, s = <<"open", "mint", "write", "run", "remove">>
      PROVE  Shaped(s)
  <2>1. /\ s \in Seq(Step) /\ DOMAIN s = 1 .. 5 /\ Len(s) = 5
        /\ s[1] = "open" /\ s[2] = "mint" /\ s[3] = "write"
        /\ s[4] = "run" /\ s[5] = "remove"
    BY <1>2 DEF Step
  <2> QED
    BY <2>1 DEF Shaped, UsesLater, RemovesLast, MintsOnce, Spend
<1>3. ASSUME NEW s, s = <<"open", "describe", "mint", "use">>
      PROVE  Shaped(s)
  <2>1. /\ s \in Seq(Step) /\ DOMAIN s = 1 .. 4 /\ Len(s) = 4
        /\ s[1] = "open" /\ s[2] = "describe" /\ s[3] = "mint" /\ s[4] = "use"
    BY <1>3 DEF Step
  <2> QED
    BY <2>1 DEF Shaped, UsesLater, RemovesLast, MintsOnce, Spend
<1>4. ASSUME NEW s, s = <<"refuse">>
      PROVE  Shaped(s)
  <2>1. /\ s \in Seq(Step) /\ DOMAIN s = 1 .. 1 /\ Len(s) = 1
        /\ s[1] = "refuse"
    BY <1>4 DEF Step
  <2> QED
    BY <2>1 DEF Shaped, UsesLater, RemovesLast, MintsOnce, Spend
<1>5. ASSUME NEW s, s = <<"load", "app_call">>
      PROVE  Shaped(s)
  <2>1. /\ s \in Seq(Step) /\ DOMAIN s = 1 .. 2 /\ Len(s) = 2
        /\ s[1] = "load" /\ s[2] = "app_call"
    BY <1>5 DEF Step
  <2> QED
    BY <2>1 DEF Shaped, UsesLater, RemovesLast, MintsOnce, Spend
<1>6. ASSUME NEW s, s = <<"open", "describe", "open", "describe", "mint", "use">>
      PROVE  Shaped(s)
  <2>1. /\ s \in Seq(Step) /\ DOMAIN s = 1 .. 6 /\ Len(s) = 6
        /\ s[1] = "open" /\ s[2] = "describe" /\ s[3] = "open" /\ s[4] = "describe"
        /\ s[5] = "mint" /\ s[6] = "use"
    BY <1>6 DEF Step
  <2> QED
    BY <2>1 DEF Shaped, UsesLater, RemovesLast, MintsOnce, Spend
<1>7. ASSUME NEW s, s = <<"open", "describe", "load", "app_call",
                        "open", "describe", "mint", "use">>
      PROVE  Shaped(s)
  <2>1. /\ s \in Seq(Step) /\ DOMAIN s = 1 .. 8 /\ Len(s) = 8
        /\ s[1] = "open" /\ s[2] = "describe" /\ s[3] = "load" /\ s[4] = "app_call" /\ s[5] = "open"
        /\ s[6] = "describe" /\ s[7] = "mint" /\ s[8] = "use"
    BY <1>7 DEF Step
  <2> QED
    BY <2>1 DEF Shaped, UsesLater, RemovesLast, MintsOnce, Spend
<1>8. ASSUME NEW s, s = <<"load", "app_call", "mint", "mint", "use">>, backend = "local"
      PROVE  Shaped(s)
  <2>1. /\ s \in Seq(Step) /\ DOMAIN s = 1 .. 5 /\ Len(s) = 5
        /\ s[1] = "load" /\ s[2] = "app_call" /\ s[3] = "mint"
        /\ s[4] = "mint" /\ s[5] = "use"
    BY <1>8 DEF Step
  <2> QED
    BY <2>1, <1>8 DEF Shaped, UsesLater, RemovesLast, MintsOnce, Spend
<1>9. ASSUME NEW s, s = <<"open", "describe", "mint">>
      PROVE  Shaped(s)
  <2>1. /\ s \in Seq(Step) /\ DOMAIN s = 1 .. 3 /\ Len(s) = 3
        /\ s[1] = "open" /\ s[2] = "describe" /\ s[3] = "mint"
    BY <1>9 DEF Step
  <2> QED
    BY <2>1 DEF Shaped, UsesLater, RemovesLast, MintsOnce, Spend
<1>10. ASSUME NEW s, s = <<"open", "mint", "child">>
      PROVE  Shaped(s)
  <2>1. /\ s \in Seq(Step) /\ DOMAIN s = 1 .. 3 /\ Len(s) = 3
        /\ s[1] = "open" /\ s[2] = "mint" /\ s[3] = "child"
    BY <1>10 DEF Step
  <2> QED
    BY <2>1 DEF Shaped, UsesLater, RemovesLast, MintsOnce, Spend
<1>11. Shaped(verify)
  BY <1>6, <1>7 DEF verify
<1>12. Shaped(with_token) /\ Shaped(gh_app) /\ Shaped(git_app) /\ Shaped(through_api)
  BY <1>1, <1>2, <1>3, <1>10 DEF with_token, gh_app, git_app, through_api
<1>13. \A refused \in BOOLEAN : Shaped(as_app(refused))
  BY <1>4, <1>5 DEF as_app
<1>14. Shaped(doctor)
  BY <1>8, <1>9 DEF doctor
<1> QED
  BY <1>11, <1>12, <1>13, <1>14 DEF script, Kind

LEMMA UseFirst ==
  ASSUME NEW t \in Seq(Step), t # <<>>, Head(t) \in Spend,
         NEW held \in BOOLEAN, UsesLater(t, held)
  PROVE  held
<1>1. 1 \in DOMAIN t /\ t[1] \in Spend /\ 1 .. 1 - 1 = {}
  BY TailSteps
<1> QED
  BY <1>1 DEF UsesLater

\* What a failure leaves of a course.
LEMMA ShortInShape ==
  ASSUME NEW t, t \in {<<>>, <<"remove">>}, NEW held
  PROVE  /\ t \in Seq(Step)
         /\ UsesLater(t, held) /\ RemovesLast(t) /\ MintsOnce(t)
         /\ \A i \in DOMAIN t : t[i] = "remove"
<1>1. /\ t \in Seq(Step) /\ DOMAIN t \subseteq {1}
      /\ \A i \in DOMAIN t : t[i] = "remove"
  <2>1. CASE t = <<>>
    BY <2>1
  <2>2. CASE t = <<"remove">>
    BY <2>2 DEF Step
  <2> QED
    BY <2>1, <2>2
<1> QED
  BY <1>1 DEF UsesLater, RemovesLast, MintsOnce, Spend

-----------------------------------------------------------------------------
\* What the broker grants.
LEMMA IssuedType ==
  ASSUME TypeOK, NEW c \in Conn
  PROVE  issued(question[c]) \in TokenScope
<1>1. /\ policy \in PolicyRecord
      /\ question[c].repo \in Repo /\ question[c].permissions \in PermMap(AskLevel)
  BY GatewayAssumption DEF TypeOK, Question
<1>2. evaluate(policy, question[c].repo, question[c].permissions).granted
        \in PermMap(AskLevel)
  BY <1>1, EvaluateWithinCeiling DEF Verdict
<1> QED
  BY <1>1, <1>2, GatewayAssumption DEF issued, TokenScope

LEMMA IssuedAsAsked ==
  ASSUME NEW r, NEW asked,
         evaluate(policy, r, asked).allowed
  PROVE  LET t == issued([repo |-> r, permissions |-> asked])
             granted == evaluate(policy, r, asked).granted
         IN  /\ t.repo = r
             /\ asked # NoPerms => t.permissions = asked
             /\ granted # NoPerms => t.permissions = granted
<1>1. asked # NoPerms => evaluate(policy, r, asked).granted = asked
  BY DEF evaluate, judge, Denied
<1> QED
  BY <1>1 DEF issued

-----------------------------------------------------------------------------
\* One caller's course, as its own steps change it.

LEMMA CourseDone ==
  ASSUME TypeOK, NEW k \in Caller, CourseInv(k), UNCHANGED env, Working(k),
         todo'[k] = Tail(todo[k]),
         Head(todo[k]) = "mint" => token'[k] # NoToken,
         Head(todo[k]) # "mint" => token'[k] = token[k],
         askpass'[k] = IF Head(todo[k]) = "write" THEN token[k]
                       ELSE IF Head(todo[k]) = "remove" THEN NoToken
                       ELSE askpass[k]
  PROVE  CourseInv(k)'
<1> DEFINE t == todo[k]
           u == Tail(t)
<1>1. /\ t \in Seq(Step) /\ t # <<>> /\ Head(t) = t[1]
      /\ backend' = backend
  BY TailSteps DEF TypeOK, Working, backend
<1>2. /\ Len(t) \in Nat /\ DOMAIN t = 1 .. Len(t) /\ DOMAIN u = 1 .. Len(t) - 1
      /\ Len(u) = Len(t) - 1 /\ 1 \in DOMAIN t
      /\ \A i \in 1 .. Len(t) - 1 : u[i] = t[i + 1] /\ i + 1 \in DOMAIN t
      /\ Len(t) # 1 => u # <<>> /\ u[Len(u)] = t[Len(t)]
  BY <1>1, TailSteps
<1>3. /\ RemovesLast(t) /\ RemovesLast(u)
      /\ MintsOnce(t) => MintsOnce(u)
      /\ MintsOnce(t) /\ t[1] = "mint" => \A i \in DOMAIN u : u[i] # "mint"
      /\ t[1] # "mint" => UsesLater(u, token[k] # NoToken)
  BY <1>1, TailInShape DEF CourseInv
<1> HIDE DEF u, t
<1>4. UsesLater(u, token'[k] # NoToken)
  BY <1>1, <1>3 DEF UsesLater, t
<1>5. backend # "local" =>
        /\ MintsOnce(u)
        /\ token'[k] # NoToken => \A i \in DOMAIN u : u[i] # "mint"
  BY <1>1, <1>2, <1>3 DEF CourseInv, t
<1>6. ASSUME askpass'[k] # NoToken
      PROVE  /\ u # <<>> /\ u[Len(u)] = "remove"
             /\ \A i \in DOMAIN u : u[i] \in {"run", "remove"}
             /\ askpass'[k] = token'[k]
  <2>1. CASE t[1] = "write"
    <3>1. t[Len(t)] = "remove" /\ \A j \in DOMAIN t : j > 1 => t[j] \in {"run", "remove"}
      BY <1>2, <1>3, <2>1 DEF RemovesLast
    <3>2. Len(t) # 1
      BY <2>1, <3>1
    <3>3. u # <<>> /\ u[Len(u)] = "remove"
      BY <1>2, <3>1, <3>2
    <3>4. \A i \in DOMAIN u : u[i] \in {"run", "remove"}
      BY <1>2, <3>1
    <3>5. askpass'[k] = token'[k]
      BY <1>1, <2>1 DEF t
    <3> QED
      BY <3>3, <3>4, <3>5
  <2>2. CASE t[1] # "write"
    <3>1. /\ t[1] # "remove" /\ askpass'[k] = askpass[k]
      BY <1>1, <1>6, <2>2 DEF t
    <3>2. /\ t[Len(t)] = "remove"
          /\ \A i \in DOMAIN t : t[i] \in {"run", "remove"}
          /\ askpass[k] = token[k]
      BY <1>6, <3>1 DEF CourseInv, t
    <3> QED
      BY <1>1, <1>2, <3>1, <3>2 DEF t
  <2> QED
    BY <2>1, <2>2
<1> QED
  BY <1>1, <1>3, <1>4, <1>5, <1>6 DEF CourseInv, u, t

LEMMA CourseFails ==
  ASSUME TypeOK, NEW k \in Caller, CourseInv(k), UNCHANGED env, Working(k), ~ At(k, "remove"),
         todo'[k] = IF Head(todo[k]) \in {"write", "run"} THEN <<"remove">> ELSE <<>>,
         token'[k] = token[k], askpass'[k] = askpass[k]
  PROVE  CourseInv(k)'
<1>1. Head(todo[k]) # "remove" /\ Head(todo[k]) = todo[k][1] /\ 1 \in DOMAIN todo[k]
  BY TailSteps DEF TypeOK, At, Working
<1>2. askpass[k] # NoToken => todo'[k] = <<"remove">> /\ askpass[k] = token[k]
  BY <1>1 DEF CourseInv
<1>3. /\ UsesLater(todo'[k], token[k] # NoToken) /\ RemovesLast(todo'[k])
      /\ MintsOnce(todo'[k])
      /\ \A i \in DOMAIN todo'[k] : todo'[k][i] = "remove"
  BY ShortInShape
<1>4. <<"remove">> # <<>> /\ <<"remove">>[Len(<<"remove">>)] = "remove"
  OBVIOUS
<1> QED
  BY <1>2, <1>3, <1>4 DEF CourseInv

LEMMA CourseEmpty ==
  ASSUME NEW k \in Caller, todo'[k] = <<>>, token'[k] = NoToken, askpass'[k] = NoToken
  PROVE  CourseInv(k)'
BY ShortInShape DEF CourseInv

-----------------------------------------------------------------------------
\* A step that leaves the client's state, and its connection, as they are.
LEMMA Untouched ==
  ASSUME GatewayInv, NEW k \in Caller, UNCHANGED env,
         op'[k] = op[k], todo'[k] = todo[k], conn'[k] = conn[k], token'[k] = token[k],
         posted'[k] = posted[k], askpass'[k] = askpass[k],
         logged \subseteq logged',
         conn[k] # NoConn =>
           /\ \A j \in Caller \ {k} : conn'[j] # conn[k]
           /\ session'[conn[k]] \in {"asked", "granted", "refused"} =>
                /\ session'[conn[k]] = session[conn[k]]
                /\ question'[conn[k]] = question[conn[k]]
                /\ policy' = policy
  PROVE  CallerInv(k)'
<1>1. CallerInv(k) /\ backend' = backend
  BY DEF GatewayInv, backend
<1>2. CourseInv(k)'
  BY <1>1 DEF CallerInv, CourseInv
<1>3. TokenInv(k)'
  BY <1>1 DEF CallerInv, TokenInv
<1>4. WaitInv(k)'
  <2> SUFFICES ASSUME conn[k] # NoConn PROVE WaitInv(k)'
    BY DEF WaitInv
  <2>1. /\ At(k, "mint")' /\ backend' # "local"
        /\ \A j \in Caller \ {k} : conn'[j] # conn'[k]
    BY <1>1 DEF CallerInv, WaitInv, At, Working
  <2>2. ASSUME session'[conn[k]] \in {"asked", "granted", "refused"}
        PROVE  /\ question'[conn[k]] = [repo |-> op[k].repo, permissions |-> op[k].permissions]
               /\ posted'[k] = policy'
               /\ session'[conn[k]] = "granted" =>
                    /\ evaluate(policy', op[k].repo, op[k].permissions).allowed
                    /\ issued(question[conn[k]])' \in logged'
    <3>1. /\ session'[conn[k]] = session[conn[k]]
          /\ question'[conn[k]] = question[conn[k]]
          /\ policy' = policy
      BY <2>2
    <3>2. issued(question[conn[k]])' = issued(question[conn[k]])
      BY <3>1 DEF issued
    <3> QED
      BY <1>1, <2>2, <3>1, <3>2 DEF CallerInv, WaitInv
  <2> QED
    BY <2>1, <2>2 DEF WaitInv, issued
<1> QED
  BY <1>2, <1>3, <1>4 DEF CallerInv

\* A step of k that leaves the broker alone and lets go of no other's connection.
LEMMA OthersUntouched ==
  ASSUME GatewayInv, NEW k \in Caller, NEW j \in Caller \ {k},
         UNCHANGED <<service, env>>,
         op'[j] = op[j], todo'[j] = todo[j], token'[j] = token[j],
         posted'[j] = posted[j], askpass'[j] = askpass[j],
         conn' = conn \/ conn' = [conn EXCEPT ![k] = NoConn]
  PROVE  CallerInv(j)'
<1>1. /\ conn'[j] = conn[j]
      /\ \A i \in Caller : conn'[i] \in {conn[i], NoConn}
  BY DEF GatewayInv, TypeOK
<1>2. conn[j] # NoConn => \A i \in Caller \ {j} : conn[i] # conn[j]
  BY DEF GatewayInv, CallerInv, WaitInv
<1>3. conn[j] # NoConn => \A i \in Caller \ {j} : conn'[i] # conn[j]
  BY <1>1, <1>2
<1>4. logged' = logged /\ session' = session /\ question' = question /\ policy' = policy
  BY DEF service
<1> QED
  BY <1>1, <1>3, <1>4, Untouched

-----------------------------------------------------------------------------
\* Types, and what a step of one caller alone leaves of the rest.

\* TypeOK but for its last conjunct, which follows from the courses.
Types ==
  /\ policy \in Policies
  /\ session \in [Conn -> {"free", "asked", "granted", "refused", "over"}]
  /\ question \in [Conn -> Question]
  /\ logged \subseteq TokenScope
  /\ env \in Environments
  /\ op \in [Caller -> Operation \cup {NoOperation}]
  /\ \A k \in Caller : op[k] \in Operations[k] \cup {NoOperation}
  /\ todo \in [Caller -> Seq(Step)]
  /\ result \in [Caller -> {"none", "ok", "error"}]
  /\ conn \in [Caller -> Conn \cup {NoConn}]
  /\ token \in [Caller -> TokenScope \cup {NoToken}]
  /\ loaded \in [Caller -> BOOLEAN]
  /\ posted \in [Caller -> Policies]
  /\ askpass \in [Caller -> TokenScope \cup {NoToken}]
  /\ left \in BOOLEAN

LEMMA TypesSuffice ==
  ASSUME Types', \A k \in Caller : CourseInv(k)'
  PROVE  TypeOK'
<1>1. ASSUME NEW k \in Caller, (Working(k) /\ Head(todo[k]) \in Spend)'
      PROVE  token'[k] # NoToken
  <2>1. todo'[k] \in Seq(Step) /\ todo'[k] # <<>> /\ Head(todo'[k]) \in Spend
    BY <1>1 DEF Types, Working
  <2>2. UsesLater(todo'[k], token'[k] # NoToken)
    BY DEF CourseInv
  <2> QED
    BY <2>1, <2>2, UseFirst
<1> QED
  BY <1>1 DEF Types, TypeOK, Working

\* Nothing but k's own state, and the wait of k, changes.
AloneStep(k) ==
  /\ UNCHANGED <<service, env>>
  /\ \A j \in Caller \ {k} :
       /\ op'[j] = op[j] /\ todo'[j] = todo[j] /\ token'[j] = token[j]
       /\ posted'[j] = posted[j] /\ askpass'[j] = askpass[j]
  /\ conn' = conn \/ conn' = [conn EXCEPT ![k] = NoConn]

LEMMA AloneSuffices ==
  ASSUME GatewayInv, NEW k \in Caller, AloneStep(k), Types', CallerInv(k)'
  PROVE  GatewayInv'
<1>1. \A j \in Caller : CallerInv(j)'
  <2> SUFFICES ASSUME NEW j \in Caller, j # k PROVE CallerInv(j)'
    OBVIOUS
  <2> QED
    BY OthersUntouched DEF AloneStep
<1> QED
  BY <1>1, TypesSuffice DEF GatewayInv, CallerInv

LEMMA StepsTyped ==
  ASSUME Types, NEW k \in Caller, Working(k), Done(k) \/ Fails(k)
  PROVE  /\ todo' \in [Caller -> Seq(Step)]
         /\ result' \in [Caller -> {"none", "ok", "error"}]
         /\ \A j \in Caller \ {k} : todo'[j] = todo[j]
<1>1. todo[k] \in Seq(Step) /\ todo[k] # <<>>
  BY DEF Types, Working
<1>2. Tail(todo[k]) \in Seq(Step) /\ <<>> \in Seq(Step) /\ <<"remove">> \in Seq(Step)
  BY <1>1, TailSteps DEF Step
<1>3. CASE Done(k)
  BY <1>2, <1>3 DEF Types, Done
<1>4. CASE Fails(k)
  BY <1>2, <1>4 DEF Types, Fails
<1> QED
  BY <1>3, <1>4

-----------------------------------------------------------------------------
\* The steps of an operation preserve the invariant.

\* A caller waits at its mint only, and never with a local backend.
LEMMA WaitsAtMint ==
  ASSUME GatewayInv, NEW k \in Caller, ~ At(k, "mint") \/ backend = "local"
  PROVE  conn[k] = NoConn
BY DEF GatewayInv, CallerInv, WaitInv

\* A step that is done and brings no token.
LEMMA DoneStep ==
  ASSUME GatewayInv, NEW k \in Caller, Working(k), ~ At(k, "mint"), Done(k),
         UNCHANGED <<service, env, op, conn, token, posted, left>>,
         loaded' \in [Caller -> BOOLEAN],
         askpass' = [askpass EXCEPT ![k] =
                       IF Head(todo[k]) = "write" THEN token[k]
                       ELSE IF Head(todo[k]) = "remove" THEN NoToken
                       ELSE askpass[k]]
  PROVE  GatewayInv'
<1>1. Types /\ TypeOK /\ CallerInv(k)
  BY DEF GatewayInv, TypeOK, Types
<1>2. conn[k] = NoConn
  BY WaitsAtMint
<1>3. /\ todo' \in [Caller -> Seq(Step)] /\ result' \in [Caller -> {"none", "ok", "error"}]
      /\ \A j \in Caller \ {k} : todo'[j] = todo[j]
  BY <1>1, StepsTyped
<1>4. /\ askpass' \in [Caller -> TokenScope \cup {NoToken}]
      /\ \A j \in Caller \ {k} : askpass'[j] = askpass[j]
      /\ askpass'[k] = IF Head(todo[k]) = "write" THEN token[k]
                       ELSE IF Head(todo[k]) = "remove" THEN NoToken
                       ELSE askpass[k]
  BY <1>1 DEF Types
<1>5. Types'
  BY <1>1, <1>3, <1>4 DEF Types, service
<1>6. AloneStep(k)
  BY <1>3, <1>4 DEF AloneStep
<1>7. todo'[k] = Tail(todo[k]) /\ Head(todo[k]) # "mint"
  BY <1>1 DEF Done, Types, At
<1>8. CourseInv(k)'
  BY <1>1, <1>4, <1>7, CourseDone DEF CallerInv
<1>9. WaitInv(k)'
  BY <1>2 DEF WaitInv
<1>10. TokenInv(k)'
  BY <1>1 DEF CallerInv, TokenInv, Working, backend, service
<1> QED
  BY <1>5, <1>6, <1>8, <1>9, <1>10, AloneSuffices DEF CallerInv

\* The operation fails: it keeps its token, and its file until it is removed.
LEMMA FailsStep ==
  ASSUME GatewayInv, NEW k \in Caller, Working(k), ~ At(k, "remove"), Fails(k),
         UNCHANGED <<service, env, op, token, posted, disk>>,
         loaded' \in [Caller -> BOOLEAN],
         conn' = [conn EXCEPT ![k] = NoConn]
  PROVE  GatewayInv'
<1>1. Types /\ TypeOK /\ CallerInv(k)
  BY DEF GatewayInv, TypeOK, Types
<1>2. /\ todo' \in [Caller -> Seq(Step)] /\ result' \in [Caller -> {"none", "ok", "error"}]
      /\ \A j \in Caller \ {k} : todo'[j] = todo[j]
  BY <1>1, StepsTyped
<1>3. conn' \in [Caller -> Conn \cup {NoConn}] /\ conn'[k] = NoConn
  BY <1>1 DEF Types
<1>4. Types'
  BY <1>1, <1>2, <1>3 DEF Types, service, disk
<1>5. AloneStep(k)
  BY <1>2 DEF AloneStep, disk
<1>6. todo'[k] = IF Head(todo[k]) \in {"write", "run"} THEN <<"remove">> ELSE <<>>
  BY <1>1 DEF Fails, Types
<1>7. CourseInv(k)'
  BY <1>1, <1>6, CourseFails DEF CallerInv, disk
<1>8. WaitInv(k)'
  BY <1>3 DEF WaitInv
<1>9. TokenInv(k)'
  BY <1>1 DEF CallerInv, TokenInv, Working, backend, service
<1> QED
  BY <1>4, <1>5, <1>7, <1>8, <1>9, AloneSuffices DEF CallerInv

LEMMA CallStep ==
  ASSUME GatewayInv, NEW k \in Caller, NEW o \in Operations[k], Call(k, o)
  PROVE  GatewayInv'
<1>1. Types /\ CallerInv(k) /\ op[k] = NoOperation
  BY DEF GatewayInv, TypeOK, Types, Call
<1>2. /\ todo[k] = <<>> /\ token[k] = NoToken /\ askpass[k] = NoToken /\ conn[k] = NoConn
  BY <1>1 DEF CallerInv, TokenInv, CourseInv, WaitInv, At, Working
<1>3. o \in Operation /\ o.kind \in Kind /\ o # NoOperation
  BY GatewayAssumption DEF Operation
<1>4. /\ Shaped(script(o.kind)) /\ backend' = backend
      /\ op' = [op EXCEPT ![k] = o] /\ todo' = [todo EXCEPT ![k] = script(o.kind)]
      /\ UNCHANGED <<service, env, disk, result, conn, token, loaded, posted>>
  BY <1>3, ScriptInShape DEF Call, backend
<1> HIDE DEF script
<1>5. Types'
  BY <1>1, <1>3, <1>4 DEF Types, service, disk, Shaped
<1>6. AloneStep(k) /\ op'[k] = o /\ todo'[k] = script(o.kind)
  <2>1. /\ op'[k] = o /\ todo'[k] = script(o.kind)
        /\ \A j \in Caller \ {k} : op'[j] = op[j] /\ todo'[j] = todo[j]
    BY <1>1, <1>4 DEF Types
  <2> QED
    BY <1>4, <2>1 DEF AloneStep, disk
<1>7. CourseInv(k)'
  BY <1>2, <1>4, <1>6 DEF CourseInv, Shaped, disk
<1>8. WaitInv(k)' /\ TokenInv(k)'
  BY <1>2, <1>3, <1>4, <1>6 DEF WaitInv, TokenInv
<1> QED
  BY <1>5, <1>6, <1>7, <1>8, AloneSuffices DEF CallerInv

\* The caller forgets its operation, and its file is gone with it.
LEMMA ForgetStep ==
  ASSUME GatewayInv, NEW k \in Caller, Forget(k), UNCHANGED <<service, env>>,
         conn' = [conn EXCEPT ![k] = NoConn], askpass' = [askpass EXCEPT ![k] = NoToken],
         left' \in BOOLEAN
  PROVE  GatewayInv'
<1>1. Types
  BY DEF GatewayInv, TypeOK, Types
<1>2. AnyPolicy \in Policies
  BY GatewayAssumption DEF AnyPolicy
<1>3. /\ op'[k] = NoOperation /\ todo'[k] = <<>> /\ token'[k] = NoToken
      /\ conn'[k] = NoConn /\ askpass'[k] = NoToken
  BY <1>1 DEF Types, Forget
<1>4. Types'
  BY <1>1, <1>2 DEF Types, Forget, service
<1>5. AloneStep(k)
  BY <1>1 DEF AloneStep, Forget, Types
<1>6. CourseInv(k)'
  BY <1>3, CourseEmpty
<1>7. WaitInv(k)' /\ TokenInv(k)'
  BY <1>3 DEF WaitInv, TokenInv
<1> QED
  BY <1>4, <1>5, <1>6, <1>7, AloneSuffices DEF CallerInv

LEMMA MintLocalStep ==
  ASSUME GatewayInv, NEW k \in Caller, MintLocal(k)
  PROVE  GatewayInv'
<1> DEFINE t == [repo |-> op[k].repo,
                 permissions |-> IF op[k].permissions = NoPerms THEN DefaultGrant
                                 ELSE op[k].permissions]
<1>1. Types /\ TypeOK /\ CallerInv(k)
  BY DEF GatewayInv, TypeOK, Types
<1>2. Working(k) /\ Head(todo[k]) = "mint" /\ backend = "local" /\ backend' = backend
  BY DEF MintLocal, At, backend
<1>3. op[k] # NoOperation /\ op[k] \in Operation
  BY <1>1, <1>2, GatewayAssumption DEF CallerInv, TokenInv, Types, Working
<1>4. t \in TokenScope /\ t # NoToken
  BY <1>3, GatewayAssumption DEF Operation, TokenScope
<1>5. /\ todo' \in [Caller -> Seq(Step)] /\ result' \in [Caller -> {"none", "ok", "error"}]
      /\ \A j \in Caller \ {k} : todo'[j] = todo[j]
  BY <1>1, <1>2, StepsTyped DEF MintLocal
<1>6. /\ token' = [token EXCEPT ![k] = t] /\ token'[k] = t
      /\ \A j \in Caller \ {k} : token'[j] = token[j]
      /\ UNCHANGED <<service, env, disk, op, conn, loaded, posted>>
  BY <1>1 DEF Types, MintLocal
<1>7. conn[k] = NoConn
  BY <1>2, WaitsAtMint
<1>8. todo'[k] = Tail(todo[k])
  BY <1>1 DEF Types, MintLocal, Done
<1>9. TokenInv(k)'
  BY <1>2, <1>3, <1>4, <1>6 DEF TokenInv
<1> HIDE DEF t
<1>10. Types'
  BY <1>1, <1>4, <1>5, <1>6 DEF Types, service, disk
<1>11. AloneStep(k)
  BY <1>5, <1>6 DEF AloneStep, disk
<1>12. CourseInv(k)'
  BY <1>1, <1>2, <1>4, <1>6, <1>8, CourseDone DEF CallerInv, disk
<1>13. WaitInv(k)'
  BY <1>6, <1>7 DEF WaitInv
<1> QED
  BY <1>9, <1>10, <1>11, <1>12, <1>13, AloneSuffices DEF CallerInv

LEMMA PostStep ==
  ASSUME GatewayInv, NEW k \in Caller, NEW c \in Conn, Post(k, c)
  PROVE  GatewayInv'
<1> DEFINE q == [repo |-> op[k].repo, permissions |-> op[k].permissions]
<1>1. Types /\ CallerInv(k)
  BY DEF GatewayInv, TypeOK, Types
<1>2. /\ At(k, "mint") /\ Working(k) /\ backend # "local" /\ backend' = backend
      /\ session[c] = "free" /\ \A j \in Caller : conn[j] # c
  BY DEF Post, Ask, Goes, At, backend
<1>3. op[k] # NoOperation /\ op[k] \in Operation
  BY <1>1, <1>2 DEF CallerInv, TokenInv, Types, Working
<1>4. q \in Question /\ c # NoConn
  BY <1>3, GatewayAssumption DEF Operation, Question
<1> HIDE DEF q
<1>5. /\ session' = [session EXCEPT ![c] = "asked"]
      /\ question' = [question EXCEPT ![c] = q]
      /\ conn' = [conn EXCEPT ![k] = c] /\ posted' = [posted EXCEPT ![k] = policy]
      /\ UNCHANGED <<policy, logged, env, disk, op, todo, result, token, loaded>>
  BY DEF Post, Ask, Goes, q
<1>6. Types'
  BY <1>1, <1>4, <1>5 DEF Types, disk
<1>7. /\ session'[c] = "asked" /\ question'[c] = q /\ conn'[k] = c /\ posted'[k] = policy
      /\ \A d \in Conn \ {c} : session'[d] = session[d] /\ question'[d] = question[d]
      /\ \A j \in Caller \ {k} : conn'[j] = conn[j] /\ posted'[j] = posted[j]
  BY <1>1, <1>5 DEF Types
<1>8. ASSUME NEW j \in Caller, j # k
      PROVE  CallerInv(j)'
  <2>1. conn[j] # NoConn =>
          /\ conn[j] \in Conn \ {c}
          /\ \A i \in Caller \ {j} : conn[i] # conn[j]
    BY <1>1, <1>2 DEF Types, GatewayInv, CallerInv, WaitInv
  <2>2. conn[j] # NoConn => \A i \in Caller \ {j} : conn'[i] # conn[j]
    BY <1>7, <2>1
  <2> QED
    BY <1>5, <1>7, <1>8, <2>1, <2>2, Untouched DEF disk
<1>9. CourseInv(k)'
  BY <1>1, <1>2, <1>5 DEF CallerInv, CourseInv, disk
<1>10. token[k] = NoToken
  <2>1. todo[k] \in Seq(Step) /\ todo[k] # <<>> /\ Head(todo[k]) = "mint"
    BY <1>1, <1>2 DEF Types, At, Working
  <2>2. 1 \in DOMAIN todo[k] /\ todo[k][1] = "mint"
    BY <2>1, TailSteps
  <2> QED
    BY <1>1, <1>2, <2>2 DEF CallerInv, CourseInv
<1>11. TokenInv(k)'
  BY <1>3, <1>5, <1>10 DEF TokenInv
<1>12. WaitInv(k)'
  BY <1>2, <1>5, <1>7 DEF WaitInv, At, Working, q
<1> QED
  BY <1>6, <1>8, <1>9, <1>11, <1>12, TypesSuffice DEF GatewayInv, CallerInv

\* The token read is the one issued for k's own question, under the policy that
\* has been in force since it was posted.
LEMMA AnsweredStep ==
  ASSUME GatewayInv, NEW k \in Caller, Answered(k)
  PROVE  GatewayInv'
<1> DEFINE c == conn[k]
           t == issued(question[c])
<1>1. Types /\ TypeOK /\ CallerInv(k)
  BY DEF GatewayInv, TypeOK, Types
<1>2. /\ Working(k) /\ Head(todo[k]) = "mint" /\ ~ At(k, "remove")
      /\ backend # "local" /\ backend' = backend
      /\ c # NoConn /\ c \in Conn
  BY <1>1 DEF Answered, At, Types, CallerInv, WaitInv, backend
<1>3. op[k] # NoOperation /\ op[k] \in Operation
  BY <1>1, <1>2 DEF CallerInv, TokenInv, Types, Working
<1>4. /\ session[c] \in {"granted", "refused"}
      /\ session' = [session EXCEPT ![c] = "over"]
      /\ conn' = [conn EXCEPT ![k] = NoConn]
      /\ UNCHANGED <<policy, question, logged, env, disk, op, loaded, posted>>
      /\ \/ session[c] = "granted" /\ token' = [token EXCEPT ![k] = t] /\ Done(k)
         \/ Fails(k) /\ UNCHANGED token
  BY DEF Answered, Answer, Goes
<1>5. /\ todo' \in [Caller -> Seq(Step)] /\ result' \in [Caller -> {"none", "ok", "error"}]
      /\ \A j \in Caller \ {k} : todo'[j] = todo[j]
  BY <1>1, <1>2, <1>4, StepsTyped
<1>6. t \in TokenScope /\ t # NoToken
  BY <1>1, <1>2, IssuedType, GatewayAssumption
<1>7. question[c] = [repo |-> op[k].repo, permissions |-> op[k].permissions]
      /\ posted[k] = policy
  BY <1>1, <1>2, <1>4 DEF CallerInv, WaitInv
<1>8. session[c] = "granted" =>
        /\ evaluate(policy, op[k].repo, op[k].permissions).allowed
        /\ t \in logged
  BY <1>1, <1>2 DEF CallerInv, WaitInv
<1>9. session[c] = "granted" =>
        /\ t.repo = op[k].repo
        /\ op[k].permissions # NoPerms => t.permissions = op[k].permissions
        /\ LET verdict == evaluate(policy, op[k].repo, op[k].permissions) IN
           verdict.granted # NoPerms => t.permissions = verdict.granted
  BY <1>7, <1>8, IssuedAsAsked
<1> HIDE DEF t
<1>10. Types'
  <2>1. session' \in [Conn -> {"free", "asked", "granted", "refused", "over"}]
    BY <1>1, <1>4 DEF Types
  <2>2. conn' \in [Caller -> Conn \cup {NoConn}]
    BY <1>1, <1>4 DEF Types
  <2>3. token' \in [Caller -> TokenScope \cup {NoToken}]
    BY <1>1, <1>4, <1>6 DEF Types
  <2> QED
    BY <1>1, <1>4, <1>5, <2>1, <2>2, <2>3 DEF Types, disk
<1>11. /\ conn'[k] = NoConn
       /\ \A d \in Conn \ {c} : session'[d] = session[d]
       /\ \A j \in Caller \ {k} : conn'[j] = conn[j] /\ token'[j] = token[j]
  BY <1>1, <1>4 DEF Types
<1>12. ASSUME NEW j \in Caller, j # k
       PROVE  CallerInv(j)'
  <2>1. conn[j] # NoConn =>
          /\ conn[j] \in Conn \ {c}
          /\ \A i \in Caller \ {j} : conn[i] # conn[j]
    BY <1>1, <1>12 DEF Types, GatewayInv, CallerInv, WaitInv
  <2>2. conn[j] # NoConn => \A i \in Caller \ {j} : conn'[i] # conn[j]
    BY <1>11, <2>1
  <2> QED
    BY <1>4, <1>5, <1>11, <1>12, <2>1, <2>2, Untouched DEF disk
<1>13. WaitInv(k)'
  BY <1>11 DEF WaitInv
<1>14. CASE session[c] = "granted" /\ token' = [token EXCEPT ![k] = t] /\ Done(k)
  <2>1. token'[k] = t /\ todo'[k] = Tail(todo[k])
    BY <1>1, <1>14 DEF Types, Done
  <2>2. CourseInv(k)'
    BY <1>1, <1>2, <1>4, <1>6, <2>1, CourseDone DEF CallerInv, disk
  <2>3. TokenInv(k)'
    BY <1>3, <1>4, <1>7, <1>8, <1>9, <1>14, <2>1 DEF TokenInv
  <2> QED
    BY <1>10, <1>12, <1>13, <2>2, <2>3, TypesSuffice DEF GatewayInv, CallerInv
<1>15. CASE Fails(k) /\ UNCHANGED token
  <2>1. todo'[k] = IF Head(todo[k]) \in {"write", "run"} THEN <<"remove">> ELSE <<>>
    BY <1>1, <1>15 DEF Fails, Types
  <2>2. CourseInv(k)'
    BY <1>1, <1>2, <1>4, <1>15, <2>1, CourseFails DEF CallerInv, disk
  <2>3. TokenInv(k)'
    BY <1>1, <1>2, <1>3, <1>4, <1>15 DEF CallerInv, TokenInv
  <2> QED
    BY <1>10, <1>12, <1>13, <2>2, <2>3, TypesSuffice DEF GatewayInv, CallerInv
<1> QED
  BY <1>4, <1>14, <1>15

\* What the broker does by itself: a caller that waits sees its question decided,
\* or its connection let go of.
LEMMA BrokerStepKeeps ==
  ASSUME GatewayInv, BrokerStep
  PROVE  GatewayInv'
<1>1. /\ Types /\ \A k \in Caller : CallerInv(k)
      /\ UNCHANGED <<env, client, disk>>
      /\ UNCHANGED <<env, op, todo, result, conn, token, loaded, posted, askpass, left>>
  BY DEF GatewayInv, TypeOK, Types, BrokerStep, client, disk
<1>2. ASSUME Types',
             \A k \in Caller : conn[k] # NoConn =>
               LET c == conn[k] IN
               session'[c] \in {"asked", "granted", "refused"} =>
                 /\ question'[c] = question[c] /\ policy' = policy
                 /\ session[c] \in {"asked", "granted", "refused"}
                 /\ session'[c] = "granted" =>
                      /\ evaluate(policy, question[c].repo, question[c].permissions).allowed
                      /\ issued(question[c]) \in logged',
             logged \subseteq logged'
      PROVE  GatewayInv'
  <2>1. ASSUME NEW k \in Caller
        PROVE  CallerInv(k)'
    <3>1. CourseInv(k)'
      BY <1>1 DEF CallerInv, CourseInv, backend
    <3>2. TokenInv(k)'
      BY <1>1, <1>2 DEF CallerInv, TokenInv, backend
    <3>3. WaitInv(k)'
      <4> SUFFICES ASSUME conn[k] # NoConn PROVE WaitInv(k)'
        BY <1>1 DEF WaitInv
      <4>1. /\ At(k, "mint")' /\ backend' # "local"
            /\ \A j \in Caller \ {k} : conn'[j] # conn[k]
        BY <1>1 DEF CallerInv, WaitInv, At, Working, backend
      <4>2. ASSUME session'[conn[k]] \in {"asked", "granted", "refused"}
            PROVE  /\ question'[conn[k]]
                        = [repo |-> op[k].repo, permissions |-> op[k].permissions]
                   /\ posted[k] = policy'
                   /\ session'[conn[k]] = "granted" =>
                        /\ evaluate(policy', op[k].repo, op[k].permissions).allowed
                        /\ issued(question[conn[k]])' \in logged'
        <5>1. /\ question'[conn[k]] = question[conn[k]] /\ policy' = policy
              /\ question[conn[k]]
                   = [repo |-> op[k].repo, permissions |-> op[k].permissions]
              /\ posted[k] = policy
          BY <1>1, <1>2, <4>2 DEF CallerInv, WaitInv
        <5>2. issued(question[conn[k]])' = issued(question[conn[k]])
          BY <1>1, <5>1 DEF issued
        <5> QED
          BY <1>2, <5>1, <5>2
      <4> QED
        BY <1>1, <4>1, <4>2 DEF WaitInv, issued
    <3> QED
      BY <3>1, <3>2, <3>3 DEF CallerInv
  <2> QED
    BY <1>2, <2>1, TypesSuffice DEF GatewayInv, CallerInv
<1>3. ASSUME NEW k \in Caller, conn[k] # NoConn
      PROVE  /\ conn[k] \in Conn
             /\ session[conn[k]] = "granted" =>
                  /\ evaluate(policy, question[conn[k]].repo,
                              question[conn[k]].permissions).allowed
                  /\ issued(question[conn[k]]) \in logged
  <2>1. conn[k] \in Conn
    BY <1>1, <1>3 DEF Types
  <2>2. ASSUME session[conn[k]] = "granted"
        PROVE  /\ question[conn[k]]
                    = [repo |-> op[k].repo, permissions |-> op[k].permissions]
               /\ evaluate(policy, op[k].repo, op[k].permissions).allowed
               /\ issued(question[conn[k]]) \in logged
    BY <1>1, <1>3, <2>2 DEF CallerInv, WaitInv
  <2> QED
    BY <2>1, <2>2
<1>4. ASSUME NEW c \in Conn, Grant(c)
      PROVE  GatewayInv'
  <2>1. /\ session[c] = "asked" /\ session' = [session EXCEPT ![c] = "granted"]
        /\ evaluate(policy, question[c].repo, question[c].permissions).allowed
        /\ logged' = logged \cup {issued(question[c])}
        /\ UNCHANGED <<policy, question>>
    BY <1>4 DEF Grant, Goes
  <2>2. issued(question[c]) \in TokenScope
    BY IssuedType DEF GatewayInv
  <2>3. Types'
    BY <1>1, <2>1, <2>2 DEF Types
  <2>4. /\ session'[c] = "granted"
        /\ \A d \in Conn \ {c} : session'[d] = session[d]
    BY <1>1, <2>1 DEF Types
  <2> QED
    BY <1>2, <1>3, <2>1, <2>3, <2>4
<1>5. ASSUME NEW c \in Conn, NEW s \in {"refused", "over"},
             session' = [session EXCEPT ![c] = s],
             s = "refused" => session[c] = "asked",
             UNCHANGED <<policy, question, logged>>
      PROVE  GatewayInv'
  <2>1. Types'
    BY <1>1, <1>5 DEF Types
  <2>2. /\ session'[c] = s
        /\ \A d \in Conn \ {c} : session'[d] = session[d]
    BY <1>1, <1>5 DEF Types
  <2> QED
    BY <1>2, <1>3, <1>5, <2>1, <2>2
<1>6. ASSUME NEW c \in Conn, Leave(c)
      PROVE  GatewayInv'
  <2>1. /\ session' = [session EXCEPT ![c] = "free"]
        /\ question' = [question EXCEPT ![c] = NoQuestion]
        /\ UNCHANGED <<policy, logged>>
    BY <1>6 DEF Leave, Goes
  <2>2. Types'
    BY <1>1, <2>1, GatewayAssumption DEF Types
  <2>3. /\ session'[c] = "free"
        /\ \A d \in Conn \ {c} : session'[d] = session[d] /\ question'[d] = question[d]
    BY <1>1, <2>1 DEF Types
  <2> QED
    BY <1>2, <1>3, <2>1, <2>2, <2>3
<1>7. CASE Crash
  <2>1. Types'
    BY <1>1, <1>7, GatewayAssumption DEF Types, Crash
  <2>2. \A d \in Conn : session'[d] = "free"
    BY <1>7 DEF Crash
  <2> QED
    BY <1>2, <1>3, <1>7, <2>1, <2>2 DEF Crash
<1>8. CASE Edit
  <2>1. Types'
    BY <1>1, <1>8 DEF Types, Edit
  <2>2. \A d \in Conn : session'[d] = "free"
    BY <1>8 DEF Edit
  <2> QED
    BY <1>2, <1>3, <1>8, <2>1, <2>2 DEF Edit
<1> QED
  BY <1>4, <1>5, <1>6, <1>7, <1>8 DEF BrokerStep, Refuse, Drop, Answer, Goes

-----------------------------------------------------------------------------
LEMMA GatewayInitial == Init => GatewayInv
<1> SUFFICES ASSUME Init PROVE GatewayInv
  OBVIOUS
<1>1. AnyPolicy \in Policies
  BY GatewayAssumption DEF AnyPolicy
<1>2. Types
  <2>1. /\ <<>> \in Seq(Step)
        /\ policy \in Policies /\ logged = {}
        /\ session = [c \in Conn |-> "free"] /\ question = [c \in Conn |-> NoQuestion]
    BY DEF Init, InitService
  <2> QED
    BY <1>1, <2>1, GatewayAssumption DEF Init, Types
<1>3. \A k \in Caller : ~ Working(k)
  BY DEF Init, Working
<1>4. TypeOK
  BY <1>2, <1>3 DEF Types, TypeOK
<1>5. ASSUME NEW k \in Caller
      PROVE  CallerInv(k)
  <2>1. /\ todo[k] = <<>> /\ token[k] = NoToken /\ askpass[k] = NoToken
        /\ conn[k] = NoConn
    BY DEF Init
  <2>2. CourseInv(k)
    BY <2>1, ShortInShape DEF CourseInv
  <2> QED
    BY <2>1, <2>2 DEF CallerInv, WaitInv, TokenInv
<1> QED
  BY <1>4, <1>5 DEF GatewayInv

LEMMA GatewayStep == GatewayInv /\ [Next]_vars => GatewayInv'
<1> SUFFICES ASSUME GatewayInv, [Next]_vars PROVE GatewayInv'
  OBVIOUS
<1>1. Types
  BY DEF GatewayInv, TypeOK, Types
<1>2. ASSUME NEW k \in Caller, Describe(k) \/ CallAsApp(k) \/ Use(k) \/ OpenBroker(k)
      PROVE  GatewayInv'
  <2>1. /\ Working(k) /\ ~ At(k, "mint") /\ Done(k)
        /\ Head(todo[k]) \notin {"write", "remove"}
        /\ UNCHANGED <<service, env, disk, op, conn, token, loaded, posted>>
    BY <1>2 DEF Describe, CallAsApp, Use, OpenBroker, At
  <2>2. askpass' = [askpass EXCEPT ![k] = askpass[k]] /\ loaded' \in [Caller -> BOOLEAN]
    BY <1>1, <2>1 DEF Types, disk
  <2> QED
    BY <2>1, <2>2, DoneStep DEF disk
<1>3. ASSUME NEW k \in Caller, WriteAskpass(k) \/ RemoveAskpass(k)
      PROVE  GatewayInv'
  <2>1. /\ Working(k) /\ ~ At(k, "mint") /\ Done(k)
        /\ UNCHANGED <<service, env, left, op, conn, token, loaded, posted>>
        /\ askpass' = [askpass EXCEPT ![k] =
                         IF Head(todo[k]) = "write" THEN token[k]
                         ELSE IF Head(todo[k]) = "remove" THEN NoToken
                         ELSE askpass[k]]
    BY <1>3 DEF WriteAskpass, RemoveAskpass, At
  <2> QED
    BY <1>1, <2>1, DoneStep DEF Types
<1>4. ASSUME NEW k \in Caller, LoadApp(k)
      PROVE  GatewayInv'
  <2>1. /\ Working(k) /\ ~ At(k, "mint") /\ ~ At(k, "remove")
        /\ Head(todo[k]) \notin {"write", "remove"}
        /\ Done(k) \/ Fails(k)
        /\ UNCHANGED <<service, env, disk, op, conn, token, posted>>
        /\ loaded' \in [Caller -> BOOLEAN]
    BY <1>1, <1>4 DEF LoadApp, At, Types
  <2>2. askpass' = [askpass EXCEPT ![k] = askpass[k]]
    BY <1>1, <2>1 DEF Types, disk
  <2>3. conn' = [conn EXCEPT ![k] = NoConn]
    BY <1>1, <2>1, WaitsAtMint DEF Types
  <2>4. CASE Done(k)
    BY <2>1, <2>2, <2>4, DoneStep DEF disk
  <2>5. CASE Fails(k)
    BY <2>1, <2>3, <2>5, FailsStep
  <2> QED
    BY <2>1, <2>4, <2>5
<1>5. ASSUME NEW k \in Caller, Fail(k)
      PROVE  GatewayInv'
  BY <1>1, <1>5, FailsStep DEF Fail, Types, disk
<1>6. ASSUME NEW k \in Caller, Return(k)
      PROVE  GatewayInv'
  <2>1. Forget(k) /\ ~ Working(k) /\ UNCHANGED <<service, env, conn, disk>>
    BY <1>6 DEF Return
  <2>2. conn[k] = NoConn /\ askpass[k] = NoToken
    BY <2>1, WaitsAtMint DEF At, Working, GatewayInv, CallerInv, CourseInv
  <2>3. /\ conn' = [conn EXCEPT ![k] = NoConn] /\ askpass' = [askpass EXCEPT ![k] = NoToken]
        /\ left' \in BOOLEAN
    BY <1>1, <2>1, <2>2 DEF Types, disk
  <2> QED
    BY <2>1, <2>3, ForgetStep
<1>7. ASSUME NEW k \in Caller, Kill(k)
      PROVE  GatewayInv'
  BY <1>1, <1>7, ForgetStep DEF Kill, Types
<1>8. CASE BrokerStep
  BY <1>8, BrokerStepKeeps
<1>9. CASE UNCHANGED vars
  BY <1>9 DEF vars, service, client, disk, GatewayInv, TypeOK, CallerInv, CourseInv,
       WaitInv, TokenInv, At, Working, backend, issued
<1> QED
  BY <1>2, <1>3, <1>4, <1>5, <1>6, <1>7, <1>8, <1>9,
     CallStep, MintLocalStep, PostStep, AnsweredStep
  DEF Next, Proceed

-----------------------------------------------------------------------------
\* GatewayInv holds of every state: the courses keep their shape, a waiting
\* caller's connection carries its own question, and the token an operation
\* holds is the one issued for that question (backends.py:118-153).
THEOREM GatewayInvariant == Spec => []GatewayInv
<1> QED
  BY GatewayInitial, GatewayStep, PTL DEF Spec

\* The clients' state is well typed, and every call on GitHub has its token
\* (api.py:51-54).
THEOREM GatewayTypeCorrect == Spec => []TypeOK
<1>1. GatewayInv => TypeOK
  BY DEF GatewayInv
<1> QED
  BY <1>1, GatewayInvariant, PTL

\* Of any number of operations that race, fail and are tried again, each holds
\* the token of its own request and of no other (backends.py:118-153).
THEOREM TokenIsForItsCaller == Spec => []HeldAsAsked
<1>1. GatewayInv => HeldAsAsked
  BY DEF GatewayInv, CallerInv, TokenInv, HeldAsAsked
<1> QED
  BY <1>1, GatewayInvariant, PTL

\* A token from the broker is on the audit stream and within the policy that was
\* in force when it was asked for, whatever the operator edits (README.md:15-18).
THEOREM TokenIsUnderPolicy == Spec => []HeldUnderPolicy
<1>1. GatewayInv => HeldUnderPolicy
  BY DEF GatewayInv, CallerInv, TokenInv, HeldUnderPolicy
<1> QED
  BY <1>1, GatewayInvariant, PTL

\* git-app's file is there only while its operation goes on, which still has its
\* removal to do (cli.py:167-182).
THEOREM AskpassIsRemoved == Spec => []AskpassRemoved
<1>1. GatewayInv => AskpassRemoved
  BY DEF GatewayInv, CallerInv, CourseInv, AskpassRemoved, Working
<1> QED
  BY <1>1, GatewayInvariant, PTL
-----------------------------------------------------------------------------
\* The clients and the service they use.

LEMMA OperationAsks ==
  ASSUME TypeOK, NEW k \in Caller, op[k] # NoOperation
  PROVE  [repo |-> op[k].repo, permissions |-> op[k].permissions] \in Question
<1>1. op[k] \in Operation
  BY DEF TypeOK
<1> QED
  BY <1>1 DEF Operation, Question

\* To the broker, whatever the clients do is a behaviour of BrokerService, so
\* what is proved here holds with any broker that keeps that promise: a client
\* asks, an answer is read, and all else on a connection is the broker's doing
\* (backends.py:98-153).
THEOREM ClientsUseTheService == Spec => SpecService
<1>1. Init => InitService
  BY DEF Init
<1>2. GatewayInv /\ [Next]_vars => [NextService]_service
  <2> SUFFICES ASSUME GatewayInv, [Next]_vars PROVE [NextService]_service
    OBVIOUS
  <2>1. ASSUME NEW k \in Caller, NEW c \in Conn, Post(k, c)
        PROVE  NextService
    <3>1. At(k, "mint") /\ session[c] = "free"
      BY <2>1 DEF Post, Ask, Goes
    <3>2. op[k] # NoOperation
      BY <3>1 DEF GatewayInv, CallerInv, TokenInv, At, Working
    <3>3. [repo |-> op[k].repo, permissions |-> op[k].permissions] \in Question
      BY <3>2, OperationAsks DEF GatewayInv
    <3> QED
      BY <2>1, <3>1, <3>3 DEF Post, NextService
  <2>2. ASSUME NEW k \in Caller, Answered(k)
        PROVE  NextService
    <3>1. conn[k] \in Conn /\ Answer(conn[k])
      BY <2>2 DEF Answered, GatewayInv, TypeOK
    <3> QED
      BY <3>1 DEF NextService
  <2>3. CASE BrokerStep
    BY <2>3 DEF BrokerStep, NextService
  <2>4. ASSUME NEW k \in Caller,
               \/ \E o \in Operations[k] : Call(k, o)
               \/ LoadApp(k) \/ OpenBroker(k) \/ Describe(k) \/ CallAsApp(k)
               \/ MintLocal(k) \/ Use(k) \/ WriteAskpass(k) \/ RemoveAskpass(k)
               \/ Fail(k) \/ Return(k) \/ Kill(k)
        PROVE  UNCHANGED service
    BY <2>4 DEF Call, LoadApp, OpenBroker, Describe, CallAsApp, MintLocal, Use,
       WriteAskpass, RemoveAskpass, Fail, Return, Kill
  <2>5. CASE UNCHANGED vars
    BY <2>5 DEF vars
  <2> QED
    BY <2>1, <2>2, <2>3, <2>4, <2>5 DEF Next, Proceed
<1> QED
  BY <1>1, <1>2, GatewayInvariant, PTL DEF Spec, SpecService

\* A connection with a grant pending is for a question the policy in force
\* allows, and its line is on the audit stream.
GrantedAsDecided ==
  \A c \in Conn : session[c] = "granted" =>
    /\ evaluate(policy, question[c].repo, question[c].permissions).allowed
    /\ issued(question[c]) \in logged

\* The service never has a grant pending that the policy in force would not
\* give: it keeps to it when the operator edits the policy and the broker
\* restarts with requests in progress (broker.py:326-352).
THEOREM ServiceGrantsAsDecided == SpecService => []GrantedAsDecided
<1> DEFINE ServiceInv == DOMAIN session = Conn /\ DOMAIN question = Conn /\ GrantedAsDecided
<1>1. InitService => ServiceInv
  BY DEF InitService, GrantedAsDecided
<1>2. ServiceInv /\ [NextService]_service => ServiceInv'
  <2> SUFFICES ASSUME ServiceInv, [NextService]_service PROVE ServiceInv'
    OBVIOUS
  <2>1. ASSUME NEW c \in Conn, Grant(c)
        PROVE  ServiceInv'
    <3>1. /\ DOMAIN session' = Conn /\ UNCHANGED <<policy, question>>
          /\ logged' = logged \cup {issued(question[c])}
          /\ evaluate(policy, question[c].repo, question[c].permissions).allowed
          /\ \A d \in Conn \ {c} : session'[d] = session[d]
      BY <2>1 DEF Grant, Goes
    <3>2. \A d \in Conn : issued(question[d])' = issued(question[d])
      BY <3>1 DEF issued
    <3> QED
      BY <3>1, <3>2 DEF GrantedAsDecided
  <2>2. ASSUME NEW c \in Conn, NEW s \in {"asked", "refused", "over", "free"},
               session' = [session EXCEPT ![c] = s],
               UNCHANGED <<policy, logged>>,
               \/ UNCHANGED question
               \/ \E q : question' = [question EXCEPT ![c] = q]
        PROVE  ServiceInv'
    <3>1. /\ DOMAIN session' = Conn
          /\ session'[c] # "granted"
          /\ DOMAIN question' = Conn
          /\ \A d \in Conn \ {c} : session'[d] = session[d] /\ question'[d] = question[d]
      BY <2>2
    <3>2. \A d \in Conn \ {c} : issued(question[d])' = issued(question[d])
      BY <2>2, <3>1 DEF issued
    <3> QED
      BY <2>2, <3>1, <3>2 DEF GrantedAsDecided
  <2>3. CASE Crash
    BY <2>3 DEF Crash, GrantedAsDecided
  <2>4. CASE Edit
    BY <2>4 DEF Edit, GrantedAsDecided
  <2>5. CASE UNCHANGED service
    BY <2>5 DEF service, GrantedAsDecided, issued
  <2>6. ASSUME NEW c \in Conn, NEW q \in Question, Ask(c, q)
        PROVE  ServiceInv'
    <3>1. /\ session' = [session EXCEPT ![c] = "asked"]
          /\ question' = [question EXCEPT ![c] = q]
          /\ UNCHANGED <<policy, logged>>
      BY <2>6 DEF Ask, Goes
    <3> HIDE DEF ServiceInv
    <3> QED
      BY <2>2, <3>1
  <2>7. ASSUME NEW c \in Conn, Refuse(c) \/ Answer(c) \/ Drop(c) \/ Leave(c)
        PROVE  ServiceInv'
    <3>1. /\ \E s \in {"refused", "over", "free"} : session' = [session EXCEPT ![c] = s]
          /\ UNCHANGED <<policy, logged>>
          /\ \/ UNCHANGED question
             \/ \E q : question' = [question EXCEPT ![c] = q]
      BY <2>7 DEF Refuse, Answer, Drop, Leave, Goes
    <3> HIDE DEF ServiceInv
    <3> QED
      BY <2>2, <3>1
  <2> QED
    BY <2>1, <2>3, <2>4, <2>5, <2>6, <2>7 DEF NextService
<1>3. ServiceInv => GrantedAsDecided
  OBVIOUS
<1> HIDE DEF ServiceInv
<1> QED
  BY <1>1, <1>2, <1>3, PTL DEF SpecService
=============================================================================
