---------------------------- MODULE BrokerService ----------------------------
(***************************************************************************)
(* What the broker promises its clients, with no word of threads, cache,   *)
(* clock or GitHub: a request on a connection is granted what the policy   *)
(* in force decides, which is on the audit stream by then, or it is        *)
(* refused, or the connection is closed.  A restart ends all requests and  *)
(* may bring another policy.                                               *)
(***************************************************************************)
EXTENDS Policy

CONSTANTS
  Conn,           \* connections to the broker
  Policies,       \* the policies an operator may put in force
  DefaultGrant,   \* the permissions an empty grant is replaced by
  NoQuestion      \* the question of a connection that asks nothing

VARIABLES
  policy,     \* the policy in force
  session,    \* session[c] : "free", "asked", "granted", "refused" or "over"
  question,   \* question[c] : what was asked on connection c
  logged      \* the grants on the audit stream

service == <<policy, session, question, logged>>

Question == [repo : Repo, permissions : PermMap(AskLevel)]

\* The token a question is granted, with the repository asked for, as the audit
\* line and the answer show it (see own_installation in Broker).
issued(q) ==
  LET granted == evaluate(policy, q.repo, q.permissions).granted
  IN  [repo |-> q.repo,
       permissions |-> IF granted = NoPerms THEN DefaultGrant ELSE granted]

Goes(c, from, to) ==
  /\ session[c] = from
  /\ session' = [session EXCEPT ![c] = to]

-----------------------------------------------------------------------------
InitService ==
  /\ policy \in Policies
  /\ session = [c \in Conn |-> "free"]
  /\ question = [c \in Conn |-> NoQuestion]
  /\ logged = {}

Ask(c, q) ==
  /\ Goes(c, "free", "asked")
  /\ question' = [question EXCEPT ![c] = q]
  /\ UNCHANGED <<policy, logged>>

\* mutant: a grant is not logged
GrantUnlogged(c) ==
  /\ Goes(c, "asked", "granted")
  /\ evaluate(policy, question[c].repo, question[c].permissions).allowed
  /\ UNCHANGED <<policy, question, logged>>

Grant(c) ==
  /\ Goes(c, "asked", "granted")
  /\ evaluate(policy, question[c].repo, question[c].permissions).allowed
  /\ logged' = logged \cup {issued(question[c])}
  /\ UNCHANGED <<policy, question>>

\* By the policy, for a malformed body, or because the mint failed.
Refuse(c) ==
  /\ Goes(c, "asked", "refused")
  /\ UNCHANGED <<policy, question, logged>>

Answer(c) ==
  /\ Goes(c, "granted", "over") \/ Goes(c, "refused", "over")
  /\ UNCHANGED <<policy, question, logged>>

\* The connection is closed without an answer.
Drop(c) ==
  /\ session[c] # "over"
  /\ session' = [session EXCEPT ![c] = "over"]
  /\ UNCHANGED <<policy, question, logged>>

Leave(c) ==
  /\ Goes(c, "over", "free")
  /\ question' = [question EXCEPT ![c] = NoQuestion]
  /\ UNCHANGED <<policy, logged>>

Crash ==
  /\ session' = [c \in Conn |-> "free"]
  /\ question' = [c \in Conn |-> NoQuestion]
  /\ UNCHANGED <<policy, logged>>

\* mutant: the policy changes under the requests in progress
EditAnyTime ==
  /\ policy' \in Policies
  /\ UNCHANGED <<session, question, logged>>

Edit ==
  /\ \A c \in Conn : session[c] = "free"
  /\ policy' \in Policies
  /\ UNCHANGED <<session, question, logged>>

NextService ==
  \/ \E c \in Conn :
       \/ session[c] = "free" /\ \E q \in Question : Ask(c, q)
       \/ Grant(c) \/ Refuse(c) \/ Answer(c) \/ Drop(c) \/ Leave(c)
  \/ Crash
  \/ Edit

SpecService == InitService /\ [][NextService]_service
=============================================================================
