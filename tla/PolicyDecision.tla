--------------------------- MODULE PolicyDecision ---------------------------
(***************************************************************************)
(* What the policy of the broker promises, with no word of how it is       *)
(* computed: a policy file is served or refused as a whole, and a question *)
(* about a served policy is answered in one step by evaluate, whose        *)
(* ceiling is the lowest of all matching caps.                             *)
(***************************************************************************)
EXTENDS Policy

CONSTANT PolicyFile     \* the policy files the broker may be started with

VARIABLES
  file,       \* the policy file read
  phase,      \* "starting", "refused", "idle", "asked" or "decided"
  question,   \* the repository and the permissions asked for
  verdict     \* the answer to the last question

vars == <<file, phase, question, verdict>>

Question == [repo : Repo, requested : PermMap(AskLevel)]

Init ==
  /\ file \in PolicyFile
  /\ phase = "starting"
  /\ question \in Question
  /\ verdict = Denied("permission")

Serve ==
  /\ phase = "starting"
  /\ accepts(file)
  /\ phase' = "idle"
  /\ UNCHANGED <<file, question, verdict>>

Refuse ==
  /\ phase = "starting"
  /\ ~ accepts(file)
  /\ phase' = "refused"
  /\ UNCHANGED <<file, question, verdict>>

Ask(q) ==
  /\ phase \in {"idle", "decided"}
  /\ phase' = "asked"
  /\ question' = q
  /\ UNCHANGED <<file, verdict>>

Decide ==
  /\ phase = "asked"
  /\ phase' = "decided"
  /\ verdict' = evaluate(policy_of(file), question.repo, question.requested)
  /\ UNCHANGED <<file, question>>

Next ==
  \/ Serve
  \/ Refuse
  \/ \E q \in Question : Ask(q)
  \/ Decide

Spec == Init /\ [][Next]_vars
=============================================================================
