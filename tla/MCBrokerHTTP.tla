----------------------------- MODULE MCBrokerHTTP -----------------------------
(***************************************************************************)
(* A small instance of BrokerHTTP for TLC: two connections, one with two   *)
(* requests, so that one of them follows a body left unread, the other     *)
(* with one, so that either may stall while the other goes on; a body that *)
(* is itself a request; two starts.                                        *)
(***************************************************************************)
EXTENDS BrokerHTTP

CONSTANTS c1, c2

MCConn        == {c1, c2}
Of(r, b)      == [route |-> r, body |-> b]
MCRequests    == [c \in MCConn |->
  IF c = c1 THEN {Of("token", "plain"), Of("misfit", "plain"), Of("elsewhere", "request")}
  ELSE {Of("get", "none"), Of("token", "plain")}]
MCMaxRequests == [c \in MCConn |-> IF c = c1 THEN 2 ELSE 1]
=============================================================================
