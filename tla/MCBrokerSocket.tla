---------------------------- MODULE MCBrokerSocket ----------------------------
(***************************************************************************)
(* A small instance of BrokerSocket for TLC: three processes may overlap,  *)
(* the path is bound three times, and a client connects at any moment.     *)
(***************************************************************************)
EXTENDS BrokerSocket

CONSTANTS b1, b2, b3, k1

MCBroker == {b1, b2, b3}
MCClient == {k1}
=============================================================================
