------------------------------- MODULE MCGateway -------------------------------
(* Two ports, two connections for one permit; a reply is longer than what  *)
(* the relay reads ahead.                                                  *)
EXTENDS Gateway

MCMaxBytes == [up |-> 1, down |-> 2]
=============================================================================
