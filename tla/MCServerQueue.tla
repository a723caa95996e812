---------------------------- MODULE MCServerQueue ----------------------------
(* The instance of ServerQueue for TLC: two requests that change slots and *)
(* one that only reads.                                                    *)
EXTENDS ServerQueue
=============================================================================
