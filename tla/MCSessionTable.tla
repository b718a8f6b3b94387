--------------------------- MODULE MCSessionTable ---------------------------
(* SessionTable for TLC: a provider that recycles handles, and one that may *)
(* close a session without saying so.                                      *)
EXTENDS SessionTable

MCProviders == {[recycles |-> TRUE, mayClose |-> FALSE],
                [recycles |-> FALSE, mayClose |-> TRUE]}
=============================================================================
