----------------------- MODULE MCGenerationDispatcher -----------------------
(* One request of two tokens and others of one: enough for an event in the  *)
(* middle of an output and for clients that outlive each other.             *)
EXTENDS GenerationDispatcher

TwoTokens == [r \in Requests |-> IF r = 1 THEN 2 ELSE 1]
=============================================================================
