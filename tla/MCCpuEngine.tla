---------------------------- MODULE MCCpuEngine -----------------------------
(* Small engines for TLC.  Prompts are sequences over two tokens, chosen so *)
(* that one is a prefix of another and a prefix cache can match it in part. *)
EXTENDS CpuEngine

\* Request 3 repeats the prompt of request 1 and extends that of request 2.
SharedPrompts == << <<1, 2, 1>>, <<1>>, <<1, 2, 1>> >>
TwoTokensEach == <<2, 1, 2>>
LaterFirst    == <<0, 0, 1>>
=============================================================================
