--------------------------- MODULE MCLlmGateway ---------------------------
(***************************************************************************)
(* A small instance of LlmGateway for TLC: e1 serves every purpose, e2 is  *)
(* the second choice for chat alone.                                       *)
(***************************************************************************)
EXTENDS LlmGateway, TLC

CONSTANTS e1, e2, c1, m1, a1

FirstThenSecond == e1 :> 1 @@ e2 :> 2
SharedByAll == e1 :> {"chat", "embedding", "workflow"} @@ e2 :> {"chat"}
OneEach == [e \in Endpoints |-> 1]
EmbedForAgent == m1 :> a1
=============================================================================
