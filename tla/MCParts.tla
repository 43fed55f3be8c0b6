------------------------------- MODULE MCParts -------------------------------
(* The parts of the service for TLC: one incoming request, and handlers that *)
(* leave out nothing, some of the guards and interceptors, or all but one.  *)
EXTENDS Parts

SomeDecorators == {[skip |-> {}, keep |-> {}], [skip |-> {"logging"}, keep |-> {}],
                   [skip |-> {"guard", "prometheus", "headers"}, keep |-> {}],
                   [skip |-> {"all"}, keep |-> {"guard"}]}
=============================================================================
