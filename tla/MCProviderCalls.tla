-------------------------- MODULE MCProviderCalls --------------------------
(* TLC instances of ProviderCalls.                                          *)
EXTENDS ProviderCalls

CONSTANTS search    \* the one operation

OneOp == [q \in Requests |-> search]
TwoEach == [o \in Ops |-> 2]
ThreeEach == [o \in Ops |-> 3]
=============================================================================
