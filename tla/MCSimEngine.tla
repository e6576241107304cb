---------------------------- MODULE MCSimEngine ----------------------------
EXTENDS SimEngine, TLC

CONSTANTS input, output

MCKindOf == (input :> "AnalogInput") @@ (output :> "AnalogOutput")

MCIncrement == (input :> 2) @@ (output :> 0)

MCWrites == {[prop |-> "PresentValue", val |-> Real(1), pri |-> 1],
             [prop |-> "OutOfService", val |-> Bool(TRUE), pri |-> None]}

MCRequests == {[incr |-> 0, prop |-> None, life |-> None, last |-> 0],
               [incr |-> 2, prop |-> "PresentValue", life |-> 1, last |-> 0],
               [incr |-> 0, prop |-> "OutOfService", life |-> 1, last |-> 2]}

MCSymmetry == Permutations(Subscribers)
=============================================================================
