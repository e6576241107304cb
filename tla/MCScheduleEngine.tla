-------------------------- MODULE MCScheduleEngine --------------------------
EXTENDS ScheduleEngine, TLC

CONSTANTS output, gone

Real(x) == [tag |-> "Real", val |-> x]

\* Thursday is in order, Friday is not, every other day is empty.
MCWeek == [d \in Days |->
  CASE d = 3 -> <<[start |-> 0, value |-> Null], [start |-> 1, value |-> Real(1)]>>
    [] d = 4 -> <<[start |-> 1, value |-> Real(2)], [start |-> 0, value |-> Real(1)]>>
    [] OTHER -> <<>>]

\* Thursday before the epoch and at a slot, Friday, and Wednesday.
MCInstants == {-1, 1, 4, 20}

MCKindOf == output :> "AnalogOutput"

MCOutputs == <<[sched |-> TRUE, target |-> gone, prop |-> "PresentValue"],
               [sched |-> FALSE, target |-> gone, prop |-> "PresentValue"],
               [sched |-> TRUE, target |-> output, prop |-> "PresentValue"]>>

MCScheduleWrites == {[prop |-> "PresentValue", val |-> Real(2)],
                     [prop |-> "OutOfService", val |-> Bool(TRUE)],
                     [prop |-> "OutOfService", val |-> Bool(FALSE)],
                     [prop |-> "ScheduleDefault", val |-> Real(2)]}

MCTargetWrites == {[prop |-> "PresentValue", val |-> Real(3), pri |-> 1],
                   [prop |-> "PresentValue", val |-> Null, pri |-> 1],
                   [prop |-> "PresentValue", val |-> Real(3), pri |-> None]}

MCLogWrites == {[prop |-> "RecordCount", val |-> [tag |-> "Unsigned", val |-> 0]],
                [prop |-> "RecordCount", val |-> [tag |-> "Unsigned", val |-> 1]],
                [prop |-> "Enable", val |-> Bool(FALSE)],
                [prop |-> "OutOfService", val |-> Bool(TRUE)]}
=============================================================================
