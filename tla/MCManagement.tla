---------------------------- MODULE MCManagement ----------------------------
(* Configurations with each of the oddities a file may have, numbers an    *)
(* f32 can and cannot hold, and days at the ends of months and years,      *)
(* common, leap and secular.                                               *)
EXTENDS Management

Of(type, n) == [type |-> type, count |-> n]

MCProfiles ==
  [ahu |-> <<Of("AnalogInput", 2), Of("binary-output", 1)>>,
   vav |-> <<Of("analog_output", 1), Of("pressure", 2), Of("Analog Output", 2)>>,
   lab |-> <<Of("binaryinput", 1), Of("Binary Value", 1), Of("analogvalue", 1),
             Of("MSI", 1), Of("analoginput", 0)>>]

MCNormalise(name) ==
  CASE name = "AnalogInput" -> "analoginput"
    [] name = "binary-output" -> "binary_output"
    [] name = "Analog Output" -> "analog_output"
    [] name = "Binary Value" -> "binary_value"
    [] name = "MSI" -> "msi"
    [] OTHER -> name

Group(lo, hi, p) == [lo |-> lo, hi |-> hi, profile |-> p]

MCConfigs ==
  {Demo, <<>>, <<Group(1, 1, "lab")>>, <<Group(1, 2, "ahu")>>, <<Group(2, 1, "ahu"), Group(2, 2, "vav")>>,
   <<Group(1, 1, "none"), Group(2, 2, "ahu")>>, <<Group(1, 2, "ahu"), Group(2, 2, "vav")>>,
   <<Group(1, 1, "vav"), Group(1, 1, "none"), Group(1, 1, "ahu")>>}

\* Floating-point numbers with a significand of three bits, 4 to 7 times 1, 2
\* or 4, and the ones below the normal range.
MCSingles == 0..7 \cup {8, 10, 12, 14} \cup {16, 20, 24, 28}

MCEvenSingles == {0, 2, 4, 6, 8, 12, 16, 24}

\* A single, ones in the middle (9 to be rounded down, 30 up to infinity), one
\* nearer to the next, the last one that stays finite, and one out of range.
MCNumbers == {5, 9, 19, 29, 30, 40}

\* 28 February to 1 March and 30 December to 1 January around 1970, 2000, 2023, 2024 and 2100.
MCDays ==
  {0, 30, 31, 58, 59, 364, 365, 788, 789, 790, 10956, 10957, 11015, 11016, 11017, 11322, 11323,
   19416, 19417, 19722, 19723, 19781, 19782, 19783, 20088, 20089, 47540, 47541, 47542, 47846, 47847}
=============================================================================
