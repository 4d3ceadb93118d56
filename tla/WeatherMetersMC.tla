-------------------------- MODULE WeatherMetersMC --------------------------
(* WeatherMeters with a dead time of its own for each channel, and the       *)
(* readings on both sides of every boundary of the table.                    *)
EXTENDS WeatherMeters

MCDebounce == [ch \in {"rain", "wind"} |-> IF ch = "rain" THEN 3 ELSE 1]

MCADC == {Middle(i) : i \in Entries \ {Last}} \cup {Middle(i) + 1 : i \in Entries \ {Last}}
         \cup {1, numbers[Last] - 1, numbers[Last], 4095}
=============================================================================
