--------------------------- MODULE SDI12ExchangeMC ---------------------------
(***************************************************************************)
(* Sensors for TLC: conforming ones at the ends of the tolerances, with    *)
(* characters that end in 0, in 1 and in a whole run of 1s, the longest    *)
(* reply of the standard, and sensors that are late, pause in the middle   *)
(* or talk without end.                                                    *)
(***************************************************************************)
EXTENDS SDI12Exchange

Ascii(code) == {b \in 0 .. 6 : (code \div 2 ^ b) % 2 = 1}
Text(codes) == [k \in 1 .. Len(codes) |-> Ascii(codes[k])] \o <<Ascii(13), Ascii(10)>>

\* "0+1.7", every character over and over, and the character DEL, all 1s.
Short(address) == Text(<<address, 43, 49, 46, 55>>)
Ones(address) == Text(<<address, 127, 0, 127, 85>>)
Long(length) == Text([k \in 1 .. length |-> IF k = 1 THEN 50 ELSE k])

MCSensors ==
    [reply : {Short(48), Ones(49)}, latency : {8500, 15000}, gaps : {{0, 1660}}, bit : {829, 833, 907}]
    \cup [reply : {Long(79)}, latency : {15000}, gaps : {{0}}, bit : {833}]
    \cup [reply : {Short(51)}, latency : {60000}, gaps : {{0}}, bit : {833}]
    \cup [reply : {Short(52)}, latency : {15000}, gaps : {{0, 30000}}, bit : {833}]
    \cup [reply : {Long(118)}, latency : {15000}, gaps : {{0}}, bit : {833}]
=============================================================================
