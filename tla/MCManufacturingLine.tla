------------------------ MODULE MCManufacturingLine ------------------------
(* Small instances of ManufacturingLine for TLC.                           *)
EXTENDS ManufacturingLine

\* The generator is no employee: a pair of another line.
MCGenerator == <<NumLines, NumSteps>>
\* The storage area is empty enough or too full: both changes of the hysteresis.
TwoLevels == {"low", "high"}
=============================================================================
