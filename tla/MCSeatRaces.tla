---------------------------- MODULE MCSeatRaces ----------------------------
\* The values of MCSeat for SeatRaces.
EXTENDS MCSeat, SeatRaces
=============================================================================
