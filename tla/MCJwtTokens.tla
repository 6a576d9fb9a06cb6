---------------------------- MODULE MCJwtTokens ----------------------------
(* Small instances of JwtTokens.  One tick is half an hour, and the day is  *)
(* cut to four hours: what matters is that a clean-up fits between the end  *)
(* of an overlap window and the next rotation.                              *)
EXTENDS JwtTokens

NoFaults == {}

ASSUME ScheduleAssumption == OrderlySchedule
=============================================================================
