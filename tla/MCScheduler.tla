---------------------------- MODULE MCScheduler ----------------------------
(***************************************************************************)
(* TLC instance of Scheduler.                                              *)
(***************************************************************************)
EXTENDS Scheduler

CONSTANTS t1, t2
TwoIds == {t1, t2}
MCCronTimes == {2}
MCAts == {2}
MCPeriods == {2}
=============================================================================
