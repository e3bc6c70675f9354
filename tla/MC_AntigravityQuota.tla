-------------------------- MODULE MC_AntigravityQuota --------------------------
(* One account and one of its models.  The interval is 1, the window 2 and *)
(* the block 3 units of 30 seconds: a block outlives a window, as the 15   *)
(* minutes do.                                                             *)
EXTENDS AntigravityQuota

CONSTANTS r1, r2, r3, m1
=============================================================================
