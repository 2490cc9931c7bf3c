----------------------------- MODULE PollClaims -----------------------------
(***************************************************************************)
(* What issues.py says of the issues and the code does not keep.           *)
(***************************************************************************)
EXTENDS MCPoll

(***************************************************************************)
(* "Shown ... while the problem lasts and removed automatically once it is *)
(* gone" (issues.py): no issue about the clock is shown while the clock    *)
(* read last was right.  The first poll that fails compares the clock read *)
(* one scan interval ago with the time now.                                *)
(***************************************************************************)
RightClockHasNoIssue ==
  entry = "loaded" /\ data[Clock] = "usual" => Clock \notin issues
=============================================================================
