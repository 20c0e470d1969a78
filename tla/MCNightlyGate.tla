---------------------------- MODULE MCNightlyGate ----------------------------
(* Four days; a day of eight hours, so that the window's slack of four has   *)
(* room for a late event, a late gate and a commit with an older date.       *)
EXTENDS NightlyGate
=============================================================================
