---------------------------- MODULE MCGDelivery ----------------------------
(***************************************************************************)
(* Model values for TLC.                                                   *)
(***************************************************************************)
EXTENDS GDelivery, TLC

CONSTANTS j1, j2, t1, t2, h1, h2

OneJob == {j1}
TwoJobs == {j1, j2}
TwoTasks == {t1, t2}
OneHandler == {h1}
TwoHandlers == {h1, h2}
=============================================================================
