---------------------------- MODULE MCDDelivery ----------------------------
(***************************************************************************)
(* Model values for TLC.                                                   *)
(***************************************************************************)
EXTENDS DDelivery

CONSTANTS p1, p2, h1, h2

OnePayload == {p1}
TwoPayloads == {p1, p2}
OneHandler == {h1}
TwoHandlers == {h1, h2}
=============================================================================
