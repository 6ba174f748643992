------------------------------- MODULE MCCamera -------------------------------
(***************************************************************************)
(* Instances of Camera for TLC: a thread h1 of the host, the sketch        *)
(* k, two frame buffers of which one is a screen.                          *)
(***************************************************************************)
EXTENDS Camera

CONSTANTS h1, k

CameraAndScreen == <<[key |-> 2, direction |-> "in"], [key |-> 5, direction |-> "out"]>>
Unordered == <<[key |-> 5, direction |-> "out"], [key |-> 2, direction |-> "in"]>>
OneColour == {<<1, 2, 3>>}
Small == << <<2, 1>> >>
===============================================================================
