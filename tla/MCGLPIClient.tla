---------------------------- MODULE MCGLPIClient ----------------------------
(* Instances of GLPIClient for TLC. *)
EXTENDS GLPIClient

CONSTANTS json, raw, upload

\* One request of each kind.
Kind == [r \in Request |-> IF r = json THEN "json" ELSE IF r = raw THEN "raw" ELSE "upload"]
=============================================================================
