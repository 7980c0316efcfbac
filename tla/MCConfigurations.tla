------------------------- MODULE MCConfigurations -------------------------
(* A small instance of Configurations: an application with the default      *)
(* configuration, its successor, which also has the configuration           *)
(* "reporting", and a library scope, over two entities.                     *)
EXTENDS Configurations, TLC

CONSTANTS a, b, r, e, f

MCApp      == (a :> "first") @@ (b :> "second") @@ (r :> "second")
MCName     == (a :> Default) @@ (b :> Default) @@ (r :> "reporting")
MCFeatures == (a :> {e, f}) @@ (b :> {e}) @@ (r :> {f})
===========================================================================
