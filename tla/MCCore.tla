------------------------------- MODULE MCCore -------------------------------
(* A small daemon for TLC: the core, the logger and a domain object. The     *)
(* second version of the configuration changes one section, adds one and     *)
(* leaves the core's alone, or changes the core's too.                       *)
EXTENDS Core, TLC

CONSTANTS core, logger, domain, t1, t2

MCObjects  == {core, logger, domain}
MCStartup  == logger :> 0 @@ core :> 1 @@ domain :> 1
MCShutdown == domain :> 0 @@ core :> 1 @@ logger :> 2

\* The domain appears in version 2, the logger changes, the core stays.
MCGrow == << (core :> 1 @@ logger :> 1 @@ domain :> 0),
             (core :> 1 @@ logger :> 2 @@ domain :> 1) >>

\* Version 2 changes the core and the domain, version 3 the domain again.
MCChange == << (core :> 1 @@ logger :> 1 @@ domain :> 1),
               (core :> 2 @@ logger :> 1 @@ domain :> 2),
               (core :> 2 @@ logger :> 1 @@ domain :> 3) >>

ThreadSymmetry == Permutations({t1, t2})

MCFixed == << (core :> 1 @@ logger :> 1 @@ domain :> 1) >>
=============================================================================
