-------------------------- MODULE ExceptionCaptureMC --------------------------
(* ExceptionCapture on small instances.                                     *)
EXTENDS ExceptionCapture

CONSTANTS p1, p2, storm, other, fault, report, r1, r2

Prints == (storm :> "a") @@ (other :> "b") @@ (fault :> "c") @@ (report :> "d")
Keys == (storm :> "s") @@ (other :> "o") @@ (fault :> "f") @@ (report :> "r")
(* A rolling deploy.                                                        *)
Releases == (p1 :> r1) @@ (p2 :> r2)

Raising(a, b, c) ==
  (p1 :> ((storm :> a) @@ (other :> b))) @@ (p2 :> ((storm :> c) @@ (other :> 0)))

(* A storm that overflows one process, which stops; and a race of two       *)
(* processes and an administrator for one issue.                            *)
Scenarios ==
  {[raises |-> Raising(3, 1, 0), faults |-> 2, stops |-> 1, triages |-> 0],
   [raises |-> Raising(1, 0, 1), faults |-> 1, stops |-> 0, triages |-> 2]}
===============================================================================
