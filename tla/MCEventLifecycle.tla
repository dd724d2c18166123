-------------------------- MODULE MCEventLifecycle --------------------------
(* Instances of EventLifecycle for TLC.                                    *)
EXTENDS EventLifecycle, TLC

CONSTANTS e1, e2, gA, gB, d1, d2, p1, p2

(* e1 of the preferred program gA starts inside e2 of gB, and both end     *)
(* within the bound on time.                                               *)
MCProg     == (e1 :> gA) @@ (e2 :> gB)
MCPrimacy  == (gA :> 1) @@ (gB :> 2)
MCCreated  == (e1 :> 1) @@ (e2 :> 2)
MCStart    == (e1 :> 2) @@ (e2 :> 1)
MCDuration == (e1 :> 1) @@ (e2 :> 3)
MCNoWind   == (e1 :> 0) @@ (e2 :> 0)
MCWind     == (e1 :> 0) @@ (e2 :> 1)

(* The two programs share d1. *)
MCOneDevice  == (gA :> {d1}) @@ (gB :> {d1})
MCTwoDevices == (gA :> {d1}) @@ (gB :> {d1, d2})

(* Two events of one program, one after the other. *)
MCSameProg   == (e1 :> gA) @@ (e2 :> gA)
MCBackToBack == (e1 :> 1) @@ (e2 :> 2)
MCEqual      == (e1 :> 1) @@ (e2 :> 1)
=============================================================================
