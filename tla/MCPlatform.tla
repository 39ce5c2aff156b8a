------------------------------ MODULE MCPlatform ------------------------------
(***************************************************************************)
(* The platform side: the life of a TUN inbound with the rules and routes  *)
(* it sets up and takes back (TunRun), and the arithmetic that makes those *)
(* rules and routes out of the configuration (RouteSets), over every small *)
(* input.  A behaviour is one of `part`: the computation has no state of   *)
(* its own and is done before anything is set up.                          *)
(***************************************************************************)
EXTENDS TunRun, RouteSets

VARIABLE part

Ranges == {r \in Uid \X Uid : r[1] <= r[2] \/ r = <<2, 1>>}
RangeSets == {{}} \cup {{r, q} : r, q \in Ranges}

ExcludeSets == {{}} \cup {{e} : e \in AnyPrefix} \cup {{e, f} : e \in AnyPrefix, f \in Prefix}

\* A configuration for the parts that do not run.
AnyConfig == CHOOSE c \in Configs("macos") : TRUE

Init ==
    /\ part \in {"run", "uid", "routes"} /\ RunInit
    /\ part # "run" => os = "macos" /\ cfg = AnyConfig
    /\ SetsInit

Next ==
    \/ part = "run" /\ RunNext /\ UNCHANGED <<part, routeSetVars>>
    \/ /\ part = "uid" /\ part' = "done" /\ UNCHANGED runVars
       /\ \E inc, exc \in RangeSets : ComputeUids(inc, exc)
    \/ /\ part = "routes" /\ part' = "done" /\ UNCHANGED runVars
       /\ \E r \in Prefix, es \in ExcludeSets : ComputeRoutes(r, es)

Spec == Init /\ [][Next]_<<part, runVars, routeSetVars>>
=============================================================================
