------------------------------ MODULE HostRoutes ------------------------------
(***************************************************************************)
(* The routes and filters of macOS and Windows (platform/macos.rs,         *)
(* windows.rs) and the routes of Android (android.rs).  macOS and Windows  *)
(* must find the physical interface, which the direct outbound binds its   *)
(* sockets to, among routes they change themselves; Android puts its       *)
(* routes beside the host's own.                                           *)
(* Every call may fail; a failure is logged and set-up goes on.            *)
(***************************************************************************)
EXTENDS Naturals, Sequences

\* A route: the prefix (all, excluded, the host itself), the interface, and the next hop.
Route_(f, dst, dev, gw) == [fam |-> f, dst |-> dst, dev |-> dev, gw |-> gw]

\* The default route of the host, present for the families it has a connection for.
Physical(fams) == {Route_(f, "default", "phys", "gateway") : f \in fams}

\* What a query for the default route may answer.  macOS splits the TUN's routes into
\* prefixes none of which is the default; Windows sorts by RouteMetric, where the TUN's
\* route has 0, and picks any of the first.
DefaultRoutes(os, rs, f, metric) ==
    LET phys == {r \in rs : r.fam = f /\ r.dst = "default" /\ r.dev = "phys"}
        tun == {r \in rs : r.fam = f /\ r.dst = "all"}
    IN  IF os = "macos" THEN phys
        ELSE IF tun # {} /\ metric > 0 THEN tun
        ELSE phys \cup tun

-----------------------------------------------------------------------------
(* The steps of setup, in order *)

Only(c, f, s) == IF f \in c.fams THEN <<s>> ELSE <<>>

MacSetup(c) ==
    <<"register">> \o Only(c, "v4", "auto_v4") \o Only(c, "v6", "auto_v6")
      \o (IF c.excl THEN Only(c, "v4", "excl_v4") \o Only(c, "v6", "excl_v6") ELSE <<>>)

\* Windows set-up that looks for the physical interface when the routes are there.
WindowsSetupLate(c) ==
    <<"addresses">> \o Only(c, "v4", "auto_v4") \o Only(c, "v6", "auto_v6")
      \o <<"register", "bypass">>
      \o (IF c.excl THEN Only(c, "v4", "excl_v4") \o Only(c, "v6", "excl_v6") ELSE <<>>)
      \o (IF c.strict THEN <<"wfp">> ELSE <<>>)

\* The bypass route goes first, while the default route is still the physical one.
WindowsSetup(c) ==
    <<"register", "bypass", "addresses">>
      \o Only(c, "v4", "auto_v4") \o Only(c, "v6", "auto_v6")
      \o (IF c.excl THEN Only(c, "v4", "excl_v4") \o Only(c, "v6", "excl_v6") ELSE <<>>)
      \o (IF c.strict THEN <<"wfp">> ELSE <<>>)

\* add_auto_routes, or route add -interface: recorded whether or not it worked.
AutoRoute(os, rs, f) ==
    rs \cup {Route_(f, "all", "tun", IF os = "macos" THEN "link" ELSE "server")}

\* The excluded prefixes through the gateway the query answers: on macOS on the interface
\* that has the gateway, on Windows on the TUN's own.
ExcludeRoute(os, rs, f, found) ==
    rs \cup {Route_(f, "excl", IF os = "macos" THEN found.dev ELSE "tun", found.gw)}

\* add_reflex_bypass: delete, then add, the host's address on the interface found.
BypassRoute(rs, found) ==
    {r \in rs : r.dst # "self" \/ r.dev # found.dev}
      \cup {Route_("v4", "self", found.dev, found.gw)}

\* remove_reflex_bypass asks again for the interface.
RemoveBypass(rs, found) == {r \in rs : r.dst # "self" \/ r.dev # found.dev}

\* teardown: the recorded routes, then the excluded ones.  DeleteIpForwardEntry2 needs the
\* same next hop; netsh, tried after it, does without.
DeleteRoutes(rs, c) ==
    {r \in rs : ~(r.dst = "all" /\ r.dev = "tun") /\ ~(c.excl /\ r.dst = "excl")}

-----------------------------------------------------------------------------
(* android.rs: `ip route add <cidr> dev <tun>` and `ip route del <cidr>` on *)
(* the main table.  One prefix per family, for which the host has a route,  *)
(* stands for any number of them.                                           *)

\* The metric of a route added without one: 0, or 1024 for IPv6, for which 1 stands.
TunMetric(f) == IF f = "v4" THEN 0 ELSE 1

MetricOf(r, metric) == IF r.dev = "phys" THEN metric ELSE TunMetric(r.fam)

MainRoutes(rs, f) == {r \in rs : r.fam = f /\ r.dst = "default"}

TunRoute(f) == Route_(f, "default", "tun", "link")

\* `ip route add` of setup: refused where the prefix has a route of the same metric.
AddMainRoutes(rs, fams, metric) ==
    rs \cup {TunRoute(f) : f \in {g \in fams :
                \A r \in MainRoutes(rs, g) : MetricOf(r, metric) # TunMetric(g)}}

\* `ip route del` of teardown for both families, recorded or not.
DeleteAllMainRoutes(rs, c, metric) ==
    {r \in rs : \E q \in MainRoutes(rs, r.fam) : MetricOf(q, metric) < MetricOf(r, metric)}

\* `ip route del` of teardown names no device: the route with the lowest metric goes, for
\* every prefix, since each is recorded whether or not it could be added.
DeleteMainRoutes(rs, c, metric) ==
    {r \in rs : r.fam \in c.fams =>
        \E q \in MainRoutes(rs, r.fam) : MetricOf(q, metric) < MetricOf(r, metric)}

-----------------------------------------------------------------------------
(* create_strict_session: the filters of WFP, by weight *)

Filter(f, weight, cond, action) == [fam |-> f, weight |-> weight, cond |-> cond, action |-> action]

StrictSession(c) ==
    (UNION {{Filter(f, 13, "self", "permit"), Filter(f, 10, "dns", "block")} : f \in {"v4", "v6"}})
      \cup {Filter(f, 12, "any", "block") : f \in {"v4", "v6"} \ c.fams}
      \cup {Filter(f, 11, "tun", "permit") : f \in c.fams}

\* A connection: of the process itself, on the TUN, to port 53.
Connection == [fam : {"v4", "v6"}, self : BOOLEAN, tun : BOOLEAN, dns : BOOLEAN]

\* The filter with the highest weight decides; nothing matching, it is permitted.
Verdict(filters, k) ==
    LET Applies(w) == w.fam = k.fam /\ CASE w.cond = "self" -> k.self
                                         [] w.cond = "tun" -> k.tun
                                         [] w.cond = "dns" -> k.dns
                                         [] w.cond = "any" -> TRUE
        on == {w \in filters : Applies(w)}
    IN  IF on = {} THEN "permit"
        ELSE (CHOOSE w \in on : \A x \in on : x.weight <= w.weight).action

\* What strict_route asks for: our own connections pass, a family without an address is
\* cut off, and DNS leaves through the TUN only.
Permitted(c, k) ==
    k.self \/ (k.fam \in c.fams /\ (k.dns => k.tun))
=============================================================================
