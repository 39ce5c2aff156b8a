----------------------------- MODULE TunRunProofs -----------------------------
(***************************************************************************)
(* Theorems about the life of a TUN inbound, for any priorities, number of *)
(* runs, failed commands, aborts and crashes: the outbound is not bound to *)
(* the TUN, teardown takes away the run's own rules, routes and filters    *)
(* (TeardownRestores names what may be left) and, unless Android's routes  *)
(* come second, none of the host's, and packets go where they are asked to.*)
(***************************************************************************)
EXTENDS TunRun, SequenceTheorems, FiniteSetTheorems, WellFoundedInduction, TLAPS

LEMMA ConfigType == ASSUME NEW o, NEW c \in Configs(o),
                           o \in {"linux", "android", "macos", "windows"}
                    PROVE  c \in Config /\ c.fams \subseteq {"v4", "v6"}
  BY DEF Configs, Config

-----------------------------------------------------------------------------
(* The steps of set-up on macOS and Windows                                 *)

HostSteps(c) ==
    {"bypass", "addresses", "auto_v4", "auto_v6"}
      \cup (IF c.excl THEN {"excl_v4", "excl_v6"} ELSE {})

LEMMA OnlyType == ASSUME NEW c, NEW f, NEW S, NEW s \in S
                  PROVE  Only(c, f, s) \in Seq(S)
  BY DEF Only

\* A sequence of `rest` behind a first element.
Leads(s, first, rest) ==
    /\ s \in Seq(rest \cup {first}) /\ Len(s) \in Nat \ {0} /\ s[1] = first
    /\ \A i \in 2 .. Len(s) : s[i] \in rest

LEMMA LeadsExtended ==
    ASSUME NEW S, NEW a, NEW s, NEW t \in Seq(S), Leads(s, a, S)
    PROVE  Leads(s \o t, a, S)
  <1> DEFINE T == S \cup {a}
  <1>1. s \in Seq(T) /\ t \in Seq(T) /\ Len(s) \in Nat \ {0} /\ Len(t) \in Nat
    BY SeqMonotonic, LenProperties DEF Leads
  <1>2. /\ s \o t \in Seq(T) /\ Len(s \o t) = Len(s) + Len(t)
        /\ \A i \in 1 .. Len(s) + Len(t) :
              (s \o t)[i] = IF i <= Len(s) THEN s[i] ELSE t[i - Len(s)]
    BY <1>1, ConcatProperties
  <1>3. (s \o t)[1] = a
    BY <1>1, <1>2 DEF Leads
  <1>4. ASSUME NEW i \in 2 .. Len(s \o t) PROVE (s \o t)[i] \in S
    <2>1. i \in 1 .. Len(s) + Len(t)
      BY <1>1, <1>2
    <2>2. CASE i <= Len(s)
      BY <1>1, <1>2, <2>1, <2>2 DEF Leads
    <2>3. CASE ~(i <= Len(s))
      <3>1. i - Len(s) \in 1 .. Len(t)
        BY <1>1, <2>1, <2>3
      <3> QED BY <1>2, <2>1, <2>3, <3>1, ElementOfSeq
    <2> QED BY <2>2, <2>3
  <1> QED BY <1>1, <1>2, <1>3, <1>4 DEF Leads

\* The search for the physical interface is the first step and only that.
LEMMA SearchComesFirst ==
    ASSUME NEW c
    PROVE  /\ Leads(MacSetup(c), "register", HostSteps(c))
           /\ Leads(WindowsSetup(c), "register", HostSteps(c) \cup {"wfp"})
  <1> DEFINE auto4 == Only(c, "v4", "auto_v4")
             auto6 == Only(c, "v6", "auto_v6")
             excl == IF c.excl THEN Only(c, "v4", "excl_v4") \o Only(c, "v6", "excl_v6") ELSE <<>>
             wfp_ == IF c.strict THEN <<"wfp">> ELSE <<>>
             first == <<"register", "bypass", "addresses">>
             H == HostSteps(c)
             W == HostSteps(c) \cup {"wfp"}
  <1>1. auto4 \in Seq(H) /\ auto6 \in Seq(H) /\ <<>> \in Seq(H)
    <2>1. "auto_v4" \in H /\ "auto_v6" \in H
      BY DEF HostSteps
    <2> HIDE DEF H
    <2> QED BY <2>1, OnlyType
  <1>2. excl \in Seq(H)
    <2>1. CASE c.excl
      <3>1. "excl_v4" \in H /\ "excl_v6" \in H
        BY <2>1 DEF HostSteps
      <3> HIDE DEF H
      <3>2. Only(c, "v4", "excl_v4") \in Seq(H) /\ Only(c, "v6", "excl_v6") \in Seq(H)
        BY <3>1, OnlyType
      <3> QED BY <2>1, <3>2, ConcatProperties
    <2>2. CASE ~c.excl
      BY <2>2, EmptySeq
    <2> QED BY <2>1, <2>2
  <1>3. wfp_ \in Seq(W) /\ \A t \in Seq(H) : t \in Seq(W)
    <2>1. "wfp" \in W /\ H \subseteq W
      OBVIOUS
    <2> HIDE DEF H, W
    <2> QED BY <2>1, SeqMonotonic
  <1>4. MacSetup(c) = <<"register">> \o auto4 \o auto6 \o excl
    BY DEF MacSetup
  <1>5. WindowsSetup(c) = first \o auto4 \o auto6 \o excl \o wfp_
    BY DEF WindowsSetup
  <1>6. Leads(<<"register">>, "register", H)
    BY DEF Leads
  <1>7. Leads(first, "register", W)
    BY DEF Leads, HostSteps
  <1> HIDE DEF H, W, auto4, auto6, excl, wfp_, first
  <1>8. /\ \A s, t : Leads(s, "register", H) /\ t \in Seq(H) => Leads(s \o t, "register", H)
        /\ \A s, t : Leads(s, "register", W) /\ t \in Seq(W) => Leads(s \o t, "register", W)
    BY LeadsExtended
  <1>9. Leads(MacSetup(c), "register", H)
    BY <1>1, <1>2, <1>4, <1>6, <1>8
  <1>10. Leads(WindowsSetup(c), "register", W)
    BY <1>1, <1>2, <1>3, <1>5, <1>7, <1>8
  <1> QED BY <1>9, <1>10 DEF H, W

-----------------------------------------------------------------------------
(* The routes and the interface of the outbound                             *)

\* Which step set-up is at, and what that allows.
LEMMA HostStepKind ==
    ASSUME os \in {"macos", "windows"}, pc \in Nat \ {0}, pc <= SetupLength
    PROVE  LET step == IF os = "macos" THEN MacSetup(cfg)[pc] ELSE WindowsSetup(cfg)[pc] IN
            /\ pc = 1 => step = "register"
            /\ pc # 1 => \/ step \in HostSteps(cfg)
                         \/ os = "windows" /\ step = "wfp"
  <1>1. /\ Leads(MacSetup(cfg), "register", HostSteps(cfg))
        /\ Leads(WindowsSetup(cfg), "register", HostSteps(cfg) \cup {"wfp"})
    BY SearchComesFirst
  <1>2. CASE os = "macos"
    BY <1>1, <1>2 DEF Leads, SetupLength
  <1>3. CASE os = "windows"
    BY <1>1, <1>3 DEF Leads, SetupLength
  <1> QED BY <1>2, <1>3

\* What a query for the default route can find.
LEMMA DefaultRoutesAre ==
    ASSUME NEW o, NEW rs, NEW f, NEW m, NEW r \in DefaultRoutes(o, rs, f, m)
    PROVE  r \in rs /\ (o = "macos" => r.dev = "phys")
  BY DEF DefaultRoutes

LEMMA HostStepOnRoutes ==
    ASSUME NEW ok \in BOOLEAN, HostStep(ok), RunTypeOK, RoutesInv, NoRouteYet, BoundOutside,
           phase = "setup", pc <= SetupLength, UNCHANGED <<os, cfg>>
    PROVE  RoutesInv' /\ BoundOutside' /\ UNCHANGED <<rules, recorded>>
  <1> DEFINE step == IF os = "macos" THEN MacSetup(cfg)[pc] ELSE WindowsSetup(cfg)[pc]
             f == IF step \in {"auto_v6", "excl_v6"} THEN "v6" ELSE "v4"
             Found(g) == DefaultRoutes(os, routes, g, metric)
             host == {r \in routes : r.dev = "phys" /\ r.dst \notin {"self", "excl"}}
  <1>1. os \in {"macos", "windows"} /\ UNCHANGED <<rules, recorded>>
    BY DEF HostStep
  <1>2. /\ pc = 1 => step = "register"
        /\ pc # 1 => step \in HostSteps(cfg) \/ (os = "windows" /\ step = "wfp")
    BY <1>1, HostStepKind DEF RunTypeOK
  <1>3. \A g : \A r \in Found(g) :
            /\ r \in routes
            /\ r.dev \in {"phys", "tun", "oldtun"} /\ r.gw \in {"gateway", "link", "server"}
            /\ os = "macos" => r.dev = "phys"
    BY DefaultRoutesAre DEF RoutesInv
  <1>4. \/ UNCHANGED <<routes, registered, wfp, filters>>
        \/ /\ step = "register"
           /\ \E reg \in [{"v4", "v6"} -> {r.dev : r \in routes}] :
                 /\ \A g \in {"v4", "v6"} : \E r \in Found(g) : r.dev = reg[g]
                 /\ registered' = reg
           /\ UNCHANGED <<routes, wfp, filters>>
        \/ /\ \E r \in Found("v4") : routes' = BypassRoute(routes, r)
           /\ UNCHANGED <<registered, wfp, filters>>
        \/ routes' = AutoRoute(os, routes, f) /\ UNCHANGED <<registered, wfp, filters>>
        \/ /\ step \in {"excl_v4", "excl_v6"}
           /\ \E r \in Found(f) : routes' = ExcludeRoute(os, routes, f, r)
           /\ UNCHANGED <<registered, wfp, filters>>
        \/ /\ step = "wfp" /\ wfp' = wfp \cup {starts} /\ filters' = StrictSession(cfg)
           /\ UNCHANGED <<routes, registered>>
    <2>1. step \in {"register", "bypass", "addresses", "auto_v4", "auto_v6",
                    "excl_v4", "excl_v6", "wfp"}
      BY <1>2 DEF HostSteps
    <2> QED BY <2>1 DEF HostStep
  <1>11. f \in {"v4", "v6"}
    OBVIOUS
  <1> HIDE DEF step, f, Found
  <1>5. CASE UNCHANGED <<routes, registered, wfp, filters>>
    BY <1>1, <1>5 DEF RoutesInv, BoundOutside
  <1>6. CASE step = "register" /\ UNCHANGED <<routes, wfp, filters>>
             /\ \E reg \in [{"v4", "v6"} -> {r.dev : r \in routes}] :
                 /\ \A g \in {"v4", "v6"} : \E r \in Found(g) : r.dev = reg[g]
                 /\ registered' = reg
    <2>1. pc = 1
      BY <1>2, <1>6 DEF HostSteps
    <2>2. \A g \in {"v4", "v6"} : \E r \in Found(g) : r.dev = registered'[g]
      BY <1>6
    <2>3. \A r \in routes : r.dev # "tun"
      BY <1>1, <2>1 DEF NoRouteYet
    <2>4. BoundOutside'
      BY <1>1, <1>3, <2>2, <2>3 DEF BoundOutside
    <2> QED BY <1>1, <1>6, <2>4 DEF RoutesInv
  <1>7. CASE /\ \E r \in Found("v4") : routes' = BypassRoute(routes, r)
             /\ UNCHANGED <<registered, wfp, filters>>
    <2>1. PICK r \in Found("v4") : routes' = BypassRoute(routes, r)
      BY <1>7
    <2>2. r.dev \in {"phys", "tun", "oldtun"} /\ r.gw \in {"gateway", "link", "server"}
      BY <1>3
    <2>3. \A q \in routes' : q \in routes \/ q = Route_("v4", "self", r.dev, r.gw)
      BY <2>1 DEF BypassRoute
    <2>4. \A q \in routes : q.dst # "self" => q \in routes'
      BY <2>1 DEF BypassRoute
    <2>5. {q \in routes' : q.dev = "phys" /\ q.dst \notin {"self", "excl"}} = host
      BY <2>3, <2>4 DEF Route_
    <2> QED BY <1>1, <1>7, <2>2, <2>3, <2>5 DEF RoutesInv, BoundOutside, Route_
  <1>8. CASE routes' = AutoRoute(os, routes, f) /\ UNCHANGED <<registered, wfp, filters>>
    <2>1. PICK gw \in {"link", "server"} : routes' = routes \cup {Route_(f, "all", "tun", gw)}
      BY <1>8 DEF AutoRoute
    <2>2. {q \in routes' : q.dev = "phys" /\ q.dst \notin {"self", "excl"}} = host
      BY <2>1 DEF Route_
    <2> QED BY <1>1, <1>8, <1>11, <2>1, <2>2 DEF RoutesInv, BoundOutside, Route_
  <1>9. CASE /\ step \in {"excl_v4", "excl_v6"}
             /\ \E r \in Found(f) : routes' = ExcludeRoute(os, routes, f, r)
             /\ UNCHANGED <<registered, wfp, filters>>
    <2>1. PICK dev \in {"phys", "tun", "oldtun"}, gw \in {"gateway", "link", "server"} :
            routes' = routes \cup {Route_(f, "excl", dev, gw)}
      BY <1>3, <1>9 DEF ExcludeRoute
    <2>2. cfg.excl
      BY <1>2, <1>9 DEF HostSteps
    <2>3. {q \in routes' : q.dev = "phys" /\ q.dst \notin {"self", "excl"}} = host
      BY <2>1 DEF Route_
    <2> QED BY <1>1, <1>9, <1>11, <2>1, <2>2, <2>3 DEF RoutesInv, BoundOutside, Route_
  <1>10. CASE /\ step = "wfp" /\ wfp' = wfp \cup {starts} /\ filters' = StrictSession(cfg)
              /\ UNCHANGED <<routes, registered>>
    <2>1. os = "windows"
      BY <1>2, <1>10 DEF HostSteps
    <2> QED BY <1>1, <1>10, <2>1 DEF RoutesInv, BoundOutside
  <1> QED BY <1>1, <1>4, <1>5, <1>6, <1>7, <1>8, <1>9, <1>10

LEMMA TypeStep == RunTypeOK /\ [RunNext]_runVars => RunTypeOK'
  <1> SUFFICES ASSUME RunTypeOK, [RunNext]_runVars PROVE RunTypeOK'
    OBVIOUS
  <1>1. CASE SetupStep
    <2>1. UNCHANGED <<os, cfg, phase, abandoned, metric>> /\ phase = "setup" /\ pc' = pc + 1
      BY <1>1 DEF SetupStep
    <2> QED BY <2>1 DEF RunTypeOK
  <1>2. CASE NewStack
    BY <1>2 DEF RunTypeOK, NewStack
  <1>3. CASE CreateDevice \/ AddRoutes
    BY <1>3 DEF RunTypeOK, CreateDevice, AddRoutes
  <1>4. CASE \/ StartFails \/ UserStack \/ Listen \/ Teardown
             \/ RunReturns \/ Close \/ OldDeviceGone \/ Crash \/ UNCHANGED runVars
    <2>1. /\ UNCHANGED <<os, cfg, pc, metric>>
          /\ abandoned' \in {abandoned, abandoned + 1}
          /\ \/ phase' \in {"user_stack", "serving", "torn_down", "ended"}
             \/ phase' = phase
      BY <1>4 DEF StartFails, UserStack, Listen, Teardown, RunReturns, Close,
                  OldDeviceGone, Crash, runVars
    <2> QED BY <2>1 DEF RunTypeOK
  <1> QED BY <1>1, <1>2, <1>3, <1>4 DEF RunNext

LEMMA Constants ==
    [RunNext]_runVars => UNCHANGED <<os, cfg, metric>>
  BY DEF RunNext, NewStack, CreateDevice, StartFails, AddRoutes, SetupStep, UserStack, Listen,
         Teardown, RunReturns, Close, OldDeviceGone, Crash, runVars

\* Teardown takes away no route of the physical interface but the ones set-up added.
LEMMA TeardownOnRoutes ==
    ASSUME Teardown, RunTypeOK, RoutesInv
    PROVE  /\ routes' \subseteq routes
           /\ os # "android" =>
                /\ \A r \in routes : r.dst \notin {"self", "excl", "all"} => r \in routes'
                /\ ~\E r \in routes' : r.dev = "tun" /\ r.dst = "all"
                /\ \A r \in routes' : r.dst # "excl"
           /\ os = "linux" => routes' = routes
           /\ os = "android" => routes' = DeleteMainRoutes(routes, cfg, metric)
           /\ wfp' = IF os = "windows" THEN wfp \ {starts} ELSE wfp
           /\ starts \notin callbacks' /\ UNCHANGED <<filters, registered>>
  <1>1. \A r \in DeleteRoutes(routes, cfg) :
            /\ r \in routes /\ r.dst # "excl"
            /\ ~(r.dst = "all" /\ r.dev = "tun")
    BY DEF DeleteRoutes, RoutesInv
  <1>2. \A r \in routes : r.dst \notin {"self", "excl", "all"} => r \in DeleteRoutes(routes, cfg)
    BY DEF DeleteRoutes
  <1>3. CASE os = "linux"
    <2>1. \A r \in routes : r.dst = "default" /\ r.dev = "phys"
      BY <1>3 DEF RoutesInv, Physical, Route_
    <2> QED BY <1>3, <2>1 DEF Teardown
  <1>4. CASE os = "macos"
    BY <1>1, <1>2, <1>4 DEF Teardown
  <1>5. CASE os = "windows"
    <2>1. PICK found : routes' = DeleteRoutes(RemoveBypass(routes, found), cfg)
      BY <1>5 DEF Teardown
    <2>2. /\ RemoveBypass(routes, found) \subseteq routes
          /\ \A r \in routes : r.dst # "self" => r \in RemoveBypass(routes, found)
      BY DEF RemoveBypass
    <2>3. /\ \A r \in routes' : /\ r \in routes /\ r.dst # "excl"
                                /\ ~(r.dst = "all" /\ r.dev = "tun")
          /\ \A r \in routes : r.dst \notin {"self", "excl", "all"} => r \in routes'
      BY <2>1, <2>2 DEF DeleteRoutes, RoutesInv
    <2> QED BY <1>5, <2>3 DEF Teardown
  <1>6. CASE os = "android"
    BY <1>6 DEF Teardown, DeleteMainRoutes
  <1> QED BY <1>3, <1>4, <1>5, <1>6 DEF RunTypeOK

\* The host routes of the physical interface, which nothing in a run may touch.
LEMMA HostRoutesStay ==
    ASSUME NEW S, NEW T, T \subseteq S,
           \A r \in S : r.dst \notin {"self", "excl", "all"} /\ r.dev = "phys" => r \in T,
           {r \in S : r.dev = "phys" /\ r.dst \notin {"self", "excl"}} = Physical({"v4", "v6"})
    PROVE  {r \in T : r.dev = "phys" /\ r.dst \notin {"self", "excl"}} = Physical({"v4", "v6"})
  <1>1. \A r \in Physical({"v4", "v6"}) : r.dst = "default"
    BY DEF Physical, Route_
  <1> QED BY <1>1

LEMMA PhysicalOnly ==
    ASSUME NEW S, S = Physical({"v4", "v6"})
    PROVE  \A r \in S : r.dev = "phys" /\ r.dst = "default"
  BY DEF Physical, Route_

\* Android's routes stand beside the host's; a set-up in which every command has worked
\* has left out none.
LEMMA AndroidRoutesStep ==
    ASSUME os = "android", RunTypeOK, RoutesInv, [RunNext]_runVars
    PROVE  AndroidRoutesInv'
  <1> DEFINE Shape(r, c) == \/ r \in Physical({"v4", "v6"})
                            \/ r.fam \in c.fams /\ r.dst = "default" /\ r.dev # "phys" /\ r.gw = "link"
  <1>1. AndroidRoutesInv /\ cfg' = cfg /\ os' = "android"
    BY Constants DEF RoutesInv
  <1>2. /\ \A r \in routes : Shape(r, cfg)
        /\ phase \in {"setup", "serving"} /\ ~failed => \A f \in cfg.fams : TunRoute(f) \in routes
    BY <1>1 DEF AndroidRoutesInv
  <1>3. SUFFICES /\ \A r \in routes' : Shape(r, cfg)
                 /\ phase' \in {"setup", "serving"} /\ ~failed'
                        => \A f \in cfg.fams : TunRoute(f) \in routes'
    BY <1>1 DEF AndroidRoutesInv
  <1>4. CASE AddRoutes
    <2>1. \A f : /\ TunRoute(f).fam = f /\ TunRoute(f).dst = "default"
                 /\ TunRoute(f).dev # "phys" /\ TunRoute(f).gw = "link"
      BY DEF TunRoute, Route_
    <2>2. \A f \in cfg.fams : Shape(TunRoute(f), cfg)
      BY <2>1
    <2>3. PICK lost \in SUBSET cfg.fams :
              routes' = AddMainRoutes(routes, cfg.fams \ lost, metric)
      BY <1>4 DEF AddRoutes
    <2>4. \A r \in routes' : r \in routes \/ \E f \in cfg.fams : r = TunRoute(f)
      BY <2>3 DEF AddMainRoutes
    <2>5. failed' = (failed \/ \E f \in cfg.fams : TunRoute(f) \notin routes')
      BY <1>4 DEF AddRoutes
    <2> HIDE DEF Shape
    <2> QED BY <1>2, <2>2, <2>4, <2>5
  <1>5. CASE SetupStep
    <2>1. /\ phase = "setup" /\ (~failed' => ~failed)
          /\ \E ok \in BOOLEAN : RuleStep(ok) \/ HostStep(ok)
      BY <1>5 DEF SetupStep
    <2>2. routes' = routes
      BY <2>1 DEF RuleStep, HostStep
    <2> QED BY <1>2, <2>1, <2>2
  <1>6. CASE \/ NewStack \/ CreateDevice \/ StartFails \/ UserStack \/ Listen \/ UNCHANGED runVars
    <2>1. /\ routes' = routes
          /\ \/ phase' \notin {"setup", "serving"}
             \/ phase = "setup" /\ failed' = failed
             \/ UNCHANGED <<phase, failed>>
      BY <1>1, <1>6 DEF NewStack, CreateDevice, StartFails, UserStack, Listen, runVars, kernel
    <2> QED BY <1>2, <2>1
  <1>7. CASE \/ Teardown \/ RunReturns \/ (Close /\ routes' = DeviceGone(routes)) \/ Crash
    <2>1. routes' \subseteq routes
      <3>1. Teardown => routes' \subseteq routes
        BY TeardownOnRoutes
      <3> QED BY <1>7, <3>1 DEF RunReturns, Close, Crash, DeviceGone
    <2>2. phase' \notin {"setup", "serving"}
      BY <1>7 DEF Teardown, RunReturns, Close, Crash
    <2> QED BY <1>2, <2>1, <2>2
  <1>8. CASE /\ Close
             /\ routes' = {IF r.dev = "tun" THEN [r EXCEPT !.dev = "oldtun"] ELSE r : r \in routes}
    <2>1. phase' \notin {"setup", "serving"}
      BY <1>8 DEF Close
    <2>2. ASSUME NEW r \in routes, r.dev = "tun" PROVE Shape([r EXCEPT !.dev = "oldtun"], cfg)
      <3>1. r \in [fam : {"v4", "v6"}, dst : {"default", "all", "excl", "self"},
                   dev : {"phys", "tun", "oldtun"}, gw : {"gateway", "link", "server"}]
        BY DEF RoutesInv
      <3>2. r \notin Physical({"v4", "v6"})
        BY <2>2, PhysicalOnly
      <3>3. r.fam \in cfg.fams /\ r.dst = "default" /\ r.gw = "link"
        BY <1>2, <3>2
      <3> QED BY <3>1, <3>3
    <2> HIDE DEF Shape
    <2> QED BY <1>2, <1>8, <2>1, <2>2
  <1>9. CASE OldDeviceGone
    <2>1. /\ routes' = {r \in routes : r.dev # "oldtun"} /\ UNCHANGED <<phase, failed>>
      BY <1>9 DEF OldDeviceGone
    <2>2. \A f : TunRoute(f).dev # "oldtun"
      BY DEF TunRoute, Route_
    <2> HIDE DEF Shape
    <2> QED BY <1>2, <2>1, <2>2
  <1> QED BY <1>4, <1>5, <1>6, <1>7, <1>8, <1>9 DEF RunNext, Close

\* Where the TUN's routes are there and come first, `ip route del` finds them.
LEMMA AndroidTeardownOnRoutes ==
    ASSUME Teardown, RunTypeOK, RoutesInv, os = "android", RoutesPreferred
    PROVE  /\ ~\E r \in routes' : r.dev = "tun"
           /\ \A r \in routes : r.dev = "phys" => r \in routes'
  <1>1. routes' = DeleteMainRoutes(routes, cfg, metric)
    BY TeardownOnRoutes
  <1>2. /\ \A r \in routes : \/ r \in Physical({"v4", "v6"})
                             \/ r.fam \in cfg.fams /\ r.dst = "default" /\ r.dev # "phys"
        /\ \A f \in cfg.fams : TunRoute(f) \in routes
    BY DEF RoutesInv, AndroidRoutesInv, RoutesPreferred, Teardown
  <1>3. metric \in 0 .. 2 /\ \A f \in cfg.fams : TunMetric(f) < metric
    BY DEF RunTypeOK, RoutesPreferred
  <1>4. \A f : TunRoute(f).fam = f /\ TunRoute(f).dst = "default" /\ TunRoute(f).dev = "tun"
    BY DEF TunRoute, Route_
  <1>5. \A f : TunMetric(f) \in 0 .. 1
    BY DEF TunMetric
  <1>6. ASSUME NEW r \in routes', r.dev = "tun" PROVE FALSE
    <2>1. r \in routes /\ r.fam \in cfg.fams
      BY <1>1, <1>2, <1>6, PhysicalOnly DEF DeleteMainRoutes
    <2>2. PICK q \in MainRoutes(routes, r.fam) : MetricOf(q, metric) < MetricOf(r, metric)
      BY <1>1, <2>1 DEF DeleteMainRoutes
    <2>3. q \in routes /\ q.fam = r.fam
      BY <2>2 DEF MainRoutes
    <2>4. MetricOf(r, metric) = TunMetric(r.fam)
          /\ MetricOf(q, metric) \in {metric, TunMetric(r.fam)}
      BY <1>6, <2>3 DEF MetricOf
    <2> QED BY <1>3, <1>5, <2>1, <2>2, <2>4
  <1>7. ASSUME NEW r \in routes, r.dev = "phys" PROVE r \in routes'
    <2>1. ASSUME r.fam \in cfg.fams
          PROVE  \E q \in MainRoutes(routes, r.fam) : MetricOf(q, metric) < MetricOf(r, metric)
      <3> DEFINE q == TunRoute(r.fam)
      <3>1. q \in MainRoutes(routes, r.fam)
        BY <1>2, <1>4, <2>1 DEF MainRoutes
      <3>2. MetricOf(q, metric) = TunMetric(r.fam) /\ MetricOf(r, metric) = metric
        BY <1>4, <1>7 DEF MetricOf
      <3> HIDE DEF q
      <3> QED BY <1>3, <2>1, <3>1, <3>2
    <2> QED BY <1>1, <2>1 DEF DeleteMainRoutes
  <1> QED BY <1>6, <1>7

RouteState == RunTypeOK /\ NoRouteYet /\ RoutesInv /\ BoundOutside

LEMMA RouteStep == RouteState /\ [RunNext]_runVars => RouteState'
  <1> SUFFICES ASSUME RouteState, [RunNext]_runVars PROVE RouteState'
    OBVIOUS
  <1>1. RunTypeOK /\ RunTypeOK' /\ NoRouteYet /\ RoutesInv /\ BoundOutside
    BY TypeStep DEF RouteState
  <1>2. UNCHANGED <<os, cfg>>
    BY Constants
  <1>10. os = "android" => AndroidRoutesInv'
    BY <1>1, AndroidRoutesStep
  <1>3. CASE SetupStep
    <2>1. PICK ok \in BOOLEAN : RuleStep(ok) \/ HostStep(ok)
      BY <1>3 DEF SetupStep
    <2>2. phase = "setup" /\ pc <= SetupLength /\ phase' = "setup" /\ pc' # 1
      BY <1>1, <1>3 DEF SetupStep, RunTypeOK
    <2>3. NoRouteYet'
      BY <2>2 DEF NoRouteYet
    <2>4. CASE RuleStep(ok)
      BY <1>1, <1>2, <1>10, <2>3, <2>4 DEF RouteState, RuleStep, RoutesInv, BoundOutside
    <2>5. CASE HostStep(ok)
      <3>1. RoutesInv' /\ BoundOutside'
        BY <1>1, <1>2, <2>2, <2>5, HostStepOnRoutes
      <3> QED BY <1>1, <2>3, <3>1 DEF RouteState
    <2> QED BY <2>1, <2>4, <2>5
  <1>4. CASE \/ NewStack \/ CreateDevice \/ StartFails \/ UserStack \/ Listen \/ UNCHANGED runVars
    <2>1. UNCHANGED <<routes, wfp, filters, registered>>
      BY <1>4 DEF NewStack, CreateDevice, StartFails, UserStack, Listen, runVars, kernel
    <2>2. RoutesInv' /\ BoundOutside'
      BY <1>1, <1>2, <1>10, <2>1 DEF RoutesInv, BoundOutside
    <2>3. NoRouteYet'
      BY <1>1, <1>4, <2>1 DEF NoRouteYet, RunTypeOK, NewStack, CreateDevice, StartFails,
                              UserStack, Listen, runVars
    <2> QED BY <1>1, <2>2, <2>3 DEF RouteState
  <1>9. CASE AddRoutes
    <2>1. os = "android" /\ phase' = "setup" /\ UNCHANGED <<wfp, filters, registered>>
      BY <1>1, <1>9 DEF AddRoutes, RunTypeOK
    <2>2. PICK fams \in SUBSET cfg.fams : routes' = AddMainRoutes(routes, fams, metric)
      BY <1>9 DEF AddRoutes
    <2>3. \A r \in routes' : r \in routes \/ \E f \in {"v4", "v6"} : r = TunRoute(f)
      BY <1>1, <2>2, ConfigType DEF AddMainRoutes, RunTypeOK
    <2>4. RoutesInv'
      BY <1>1, <1>2, <1>10, <2>1, <2>3 DEF RoutesInv, TunRoute, Route_
    <2> QED BY <1>1, <1>2, <2>1, <2>4 DEF RouteState, NoRouteYet, BoundOutside
  <1>5. CASE Teardown
    <2>1. phase' = "torn_down"
      BY <1>5 DEF Teardown
    <2>2. /\ routes' \subseteq routes
          /\ os # "android" => \A r \in routes : r.dst \notin {"self", "excl", "all"} => r \in routes'
          /\ os = "linux" => routes' = routes
          /\ wfp' = IF os = "windows" THEN wfp \ {starts} ELSE wfp
          /\ UNCHANGED <<filters, registered>>
      BY <1>1, <1>5, TeardownOnRoutes
    <2>3. os # "android" => {r \in routes' : r.dev = "phys" /\ r.dst \notin {"self", "excl"}}
                               = Physical({"v4", "v6"})
      BY <1>1, <2>2, HostRoutesStay DEF RoutesInv
    <2>4. RoutesInv'
      BY <1>1, <1>2, <1>10, <2>2, <2>3 DEF RoutesInv
    <2> QED BY <1>1, <1>2, <2>1, <2>2, <2>4 DEF RouteState, NoRouteYet, BoundOutside
  <1>6. CASE \/ RunReturns \/ (Close /\ routes' = DeviceGone(routes)) \/ OldDeviceGone
    <2>1. /\ routes' \subseteq routes
          /\ \A r \in routes : r.dev = "phys" => r \in routes'
          /\ RunReturns \/ Close => \A r \in routes' : r.dev # "tun"
          /\ UNCHANGED <<wfp, filters, registered>>
      BY <1>6 DEF RunReturns, Close, OldDeviceGone, DeviceGone
    <2>2. os # "android" => {r \in routes' : r.dev = "phys" /\ r.dst \notin {"self", "excl"}}
                               = Physical({"v4", "v6"})
      BY <1>1, <2>1, HostRoutesStay DEF RoutesInv
    <2>3. os = "linux" => routes' = routes
      BY <1>1, <2>1, PhysicalOnly DEF RoutesInv
    <2>4. RoutesInv'
      BY <1>1, <1>2, <1>10, <2>1, <2>2, <2>3 DEF RoutesInv
    <2>5. NoRouteYet'
      BY <1>1, <1>2, <1>6, <2>1 DEF NoRouteYet, OldDeviceGone
    <2> QED BY <1>1, <1>2, <2>1, <2>4, <2>5 DEF RouteState, BoundOutside
  <1>7. CASE /\ Close
             /\ routes' = {IF r.dev = "tun" THEN [r EXCEPT !.dev = "oldtun"] ELSE r : r \in routes}
    <2> DEFINE Kept(q) == IF q.dev = "tun" THEN [q EXCEPT !.dev = "oldtun"] ELSE q
               AnyRoute == [fam : {"v4", "v6"}, dst : {"default", "all", "excl", "self"},
                            dev : {"phys", "tun", "oldtun"}, gw : {"gateway", "link", "server"}]
    <2>1. routes \subseteq AnyRoute
      BY <1>1 DEF RoutesInv
    <2>2. \A q \in AnyRoute : Kept(q) \in AnyRoute /\ Kept(q).dst = q.dst /\ Kept(q).dev # "tun"
      OBVIOUS
    <2>3. \A q \in AnyRoute : Kept(q).dev = "phys" \/ q.dev = "phys" => Kept(q) = q
      OBVIOUS
    <2>4. routes' = {Kept(q) : q \in routes} /\ UNCHANGED <<wfp, filters, registered>>
      BY <1>7 DEF Close
    <2> HIDE DEF Kept, AnyRoute
    <2>5. /\ routes' \subseteq AnyRoute
          /\ \A q \in routes' : q.dev # "tun" /\ (q.dst = "excl" => cfg.excl)
      BY <1>1, <2>1, <2>2, <2>4 DEF RoutesInv
    <2>6. \A q : q \in routes' /\ q.dev = "phys" <=> q \in routes /\ q.dev = "phys"
      BY <2>1, <2>3, <2>4
    <2>7. os # "android" => {q \in routes' : q.dev = "phys" /\ q.dst \notin {"self", "excl"}}
                               = Physical({"v4", "v6"})
      BY <1>1, <2>6 DEF RoutesInv
    <2>8. ASSUME os = "linux" PROVE routes' = routes
      <3>1. \A q \in routes : Kept(q) = q
        BY <1>1, <2>1, <2>3, <2>8, PhysicalOnly DEF RoutesInv
      <3> QED BY <2>4, <3>1
    <2>9. RoutesInv'
      BY <1>1, <1>2, <1>10, <2>4, <2>5, <2>7, <2>8 DEF RoutesInv, AnyRoute
    <2> QED BY <1>1, <1>2, <2>4, <2>5, <2>9 DEF RouteState, NoRouteYet, BoundOutside
  <1>8. CASE Crash
    <2>1. /\ routes' \subseteq routes
          /\ \A r \in routes : r.dev = "phys" => r \in routes'
          /\ \A r \in routes' : r.dev # "tun"
          /\ wfp' = {} /\ registered' = [f \in {"v4", "v6"} |-> "none"]
      BY <1>8 DEF Crash
    <2>2. os # "android" => {r \in routes' : r.dev = "phys" /\ r.dst \notin {"self", "excl"}}
                               = Physical({"v4", "v6"})
      BY <1>1, <2>1, HostRoutesStay DEF RoutesInv
    <2>3. os = "linux" => routes' = routes
      BY <1>1, <2>1, PhysicalOnly DEF RoutesInv
    <2>4. RoutesInv'
      BY <1>1, <1>2, <1>10, <2>1, <2>2, <2>3 DEF RoutesInv
    <2> QED BY <1>1, <1>2, <2>1, <2>4 DEF RouteState, NoRouteYet, BoundOutside
  <1> QED BY <1>3, <1>4, <1>5, <1>6, <1>7, <1>8, <1>9 DEF RunNext, Close

LEMMA RouteStateInvariant == RunSpec => []RouteState
  <1>1. RunInit => RouteState
    <2> SUFFICES ASSUME RunInit PROVE RouteState
      OBVIOUS
    <2>1. RunTypeOK /\ BoundOutside
      BY DEF RunInit, RunTypeOK, BoundOutside
    <2>2. routes = Physical({"v4", "v6"}) /\ wfp = {} /\ phase = "ended"
      BY DEF RunInit
    <2>3. RoutesInv
      BY <2>2 DEF RoutesInv, AndroidRoutesInv, Physical, Route_
    <2> QED BY <2>1, <2>2, <2>3, PhysicalOnly DEF RouteState, NoRouteYet
  <1> QED BY <1>1, RouteStep, PTL DEF RunSpec

(***************************************************************************)
(* The outbound is never bound to the TUN of its own run: set-up looks for *)
(* the physical interface in its first step, before the TUN has a route,   *)
(* and the routes of an earlier run are gone with its device or belong to  *)
(* a device that was closed.                                               *)
(***************************************************************************)
THEOREM OutboundStaysOutside == RunSpec => []RegisteredIsPhysical
  <1>1. RouteState => RegisteredIsPhysical
    BY DEF RouteState, BoundOutside, RegisteredIsPhysical
  <1> QED BY <1>1, RouteStateInvariant, PTL

(***************************************************************************)
(* platform::teardown leaves the host's own routes where they are; on      *)
(* Android, where a route is deleted without naming its device, when every *)
(* route of the TUN was added and comes before the host's.                 *)
(***************************************************************************)
THEOREM HostKeepsItsRoutes == RunSpec => TeardownSparesHost
  <1> DEFINE A == phase = "serving" /\ phase' = "torn_down" /\ (os = "android" => RoutesPreferred)
                     => \A r \in routes : r.dev = "phys" /\ r.dst = "default" => r \in routes'
  <1>1. RouteState /\ [RunNext]_runVars => [A]_runVars
    <2> SUFFICES ASSUME RouteState, RunNext, phase = "serving", phase' = "torn_down",
                        os = "android" => RoutesPreferred,
                        NEW r \in routes, r.dev = "phys", r.dst = "default"
                 PROVE  r \in routes'
      OBVIOUS
    <2>1. Teardown
      BY DEF RunNext, NewStack, CreateDevice, StartFails, AddRoutes, SetupStep, UserStack,
             Listen, RunReturns, Close, OldDeviceGone, Crash
    <2>2. RunTypeOK /\ RoutesInv
      BY DEF RouteState
    <2>3. CASE os = "android"
      BY <2>1, <2>2, <2>3, AndroidTeardownOnRoutes
    <2>4. CASE os # "android"
      BY <2>1, <2>2, <2>4, TeardownOnRoutes
    <2> QED BY <2>3, <2>4
  <1> QED BY <1>1, RouteStateInvariant, PTL DEF RunSpec, TeardownSparesHost

\* The filter with the highest weight decides as the configuration asks.
LEMMA StrictVerdict ==
    ASSUME NEW c \in Config, NEW k \in Connection
    PROVE  Verdict(StrictSession(c), k) = "permit" <=> Permitted(c, k)
  <1> DEFINE Applies(w) == w.fam = k.fam /\ CASE w.cond = "self" -> k.self
                                              [] w.cond = "tun" -> k.tun
                                              [] w.cond = "dns" -> k.dns
                                              [] w.cond = "any" -> TRUE
             on == {w \in StrictSession(c) : Applies(w)}
             best == CHOOSE w \in on : \A x \in on : x.weight <= w.weight
  <1> DEFINE up == k.fam \in c.fams
  <1>1. k.fam \in {"v4", "v6"} /\ c.fams \subseteq {"v4", "v6"}
        /\ k.self \in BOOLEAN /\ k.tun \in BOOLEAN /\ k.dns \in BOOLEAN
    BY DEF Connection, Config
  <1>2. \A w : w \in StrictSession(c) /\ w.fam = k.fam <=>
            \/ w = Filter(k.fam, 13, "self", "permit")
            \/ w = Filter(k.fam, 10, "dns", "block")
            \/ w = Filter(k.fam, 12, "any", "block") /\ ~up
            \/ w = Filter(k.fam, 11, "tun", "permit") /\ up
    <2> DEFINE Fixed == UNION {{Filter(g, 13, "self", "permit"), Filter(g, 10, "dns", "block")}
                                  : g \in {"v4", "v6"}}
               Cut == {Filter(g, 12, "any", "block") : g \in {"v4", "v6"} \ c.fams}
               Tun == {Filter(g, 11, "tun", "permit") : g \in c.fams}
    <2>1. \A w : w \in Fixed /\ w.fam = k.fam <=>
              w = Filter(k.fam, 13, "self", "permit") \/ w = Filter(k.fam, 10, "dns", "block")
      <3>1. \A w : w \in Fixed <=> \E g \in {"v4", "v6"} :
                w = Filter(g, 13, "self", "permit") \/ w = Filter(g, 10, "dns", "block")
        OBVIOUS
      <3> QED BY <1>1, <3>1 DEF Filter
    <2>2. \A w : w \in Cut /\ w.fam = k.fam <=> w = Filter(k.fam, 12, "any", "block") /\ ~up
      BY <1>1 DEF Filter
    <2>3. \A w : w \in Tun /\ w.fam = k.fam <=> w = Filter(k.fam, 11, "tun", "permit") /\ up
      BY <1>1 DEF Filter
    <2>4. StrictSession(c) = Fixed \cup Cut \cup Tun
      BY DEF StrictSession
    <2> QED BY <2>1, <2>2, <2>3, <2>4
  <1>3. \A w : w \in on <=>
            \/ w = Filter(k.fam, 13, "self", "permit") /\ k.self
            \/ w = Filter(k.fam, 10, "dns", "block") /\ k.dns
            \/ w = Filter(k.fam, 12, "any", "block") /\ ~up
            \/ w = Filter(k.fam, 11, "tun", "permit") /\ up /\ k.tun
    <2>1. /\ \A a, b : Filter(k.fam, a, "self", b).cond = "self"
          /\ \A a, b : Filter(k.fam, a, "dns", b).cond = "dns"
          /\ \A a, b : Filter(k.fam, a, "any", b).cond = "any"
          /\ \A a, b : Filter(k.fam, a, "tun", b).cond = "tun"
      BY DEF Filter
    <2>2. \A w : w \in on <=> (w \in StrictSession(c) /\ w.fam = k.fam) /\ Applies(w)
      OBVIOUS
    <2>3. \A a, b :
                   /\ Applies(Filter(k.fam, a, "self", b)) <=> k.self
                   /\ Applies(Filter(k.fam, a, "dns", b)) <=> k.dns
                   /\ Applies(Filter(k.fam, a, "any", b))
                   /\ Applies(Filter(k.fam, a, "tun", b)) <=> k.tun
      BY <1>1 DEF Filter
    <2> HIDE DEF on, Applies, up
    <2> QED BY <1>2, <2>2, <2>3
  <1>4. Verdict(StrictSession(c), k) = IF on = {} THEN "permit" ELSE best.action
    BY DEF Verdict
  <1> HIDE DEF on
  <1>5. ASSUME NEW w \in on, \A x \in on : x.weight <= w.weight
        PROVE  best \in on /\ best.weight >= w.weight /\ w.weight >= best.weight
    BY <1>5
  <1> HIDE DEF best
  <1>6. CASE k.self
    <2>1. Filter(k.fam, 13, "self", "permit") \in on
          /\ \A x \in on : x.weight <= 13
      BY <1>3, <1>6 DEF Filter
    <2>2. best \in on /\ best.weight = 13
      BY <1>3, <1>5, <2>1 DEF Filter
    <2> QED BY <1>3, <1>4, <1>6, <2>1, <2>2 DEF Filter, Permitted
  <1>7. CASE ~k.self /\ ~up
    <2>1. Filter(k.fam, 12, "any", "block") \in on
          /\ \A x \in on : x.weight <= 12
      BY <1>3, <1>7 DEF Filter
    <2>2. best \in on /\ best.weight = 12
      BY <1>3, <1>5, <2>1 DEF Filter
    <2> QED BY <1>3, <1>4, <1>7, <2>1, <2>2 DEF Filter, Permitted
  <1>8. CASE ~k.self /\ up /\ k.tun
    <2>1. Filter(k.fam, 11, "tun", "permit") \in on
          /\ \A x \in on : x.weight <= 11
      BY <1>3, <1>8 DEF Filter
    <2>2. best \in on /\ best.weight = 11
      BY <1>3, <1>5, <2>1 DEF Filter
    <2> QED BY <1>3, <1>4, <1>8, <2>1, <2>2 DEF Filter, Permitted
  <1>9. CASE ~k.self /\ up /\ ~k.tun /\ k.dns
    <2>1. Filter(k.fam, 10, "dns", "block") \in on
          /\ \A x \in on : x.weight <= 10
      BY <1>3, <1>9 DEF Filter
    <2>2. best \in on /\ best.weight = 10
      BY <1>3, <1>5, <2>1 DEF Filter
    <2> QED BY <1>3, <1>4, <1>9, <2>1, <2>2 DEF Filter, Permitted
  <1>10. CASE ~k.self /\ up /\ ~k.tun /\ ~k.dns
    <2>1. on = {}
      BY <1>3, <1>10
    <2> QED BY <1>4, <1>10, <2>1 DEF Permitted
  <1> QED BY <1>1, <1>6, <1>7, <1>8, <1>9, <1>10

(***************************************************************************)
(* create_strict_session: with the filters of strict_route in place, what  *)
(* Windows permits is what the configuration asks for.                     *)
(***************************************************************************)
THEOREM StrictRouteDecides == RunSpec => []FiltersAsConfigured
  <1>1. RouteState => FiltersAsConfigured
    <2> SUFFICES ASSUME RouteState, starts \in wfp, NEW k \in Connection
                 PROVE  Verdict(filters, k) = "permit" <=> Permitted(cfg, k)
      BY DEF FiltersAsConfigured
    <2>1. filters = StrictSession(cfg) /\ cfg \in Config
      BY ConfigType DEF RouteState, RoutesInv, RunTypeOK
    <2> QED BY <2>1, StrictVerdict
  <1> QED BY <1>1, RouteStateInvariant, PTL

-----------------------------------------------------------------------------
(* The commands of set-up on Linux                                          *)

CommandSet ==
    {d \in [fam : {"v4", "v6"},
            sel : {"not_mark", "uid", "listed", "any", "to_tun", "not_dns", "iif_tun", "not_lo",
                   "lo_unspec", "lo_tun", "lo_low", "lo_high"},
            act : {"tun", "nop", "unreachable", "tun_specific", "main_specific"}] :
        d.sel = "lo_low" => d.act = "nop"}

\* The lower half of the IPv6 addresses comes right before the upper one, whose number it
\* shares; no command is for the mark of auto_redirect.
Commands(s) ==
    /\ s \in Seq(CommandSet)
    /\ \A i \in 1 .. Len(s) : s[i].sel = "lo_low" =>
          i < Len(s) /\ s[i + 1].fam = s[i].fam /\ s[i + 1].sel # "lo_low"

LEMMA CommandsConcat ==
    ASSUME NEW s, NEW t, Commands(s), Commands(t) PROVE Commands(s \o t)
  <1>1. s \in Seq(CommandSet) /\ t \in Seq(CommandSet) /\ Len(s) \in Nat /\ Len(t) \in Nat
    BY LenProperties DEF Commands
  <1> DEFINE u == s \o t
  <1>2. /\ u \in Seq(CommandSet) /\ Len(u) = Len(s) + Len(t)
        /\ \A i \in 1 .. Len(s) + Len(t) : u[i] = IF i <= Len(s) THEN s[i] ELSE t[i - Len(s)]
    BY <1>1, ConcatProperties
  <1> HIDE DEF u
  <1>3. ASSUME NEW i \in 1 .. Len(u), u[i].sel = "lo_low"
        PROVE  i < Len(u) /\ u[i + 1].fam = u[i].fam /\ u[i + 1].sel # "lo_low"
    <2>1. CASE i <= Len(s)
      <3>1. u[i] = s[i] /\ i \in 1 .. Len(s)
        BY <1>1, <1>2, <2>1
      <3>2. i < Len(s) /\ s[i + 1].fam = s[i].fam /\ s[i + 1].sel # "lo_low"
        BY <1>3, <3>1 DEF Commands
      <3>3. u[i + 1] = s[i + 1]
        BY <1>1, <1>2, <3>1, <3>2
      <3> QED BY <1>1, <1>2, <3>1, <3>2, <3>3
    <2>2. CASE ~(i <= Len(s))
      <3> DEFINE j == i - Len(s)
      <3>1. u[i] = t[j] /\ j \in 1 .. Len(t)
        BY <1>1, <1>2, <2>2
      <3>2. j < Len(t) /\ t[j + 1].fam = t[j].fam /\ t[j + 1].sel # "lo_low"
        BY <1>3, <3>1 DEF Commands
      <3>3. u[i + 1] = t[j + 1] /\ i < Len(u)
        BY <1>1, <1>2, <2>2, <3>2
      <3> QED BY <3>1, <3>2, <3>3
    <2> QED BY <2>1, <2>2
  <1> QED BY <1>2, <1>3 DEF Commands, u

LEMMA CommandsIf ==
    ASSUME NEW s, NEW b, Commands(s) PROVE Commands(If(b, s))
  <1>1. Commands(<<>>)
    BY DEF Commands
  <1> QED BY <1>1 DEF If

LEMMA SingleCommand ==
    ASSUME NEW d \in CommandSet, d.sel # "lo_low" PROVE Commands(<<d>>)
  BY DEF Commands

LEMMA GroupsAreCommands ==
    ASSUME NEW c, NEW f \in {"v4", "v6"}
    PROVE  /\ Commands(MarkRules(c, f)) /\ Commands(UidRules(c, f))
           /\ Commands(InterfaceRules(c, f)) /\ Commands(StrictRules(c, f))
           /\ Commands(TunPrefixRules(c, f)) /\ Commands(SuppressRules(c, f))
           /\ Commands(DnsRules(c, f)) /\ Commands(CaptureRules(c, f))
  <1>1. \A sel \in {"not_mark", "uid", "listed", "any", "to_tun", "not_dns"},
           act \in {"tun", "nop", "unreachable", "tun_specific", "main_specific"} :
            Commands(<<Command(f, sel, act)>>)
    BY SingleCommand DEF Command, CommandSet
  <1>2. Commands(MarkRules(c, f)) /\ Commands(UidRules(c, f)) /\ Commands(StrictRules(c, f))
    BY <1>1, CommandsIf DEF MarkRules, UidRules, StrictRules
  <1>3. /\ Commands(TunPrefixRules(c, f)) /\ Commands(SuppressRules(c, f))
        /\ Commands(DnsRules(c, f))
    BY <1>1 DEF TunPrefixRules, SuppressRules, DnsRules
  <1>4. Commands(<<Command(f, "listed", "tun"), Command(f, "any", "nop")>>)
    BY DEF Commands, Command, CommandSet
  <1>5. Commands(InterfaceRules(c, f))
    BY <1>1, <1>4, CommandsIf, CommandsConcat DEF InterfaceRules
  <1>6. CASE f = "v4"
    <2>1. Commands(CaptureRules(c, f))
      BY <1>6 DEF CaptureRules, Commands, Command, CommandSet
    <2> QED BY <1>2, <1>3, <1>5, <2>1
  <1>7. CASE f = "v6"
    <2>1. Commands(CaptureRules(c, f))
      BY <1>7 DEF CaptureRules, Commands, Command, CommandSet
    <2> QED BY <1>2, <1>3, <1>5, <2>1
  <1> QED BY <1>6, <1>7

LEMMA LinuxCommandsAre == ASSUME NEW c PROVE Commands(LinuxCommands(c))
  <1> DEFINE B(s, t) == If("v4" \in c.fams, s) \o If("v6" \in c.fams, t)
  <1>1. ASSUME NEW s, NEW t, Commands(s), Commands(t) PROVE Commands(B(s, t))
    BY <1>1, CommandsIf, CommandsConcat
  <1>2. /\ Both(c, MarkRules) = B(MarkRules(c, "v4"), MarkRules(c, "v6"))
        /\ Both(c, UidRules) = B(UidRules(c, "v4"), UidRules(c, "v6"))
        /\ Both(c, InterfaceRules) = B(InterfaceRules(c, "v4"), InterfaceRules(c, "v6"))
        /\ Both(c, TunPrefixRules) = B(TunPrefixRules(c, "v4"), TunPrefixRules(c, "v6"))
        /\ Both(c, SuppressRules) = B(SuppressRules(c, "v4"), SuppressRules(c, "v6"))
        /\ Both(c, DnsRules) = B(DnsRules(c, "v4"), DnsRules(c, "v6"))
        /\ Both(c, CaptureRules) = B(CaptureRules(c, "v4"), CaptureRules(c, "v6"))
    BY DEF Both
  <1> HIDE DEF B
  <1>3. /\ Commands(Both(c, MarkRules)) /\ Commands(Both(c, UidRules))
        /\ Commands(Both(c, InterfaceRules)) /\ Commands(Both(c, TunPrefixRules))
        /\ Commands(Both(c, SuppressRules)) /\ Commands(Both(c, DnsRules))
        /\ Commands(Both(c, CaptureRules))
    BY <1>1, <1>2, GroupsAreCommands
  <1>4. Commands(StrictRules(c, "v4")) /\ Commands(StrictRules(c, "v6"))
    BY GroupsAreCommands
  <1> QED BY <1>3, <1>4, CommandsConcat DEF LinuxCommands

\* A command gets a higher number than every one of its family before it, the lower half
\* of the IPv6 addresses aside.
LEMMA PrioCounts ==
    ASSUME NEW s, Commands(s), NEW i \in 1 .. Len(s)
    PROVE  /\ Prio(s, i) \in PrioBase .. PrioBase + Len(s) - 1
           /\ \A j \in 1 .. Len(s) :
                 i < j /\ s[i].fam = s[j].fam /\ s[i].sel # "lo_low" => Prio(s, i) < Prio(s, j)
           /\ s[i].sel = "lo_low" => i + 1 \in 1 .. Len(s) /\ Prio(s, i + 1) = Prio(s, i)
  <1> DEFINE Before(k) == {j \in 1 .. k - 1 : s[j].fam = s[k].fam /\ s[j].sel # "lo_low"}
  <1>1. Len(s) \in Nat /\ PrioBase \in Nat
    BY LenProperties, PolicyAssumption DEF Commands
  <1>2. ASSUME NEW k \in 1 .. Len(s)
        PROVE  /\ IsFiniteSet(Before(k)) /\ Cardinality(Before(k)) \in Nat
               /\ Cardinality(Before(k)) <= k - 1
    <2>1. IsFiniteSet(1 .. k - 1) /\ Cardinality(1 .. k - 1) = k - 1
      BY FS_Interval
    <2>2. Before(k) \in SUBSET (1 .. k - 1)
      OBVIOUS
    <2> HIDE DEF Before
    <2>3. IsFiniteSet(Before(k)) /\ Cardinality(Before(k)) <= Cardinality(1 .. k - 1)
      BY <2>1, <2>2, FS_Subset
    <2> QED BY <2>1, <2>3, FS_CardinalityType
  <1>3. \A k : Prio(s, k) = PrioBase + Cardinality(Before(k))
    BY DEF Prio
  <1>4. Prio(s, i) \in PrioBase .. PrioBase + Len(s) - 1
    <2> HIDE DEF Before
    <2>1. Cardinality(Before(i)) \in Nat /\ Cardinality(Before(i)) <= i - 1
      BY <1>2
    <2> QED BY <1>1, <1>3, <2>1
  <1>5. ASSUME NEW j \in 1 .. Len(s), i < j, s[i].fam = s[j].fam, s[i].sel # "lo_low"
        PROVE  Prio(s, i) < Prio(s, j)
    <2>1. Before(i) \cup {i} \in SUBSET Before(j) /\ i \notin Before(i)
      BY <1>1, <1>5
    <2> HIDE DEF Before
    <2>2. /\ IsFiniteSet(Before(i)) /\ Cardinality(Before(i)) \in Nat
          /\ IsFiniteSet(Before(j)) /\ Cardinality(Before(j)) \in Nat
      BY <1>2
    <2>3. Cardinality(Before(i) \cup {i}) = Cardinality(Before(i)) + 1
      BY <2>1, <2>2, FS_AddElement
    <2>4. Cardinality(Before(i) \cup {i}) <= Cardinality(Before(j))
      BY <2>1, <2>2, FS_Subset
    <2> QED BY <1>1, <1>3, <2>2, <2>3, <2>4
  <1>6. ASSUME s[i].sel = "lo_low"
        PROVE  i + 1 \in 1 .. Len(s) /\ Prio(s, i + 1) = Prio(s, i)
    <2>1. i < Len(s) /\ s[i + 1].fam = s[i].fam
      BY <1>6 DEF Commands
    <2>2. 1 .. (i + 1) - 1 = (1 .. i - 1) \cup {i}
      BY <1>1
    <2>3. Before(i + 1) = Before(i)
      BY <1>6, <2>1, <2>2
    <2> HIDE DEF Before
    <2> QED BY <1>1, <1>3, <2>1, <2>3
  <1> QED BY <1>4, <1>5, <1>6

Elements(s) == {s[i] : i \in 1 .. Len(s)}

LEMMA ElementsType ==
    ASSUME NEW T, NEW s \in Seq(T), NEW a \in Elements(s) PROVE a \in T
  BY ElementOfSeq DEF Elements

LEMMA ConcatElements ==
    ASSUME NEW T, NEW s \in Seq(T), NEW t \in Seq(T)
    PROVE  s \o t \in Seq(T) /\ Elements(s \o t) = Elements(s) \cup Elements(t)
  <1> DEFINE u == s \o t
  <1>1. /\ u \in Seq(T) /\ Len(u) = Len(s) + Len(t)
        /\ \A i \in 1 .. Len(s) + Len(t) : u[i] = IF i <= Len(s) THEN s[i] ELSE t[i - Len(s)]
    BY ConcatProperties
  <1>2. Len(s) \in Nat /\ Len(t) \in Nat
    BY LenProperties
  <1> HIDE DEF u
  <1>3. ASSUME NEW i \in 1 .. Len(u) PROVE u[i] \in Elements(s) \cup Elements(t)
    <2>1. CASE i <= Len(s)
      BY <1>1, <1>2, <2>1 DEF Elements
    <2>2. CASE ~(i <= Len(s))
      <3>1. u[i] = t[i - Len(s)] /\ i - Len(s) \in 1 .. Len(t)
        BY <1>1, <1>2, <2>2
      <3> QED BY <3>1 DEF Elements
    <2> QED BY <2>1, <2>2
  <1>4. ASSUME NEW i \in 1 .. Len(s) PROVE s[i] \in Elements(u)
    <2>1. i \in 1 .. Len(u) /\ u[i] = s[i]
      BY <1>1, <1>2
    <2> QED BY <2>1 DEF Elements
  <1>5. ASSUME NEW i \in 1 .. Len(t) PROVE t[i] \in Elements(u)
    <2>1. Len(s) + i \in 1 .. Len(u) /\ ~(Len(s) + i <= Len(s)) /\ (Len(s) + i) - Len(s) = i
      BY <1>1, <1>2
    <2>2. u[Len(s) + i] = t[i]
      BY <1>1, <2>1
    <2> QED BY <2>1, <2>2 DEF Elements
  <1>6. Elements(u) = Elements(s) \cup Elements(t)
    BY <1>3, <1>4, <1>5 DEF Elements
  <1> QED BY <1>1, <1>6 DEF u

Numbers == PrioBase .. NopPrio

LEMMA NumbersAre == NopPrio \in Nat /\ PrioBase \in Numbers /\ NopPrio \in Numbers
                      /\ 0 \notin Numbers /\ -1 \notin Numbers /\ Numbers \subseteq Nat
  BY PolicyAssumption DEF NopPrio, Numbers

LEMMA SingleSeq == ASSUME NEW T, NEW x \in T PROVE <<x>> \in Seq(T)
  OBVIOUS

LEMMA FunctionSeq ==
    ASSUME NEW T, NEW n \in Nat, NEW f \in [1 .. n -> T] PROVE f \in Seq(T)
  BY SeqDef

LEMMA IfSeq == ASSUME NEW T, NEW b, NEW s \in Seq(T) PROVE If(b, s) \in Seq(T)
  BY EmptySeq DEF If

SetupRules ==
    [fam : {"v4", "v6"},
     sel : {"not_mark", "uid", "listed", "any", "to_tun", "not_dns", "iif_tun", "not_lo",
            "lo_unspec", "lo_tun", "lo_low", "lo_high", "in_mark"},
     act : {"tun", "nop", "unreachable", "tun_specific", "main_specific", "main"},
     prio : Numbers \cup {-1}]

\* The rules of set-up on Linux and their numbers, as far as teardown depends on them.
SetupStepsOK(S) ==
    /\ S \in Seq([rule : SetupRules, push : Seq(Numbers \cup {0})])
    /\ \A a \in Elements(S) : a.rule.sel = "in_mark" <=> a.rule.prio = -1
    \* The number of every rule that has one is recorded, be it with another rule.
    /\ \A a \in Elements(S) : a.rule.prio # -1 =>
          \E b \in Elements(S) : \E k \in DOMAIN b.push : b.push[k] = a.rule.prio
    \* A number stands for two rules of a family at most.
    /\ \A a, b \in Elements(S) :
          a.rule.prio # -1 /\ a.rule.prio = b.rule.prio /\ a.rule.fam = b.rule.fam
              /\ (a.rule.sel = "lo_low" <=> b.rule.sel = "lo_low") => a.rule = b.rule

LEMMA SetupStepType ==
    ASSUME NEW S, SetupStepsOK(S), NEW a \in Elements(S)
    PROVE  a.rule \in SetupRules /\ a.push \in Seq(Numbers \cup {0})
  <1> DEFINE T == [rule : SetupRules, push : Seq(Numbers \cup {0})]
  <1>1. S \in Seq(T)
    BY DEF SetupStepsOK
  <1> HIDE DEF T
  <1>2. a \in T
    BY <1>1, ElementsType
  <1> QED BY <1>2 DEF T

LEMMA LinuxSetupOK ==
    ASSUME NEW c \in Config, PrioritiesFree PROVE SetupStepsOK(LinuxSetup(c))
  <1> DEFINE s == LinuxCommands(c)
             fams == If("v4" \in c.fams, <<"v4">>) \o If("v6" \in c.fams, <<"v6">>)
             RuleAt(i) == [fam |-> s[i].fam, sel |-> s[i].sel, act |-> s[i].act,
                           prio |-> Prio(s, i)]
             X == [i \in 1 .. Len(s) |->
                      [rule |-> RuleAt(i), push |-> If(s[i].sel # "lo_low", <<Prio(s, i)>>)]]
             Y == [i \in 1 .. Len(fams) |-> [rule |-> Anchor(fams[i]), push |-> <<NopPrio>>]]
             Z0 == [i \in 1 .. Len(fams) |->
                      [rule |-> Redirect(fams[i]), push |-> If(fams[i] = "v4", <<0>>)]]
             Z == If(c.mark = "redirect", Z0)
             T == [rule : SetupRules, push : Seq(Numbers \cup {0})]
             S == LinuxSetup(c)
  <1>1. S = X \o Y \o Z
    BY DEF LinuxSetup
  <1>2. Commands(s) /\ Len(s) \in Nat /\ PrioBase + Len(s) <= NopPrio
    BY LinuxCommandsAre, LenProperties DEF Commands, PrioritiesFree
  <1>3. fams \in Seq({"v4", "v6"}) /\ Len(fams) \in Nat
        /\ \A i \in 1 .. Len(fams) : fams[i] \in {"v4", "v6"}
    <2>1. If("v4" \in c.fams, <<"v4">>) \in Seq({"v4", "v6"})
          /\ If("v6" \in c.fams, <<"v6">>) \in Seq({"v4", "v6"})
      <3>1. <<"v4">> \in Seq({"v4", "v6"}) /\ <<"v6">> \in Seq({"v4", "v6"})
        BY SingleSeq
      <3> QED BY <3>1, IfSeq
    <2>2. fams \in Seq({"v4", "v6"})
      BY <2>1, ConcatProperties
    <2> HIDE DEF fams
    <2> QED BY <2>2, LenProperties, ElementOfSeq
  <1> HIDE DEF s, fams
  <1>4. ASSUME NEW i \in 1 .. Len(s)
        PROVE  /\ s[i] \in CommandSet
               /\ Prio(s, i) \in Numbers /\ Prio(s, i) < NopPrio
               /\ X[i].rule = RuleAt(i) /\ X[i] \in T
               /\ X[i].push = IF s[i].sel # "lo_low" THEN <<Prio(s, i)>> ELSE <<>>
    <2>1. s[i] \in CommandSet
      BY <1>2, ElementOfSeq DEF Commands
    <2>2. Prio(s, i) \in Numbers /\ Prio(s, i) < NopPrio
      <3>1. Prio(s, i) \in PrioBase .. PrioBase + Len(s) - 1
        BY <1>2, PrioCounts
      <3> QED BY <1>2, <3>1, NumbersAre DEF Numbers
    <2>3. If(s[i].sel # "lo_low", <<Prio(s, i)>>) \in Seq(Numbers \cup {0})
      <3>1. <<Prio(s, i)>> \in Seq(Numbers \cup {0})
        BY <2>2, SingleSeq
      <3> QED BY <3>1, IfSeq
    <2>4. RuleAt(i) \in SetupRules
      BY <2>1, <2>2 DEF CommandSet, SetupRules
    <2> HIDE DEF RuleAt
    <2> QED BY <2>1, <2>2, <2>3, <2>4 DEF If
  <1>5. ASSUME NEW i \in 1 .. Len(fams)
        PROVE  /\ Y[i] \in T /\ Y[i].rule = Anchor(fams[i]) /\ Y[i].push = <<NopPrio>>
               /\ Z0[i] \in T /\ Z0[i].rule = Redirect(fams[i])
    <2>1. fams[i] \in {"v4", "v6"}
      BY <1>3
    <2>2. <<NopPrio>> \in Seq(Numbers \cup {0})
          /\ If(fams[i] = "v4", <<0>>) \in Seq(Numbers \cup {0})
      <3>1. <<NopPrio>> \in Seq(Numbers \cup {0}) /\ <<0>> \in Seq(Numbers \cup {0})
        BY NumbersAre, SingleSeq
      <3> QED BY <3>1, IfSeq
    <2>3. Anchor(fams[i]) \in SetupRules /\ Redirect(fams[i]) \in SetupRules
      BY <2>1, NumbersAre DEF Anchor, Redirect, SetupRules
    <2> QED BY <2>2, <2>3
  <1>6. X \in Seq(T) /\ Y \in Seq(T) /\ Z \in Seq(T)
        /\ Len(X) = Len(s) /\ Len(Y) = Len(fams)
    <2>1. X \in [1 .. Len(s) -> T] /\ Y \in [1 .. Len(fams) -> T] /\ Z0 \in [1 .. Len(fams) -> T]
      BY <1>4, <1>5
    <2> HIDE DEF X, Y, Z0, T
    <2>2. X \in Seq(T) /\ Y \in Seq(T) /\ Z0 \in Seq(T)
      BY <1>2, <1>3, <2>1, FunctionSeq
    <2>3. Z \in Seq(T)
      BY <2>2, EmptySeq DEF If
    <2>4. DOMAIN X = 1 .. Len(X) /\ DOMAIN Y = 1 .. Len(Y) /\ Len(X) \in Nat /\ Len(Y) \in Nat
      BY <2>2, LenProperties
    <2>5. DOMAIN X = 1 .. Len(s) /\ DOMAIN Y = 1 .. Len(fams)
      BY <2>1
    <2> QED BY <1>2, <1>3, <2>2, <2>3, <2>4, <2>5
  <1>7. \A a \in Elements(Z) : \E f \in {"v4", "v6"} : a.rule = Redirect(f)
    <2>1. Z = <<>> \/ Z = Z0
      BY DEF If
    <2>2. CASE Z = <<>>
      BY <2>2 DEF Elements
    <2>3. CASE Z = Z0
      <3>1. \A i \in 1 .. Len(Z0) : i \in 1 .. Len(fams)
        BY <1>3
      <3> QED BY <1>3, <1>5, <2>3, <3>1 DEF Elements
    <2> QED BY <2>1, <2>2, <2>3
  <1>8. S \in Seq(T) /\ Elements(S) = Elements(X) \cup Elements(Y) \cup Elements(Z)
    <2> HIDE DEF X, Y, Z, T, S
    <2>1. X \o Y \in Seq(T) /\ Elements(X \o Y) = Elements(X) \cup Elements(Y)
      BY <1>6, ConcatElements
    <2> DEFINE XY == X \o Y
    <2>2. XY \in Seq(T) /\ Z \in Seq(T) /\ S = XY \o Z
      BY <1>1, <1>6, <2>1
    <2>3. Elements(XY) = Elements(X) \cup Elements(Y)
      BY <2>1
    <2> HIDE DEF XY
    <2>4. XY \o Z \in Seq(T) /\ Elements(XY \o Z) = Elements(XY) \cup Elements(Z)
      BY <2>2, ConcatElements
    <2> QED BY <2>2, <2>3, <2>4
  <1>9. ASSUME NEW a \in Elements(S)
        PROVE  \/ \E i \in 1 .. Len(s) : a = X[i]
               \/ \E f \in {"v4", "v6"} : a.rule = Anchor(f) /\ a.push = <<NopPrio>>
               \/ \E f \in {"v4", "v6"} : a.rule = Redirect(f)
    <2>1. CASE a \in Elements(X)
      BY <1>6, <2>1 DEF Elements
    <2>2. CASE a \in Elements(Y)
      <3>1. PICK i \in 1 .. Len(fams) : a = Y[i]
        BY <1>6, <2>2 DEF Elements
      <3>2. a.rule = Anchor(fams[i]) /\ a.push = <<NopPrio>> /\ fams[i] \in {"v4", "v6"}
        BY <1>3, <1>5, <3>1
      <3> QED BY <3>2
    <2>3. CASE a \in Elements(Z)
      BY <1>7, <2>3
    <2> QED BY <1>8, <2>1, <2>2, <2>3
  <1>10. \A i \in 1 .. Len(s) : X[i] \in Elements(S)
    BY <1>6, <1>8 DEF Elements
  <1> HIDE DEF X, Y, Z, T, S, RuleAt
  <1>11. ASSUME NEW i \in 1 .. Len(s)
         PROVE  /\ X[i].rule.fam = s[i].fam /\ X[i].rule.sel = s[i].sel
                /\ X[i].rule.act = s[i].act /\ X[i].rule.prio = Prio(s, i)
                /\ X[i].rule.sel # "in_mark" /\ X[i].rule.prio \in Numbers
                /\ X[i].rule.prio < NopPrio
                /\ X[i].rule.sel = "lo_low" => X[i].rule.act = "nop"
    <2>1. X[i].rule = RuleAt(i) /\ s[i] \in CommandSet
          /\ Prio(s, i) \in Numbers /\ Prio(s, i) < NopPrio
      BY <1>4
    <2> QED BY <2>1 DEF RuleAt, CommandSet
  <1>12. ASSUME NEW a \in Elements(S) PROVE a.rule.sel = "in_mark" <=> a.rule.prio = -1
    BY <1>9, <1>11, NumbersAre DEF Anchor, Redirect
  <1>13. ASSUME NEW a \in Elements(S), a.rule.prio # -1
         PROVE  \E b \in Elements(S) : \E k \in DOMAIN b.push : b.push[k] = a.rule.prio
    <2>1. \A p : DOMAIN <<p>> = {1} /\ <<p>>[1] = p
      OBVIOUS
    <2>2. CASE \E i \in 1 .. Len(s) : a = X[i]
      <3>1. PICK i \in 1 .. Len(s) : a = X[i]
        BY <2>2
      <3>2. CASE s[i].sel # "lo_low"
        <4>1. a \in Elements(S) /\ a.push = <<a.rule.prio>>
          BY <1>4, <1>10, <1>11, <3>1, <3>2
        <4> QED BY <2>1, <4>1
      <3>3. CASE s[i].sel = "lo_low"
        <4>1. i + 1 \in 1 .. Len(s) /\ Prio(s, i + 1) = Prio(s, i)
          BY <1>2, <3>3, PrioCounts
        <4>2. s[i + 1].sel # "lo_low"
          BY <1>2, <3>3 DEF Commands
        <4>3. X[i + 1] \in Elements(S) /\ X[i + 1].push = <<a.rule.prio>>
          BY <1>4, <1>10, <1>11, <3>1, <4>1, <4>2
        <4> QED BY <2>1, <4>3
      <3> QED BY <3>2, <3>3
    <2>3. CASE \E f \in {"v4", "v6"} : a.rule = Anchor(f) /\ a.push = <<NopPrio>>
      <3>1. a.push = <<NopPrio>> /\ a.rule.prio = NopPrio
        BY <2>3 DEF Anchor
      <3> QED BY <2>1, <3>1
    <2> QED BY <1>9, <1>13, <2>2, <2>3 DEF Redirect
  <1>14. ASSUME NEW a \in Elements(S), NEW b \in Elements(S), a.rule.prio # -1,
                a.rule.prio = b.rule.prio, a.rule.fam = b.rule.fam,
                a.rule.sel = "lo_low" <=> b.rule.sel = "lo_low"
         PROVE  a.rule = b.rule
    <2>1. CASE \E i, j \in 1 .. Len(s) : a = X[i] /\ b = X[j]
      <3>1. PICK i \in 1 .. Len(s), j \in 1 .. Len(s) : a = X[i] /\ b = X[j]
        BY <2>1
      <3>2. CASE s[i].sel = "lo_low"
        <4>1. a.rule.sel = "lo_low" /\ b.rule.sel = "lo_low"
              /\ a.rule.act = "nop" /\ b.rule.act = "nop"
          BY <1>11, <1>14, <3>1, <3>2
        <4>2. a.rule = RuleAt(i) /\ b.rule = RuleAt(j)
          BY <1>4, <3>1
        <4> QED BY <1>14, <4>1, <4>2 DEF RuleAt
      <3>3. CASE s[i].sel # "lo_low"
        <4>1. s[j].sel # "lo_low" /\ s[i].fam = s[j].fam /\ Prio(s, i) = Prio(s, j)
          BY <1>11, <1>14, <3>1, <3>3
        <4>2. ~(i < j)
          BY <1>2, <1>4, <3>3, <4>1, PrioCounts, NumbersAre
        <4>3. ~(j < i)
          BY <1>2, <1>4, <4>1, PrioCounts, NumbersAre
        <4>4. i = j
          BY <1>2, <4>2, <4>3
        <4> QED BY <3>1, <4>4
      <3> QED BY <3>2, <3>3
    <2>2. ASSUME NEW f \in {"v4", "v6"}, a.rule = Anchor(f) PROVE a.rule = b.rule
      <3>1. b.rule.prio = NopPrio /\ b.rule.fam = f
        BY <1>14, <2>2 DEF Anchor
      <3> QED BY <1>9, <1>11, <2>2, <3>1, NumbersAre DEF Anchor, Redirect
    <2>3. ASSUME NEW f \in {"v4", "v6"}, b.rule = Anchor(f) PROVE a.rule = b.rule
      <3>1. a.rule.prio = NopPrio /\ a.rule.fam = f
        BY <1>14, <2>3 DEF Anchor
      <3> QED BY <1>9, <1>11, <2>3, <3>1, NumbersAre DEF Anchor, Redirect
    <2>4. (\A f \in {"v4", "v6"} : a.rule # Redirect(f) /\ b.rule # Redirect(f))
      BY <1>14 DEF Redirect
    <2> QED BY <1>9, <2>1, <2>2, <2>3, <2>4
  <1> QED BY <1>8, <1>12, <1>13, <1>14 DEF SetupStepsOK, S, T

\* Set-up has one fwmark rule per family, and that is the one without a priority.
LEMMA RedirectOnce ==
    ASSUME NEW c \in Config
    PROVE  LET S == LinuxSetup(c) IN
            /\ \A i \in 1 .. Len(S) : S[i].rule.sel = "in_mark" =>
                  \E f \in {"v4", "v6"} : S[i].rule = Redirect(f)
            /\ \A i, j \in 1 .. Len(S), f \in {"v4", "v6"} :
                  S[i].rule = Redirect(f) /\ S[j].rule = Redirect(f) => i = j
  <1> DEFINE s == LinuxCommands(c)
             fams == If("v4" \in c.fams, <<"v4">>) \o If("v6" \in c.fams, <<"v6">>)
             RuleAt(i) == [fam |-> s[i].fam, sel |-> s[i].sel, act |-> s[i].act,
                           prio |-> Prio(s, i)]
             X == [i \in 1 .. Len(s) |->
                      [rule |-> RuleAt(i), push |-> If(s[i].sel # "lo_low", <<Prio(s, i)>>)]]
             Y == [i \in 1 .. Len(fams) |-> [rule |-> Anchor(fams[i]), push |-> <<NopPrio>>]]
             Z0 == [i \in 1 .. Len(fams) |->
                      [rule |-> Redirect(fams[i]), push |-> If(fams[i] = "v4", <<0>>)]]
             Z == If(c.mark = "redirect", Z0)
             T == {X[i] : i \in 1 .. Len(s)} \cup {Y[i] : i \in 1 .. Len(fams)}
                    \cup {Z0[i] : i \in 1 .. Len(fams)}
             S == LinuxSetup(c)
  <1>1. S = X \o Y \o Z
    BY DEF LinuxSetup
  <1>2. s \in Seq(CommandSet) /\ Len(s) \in Nat
    BY LinuxCommandsAre, LenProperties DEF Commands
  <1>3. /\ Len(fams) \in Nat /\ \A i \in 1 .. Len(fams) : fams[i] \in {"v4", "v6"}
        /\ \A i, j \in 1 .. Len(fams) : fams[i] = fams[j] => i = j
    <2>1. CASE "v4" \in c.fams /\ "v6" \in c.fams
      <3> DEFINE p == <<"v4">>
                 q == <<"v6">>
      <3>1. fams = p \o q
        BY <2>1 DEF If
      <3>2. p \in Seq({"v4", "v6"}) /\ q \in Seq({"v4", "v6"}) /\ Len(p) = 1 /\ Len(q) = 1
        OBVIOUS
      <3>3. p[1] = "v4" /\ q[1] = "v6"
        OBVIOUS
      <3> HIDE DEF p, q, fams
      <3>4. Len(fams) = 2 /\ fams[1] = p[1] /\ fams[2] = q[1]
        BY <3>1, <3>2, ConcatProperties
      <3> QED BY <3>3, <3>4
    <2>2. CASE "v4" \in c.fams /\ "v6" \notin c.fams
      <3>1. fams = <<"v4">> \o <<>>
        BY <2>2 DEF If
      <3>2. fams = <<"v4">>
        BY <3>1
      <3> HIDE DEF fams
      <3> QED BY <3>2
    <2>3. CASE "v4" \notin c.fams /\ "v6" \in c.fams
      <3>1. fams = <<>> \o <<"v6">>
        BY <2>3 DEF If
      <3>2. fams = <<"v6">>
        BY <3>1
      <3> HIDE DEF fams
      <3> QED BY <3>2
    <2>4. CASE "v4" \notin c.fams /\ "v6" \notin c.fams
      <3>1. fams = <<>> \o <<>>
        BY <2>4 DEF If
      <3>2. fams = <<>>
        BY <3>1
      <3> HIDE DEF fams
      <3> QED BY <3>2
    <2> QED BY <2>1, <2>2, <2>3, <2>4
  <1> HIDE DEF s, fams
  <1>4. ASSUME NEW i \in 1 .. Len(s) PROVE X[i].rule.sel # "in_mark"
    <2>1. s[i].sel # "in_mark"
      BY <1>2, ElementOfSeq DEF CommandSet
    <2> QED BY <2>1
  <1>5. \A i \in 1 .. Len(fams) : /\ Y[i].rule.sel # "in_mark"
                                  /\ Z0[i].rule = Redirect(fams[i])
    BY DEF Anchor
  <1>6. X \in Seq(T) /\ Y \in Seq(T) /\ Z0 \in Seq(T) /\ Z \in Seq(T)
        /\ Len(X) = Len(s) /\ Len(Y) = Len(fams) /\ Len(Z0) = Len(fams)
    <2>1. X \in [1 .. Len(s) -> T] /\ Y \in [1 .. Len(fams) -> T] /\ Z0 \in [1 .. Len(fams) -> T]
      <3>1. /\ \A i \in 1 .. Len(s) : X[i] \in T
            /\ \A i \in 1 .. Len(fams) : Y[i] \in T /\ Z0[i] \in T
        OBVIOUS
      <3>2. /\ X = [i \in 1 .. Len(s) |-> X[i]]
            /\ Y = [i \in 1 .. Len(fams) |-> Y[i]]
            /\ Z0 = [i \in 1 .. Len(fams) |-> Z0[i]]
        OBVIOUS
      <3> HIDE DEF X, Y, Z0, T
      <3> QED BY <3>1, <3>2
    <2> HIDE DEF X, Y, Z0, T
    <2>2. X \in Seq(T) /\ Y \in Seq(T) /\ Z0 \in Seq(T)
      BY <1>2, <1>3, <2>1, FunctionSeq
    <2>3. Z \in Seq(T)
      BY <2>2, EmptySeq DEF If
    <2>4. DOMAIN X = 1 .. Len(X) /\ DOMAIN Y = 1 .. Len(Y) /\ DOMAIN Z0 = 1 .. Len(Z0)
          /\ Len(X) \in Nat /\ Len(Y) \in Nat /\ Len(Z0) \in Nat
      BY <2>2, LenProperties
    <2>5. DOMAIN X = 1 .. Len(s) /\ DOMAIN Y = 1 .. Len(fams) /\ DOMAIN Z0 = 1 .. Len(fams)
      BY <2>1
    <2> QED BY <1>2, <1>3, <2>2, <2>3, <2>4, <2>5
  <1>7. Z = <<>> \/ Z = Z0
    BY DEF If
  <1> DEFINE n == Len(s) + Len(fams)
  <1>8. ASSUME NEW i \in 1 .. Len(S), S[i].rule.sel = "in_mark"
        PROVE  i - n \in 1 .. Len(fams) /\ S[i].rule = Redirect(fams[i - n])
    <2> HIDE DEF X, Y, Z, Z0, T, S
    <2> DEFINE XY == X \o Y
    <2>1. /\ XY \in Seq(T) /\ Len(XY) = n
          /\ \A k \in 1 .. n : XY[k] = IF k <= Len(s) THEN X[k] ELSE Y[k - Len(s)]
      <3>1. X \in Seq(T) /\ Y \in Seq(T)
        BY <1>6
      <3>2. /\ XY \in Seq(T) /\ Len(XY) = Len(X) + Len(Y)
            /\ \A k \in 1 .. Len(X) + Len(Y) : XY[k] = IF k <= Len(X) THEN X[k] ELSE Y[k - Len(X)]
        BY <3>1, ConcatProperties
      <3> HIDE DEF XY
      <3> QED BY <1>6, <3>2
    <2> HIDE DEF XY
    <2>2. /\ Len(S) = n + Len(Z)
          /\ \A k \in 1 .. n + Len(Z) : S[k] = IF k <= n THEN XY[k] ELSE Z[k - n]
      <3>1. S = XY \o Z
        BY <1>1 DEF XY
      <3>2. XY \in Seq(T) /\ Z \in Seq(T)
        BY <1>6, <2>1
      <3>3. /\ Len(S) = Len(XY) + Len(Z)
            /\ \A k \in 1 .. Len(XY) + Len(Z) :
                  S[k] = IF k <= Len(XY) THEN XY[k] ELSE Z[k - Len(XY)]
        BY <3>1, <3>2, ConcatProperties
      <3> QED BY <2>1, <3>3
    <2>3. Len(Z) \in Nat /\ n \in Nat
      BY <1>2, <1>3, <1>6, LenProperties
    <2>4. i > n
      <3>1. SUFFICES ASSUME i <= n PROVE FALSE
        BY <2>3
      <3>2. S[i] = XY[i] /\ i \in 1 .. n
        BY <2>2, <2>3, <3>1
      <3>3. CASE i <= Len(s)
        BY <1>2, <1>4, <1>8, <2>1, <3>2, <3>3
      <3>4. CASE ~(i <= Len(s))
        <4>1. S[i] = Y[i - Len(s)] /\ i - Len(s) \in 1 .. Len(fams)
          BY <1>2, <1>3, <2>1, <3>2, <3>4
        <4> QED BY <1>5, <1>8, <4>1
      <3> QED BY <3>3, <3>4
    <2>5. S[i] = Z[i - n] /\ i - n \in 1 .. Len(Z)
      BY <2>2, <2>3, <2>4
    <2>6. Z = Z0
      BY <1>7, <2>5
    <2> QED BY <1>5, <1>6, <2>5, <2>6
  <1> HIDE DEF S
  <1>9. ASSUME NEW i \in 1 .. Len(S), S[i].rule.sel = "in_mark"
        PROVE  \E f \in {"v4", "v6"} : S[i].rule = Redirect(f)
    BY <1>3, <1>8, <1>9
  <1>10. ASSUME NEW i \in 1 .. Len(S), NEW j \in 1 .. Len(S), NEW f \in {"v4", "v6"},
                S[i].rule = Redirect(f), S[j].rule = Redirect(f)
         PROVE  i = j
    <2>1. Redirect(f).sel = "in_mark" /\ \A g : Redirect(g).fam = g
      BY DEF Redirect
    <2>2. /\ i - n \in 1 .. Len(fams) /\ Redirect(f) = Redirect(fams[i - n])
          /\ j - n \in 1 .. Len(fams) /\ Redirect(f) = Redirect(fams[j - n])
      BY <1>8, <1>10, <2>1
    <2>3. fams[i - n] = fams[j - n]
      BY <2>1, <2>2
    <2>4. i - n = j - n /\ n \in Nat /\ i \in Int /\ j \in Int
      <3>1. n \in Nat
        BY <1>2, <1>3
      <3> HIDE DEF n
      <3> QED BY <1>3, <2>2, <2>3, <3>1
    <2> HIDE DEF n
    <2> QED BY <2>4
  <1> QED BY <1>9, <1>10 DEF S

-----------------------------------------------------------------------------
(* The policy rules *)

Single(A) == \A x, y \in A : x = y

LEMMA AtMostOne ==
    ASSUME NEW A, Single(A) PROVE IsFiniteSet(A) /\ Cardinality(A) \in 0 .. 1
  <1>1. CASE A = {}
    BY <1>1, FS_EmptySet
  <1>2. CASE A # {}
    <2>1. PICK x : A = {x}
      BY <1>2 DEF Single
    <2> QED BY <2>1, FS_Singleton
  <1> QED BY <1>1, <1>2

LEMMA AtMostThree ==
    ASSUME NEW A, NEW B, NEW C, Single(A), Single(B), Single(C)
    PROVE  Cardinality(A \cup B \cup C) <= 3
  <1>1. /\ IsFiniteSet(A) /\ Cardinality(A) \in 0 .. 1
        /\ IsFiniteSet(B) /\ Cardinality(B) \in 0 .. 1
        /\ IsFiniteSet(C) /\ Cardinality(C) \in 0 .. 1
    BY AtMostOne
  <1> DEFINE D == A \cup B
  <1>2. IsFiniteSet(D) /\ Cardinality(D) \in Nat /\ Cardinality(D) <= 2
    <2>1. IsFiniteSet(A \cap B) /\ Cardinality(A \cap B) \in Nat
      BY <1>1, FS_Subset, FS_CardinalityType
    <2>2. IsFiniteSet(D) /\ Cardinality(D) = Cardinality(A) + Cardinality(B) - Cardinality(A \cap B)
      BY <1>1, FS_Union
    <2>3. Cardinality(D) \in Nat
      BY <2>2, FS_CardinalityType
    <2> QED BY <1>1, <2>1, <2>2, <2>3
  <1> HIDE DEF D
  <1>3. IsFiniteSet(D \cap C) /\ Cardinality(D \cap C) \in Nat
    BY <1>1, FS_Subset, FS_CardinalityType
  <1>4. Cardinality(D \cup C) = Cardinality(D) + Cardinality(C) - Cardinality(D \cap C)
    BY <1>1, <1>2, FS_Union
  <1> QED BY <1>1, <1>2, <1>3, <1>4 DEF D

\* One rule with the mark, one for the lower half of the IPv6 addresses, one other.
LEMMA ThreeKinds ==
    ASSUME NEW M,
           \A x, y \in M : x.sel = "in_mark" /\ y.sel = "in_mark" => x = y,
           \A x, y \in M : x.sel # "in_mark" /\ y.sel # "in_mark"
                             /\ (x.sel = "lo_low" <=> y.sel = "lo_low") => x = y
    PROVE  Cardinality(M) <= 3
  <1> DEFINE Mark == {r \in M : r.sel = "in_mark"}
             Low == {r \in M : r.sel = "lo_low"}
             Other == {r \in M : r.sel \notin {"in_mark", "lo_low"}}
  <1>1. Single(Mark) /\ Single(Low) /\ Single(Other)
    BY DEF Single
  <1>2. M = Mark \cup Low \cup Other
    OBVIOUS
  <1> HIDE DEF Mark, Low, Other
  <1>3. Cardinality(Mark \cup Low \cup Other) <= 3
    BY <1>1, AtMostThree
  <1> QED BY <1>2, <1>3

LEMMA SystemRulesAre ==
    \A r : r \in SystemRules <=>
        \E f \in {"v4", "v6"} :
            \/ r = [fam |-> f, sel |-> "any", act |-> "local", prio |-> 0]
            \/ r = [fam |-> f, sel |-> "any", act |-> "main", prio |-> 32766]
  BY DEF SystemRules

LEMMA LeastNumber ==
    ASSUME NEW P \in SUBSET Nat, P # {} PROVE \E m \in P : \A q \in P : m <= q
  <1> DEFINE R == OpToRel(<, Nat)
  <1>1. IsWellFoundedOn(R, Nat)
    BY NatLessThanWellFounded
  <1>2. ASSUME NEW x \in Nat, NEW y \in Nat, x < y PROVE <<x, y>> \in R
    BY <1>2 DEF OpToRel
  <1> HIDE DEF R
  <1>3. PICK m \in P : \A q \in P : ~(<<q, m>> \in R)
    BY <1>1, WFMin
  <1>4. ASSUME NEW q \in P PROVE m <= q
    <2>1. q \in Nat /\ m \in Nat /\ ~(<<q, m>> \in R)
      BY <1>3
    <2>2. ~(q < m)
      BY <1>2, <2>1
    <2> QED BY <2>1, <2>2
  <1> QED BY <1>4

\* The rules of auto_redirect, with whatever priority.
MarkShape(r) == \E f \in {"v4", "v6"}, n \in Nat : r = [Redirect(f) EXCEPT !.prio = n]

LEMMA MarkShapeIs ==
    ASSUME NEW r, MarkShape(r)
    PROVE  /\ r.sel = "in_mark" /\ r.fam \in {"v4", "v6"} /\ r.prio \in Nat
           /\ r = [Redirect(r.fam) EXCEPT !.prio = r.prio]
  BY DEF MarkShape, Redirect

\* A rule without a priority gets one below the rules there are.
LEMMA KernelPrioType ==
    ASSUME NEW rs, NEW f \in {"v4", "v6"}, SystemRules \subseteq rs, \A r \in rs : r.prio \in Nat
    PROVE  KernelPrio(rs, f) \in Nat
  <1> DEFINE prios == {r.prio : r \in {q \in rs : q.fam = f /\ q.act # "local"}}
             second == CHOOSE p \in prios : \A q \in prios : p <= q
  <1>1. prios \in SUBSET Nat
    OBVIOUS
  <1>2. prios # {}
    <2> DEFINE main == [fam |-> f, sel |-> "any", act |-> "main", prio |-> 32766]
    <2>1. main \in rs /\ main.fam = f /\ main.act # "local"
      BY SystemRulesAre
    <2> QED BY <2>1
  <1>3. KernelPrio(rs, f) = IF second = 0 THEN 0 ELSE second - 1
    BY DEF KernelPrio
  <1> HIDE DEF prios
  <1>4. second \in prios
    BY <1>1, <1>2, LeastNumber
  <1> HIDE DEF second
  <1> QED BY <1>1, <1>3, <1>4

\* Each family loses one of its fwmark rules, when it has any.
LEMMA OneMarkLess ==
    ASSUME NEW rs, NEW f \in {"v4", "v6"}, NEW n \in Nat, \A r \in Marks(rs, f) : r.prio \in Nat,
           IsFiniteSet(Marks(rs, f)), Cardinality(Marks(rs, f)) <= n + 1
    PROVE  /\ IsFiniteSet(Marks(DeleteMarks(rs), f))
           /\ Cardinality(Marks(DeleteMarks(rs), f)) <= n
  <1> DEFINE M == Marks(rs, f)
             left == Marks(DeleteMarks(rs), f)
  <1>1. left \subseteq M \ FirstMark(rs, f)
    BY DEF Marks, DeleteMarks
  <1>2. Cardinality(M) \in Nat
    BY FS_CardinalityType
  <1>3. CASE M = {}
    <2>1. left = {}
      BY <1>1, <1>3
    <2> QED BY <2>1, FS_EmptySet
  <1>4. CASE M # {}
    <2> DEFINE P == {r.prio : r \in M}
    <2>1. P \in SUBSET Nat /\ P # {}
      BY <1>4
    <2> HIDE DEF P, M
    <2>2. PICK m \in P : \A q \in P : m <= q
      BY <2>1, LeastNumber
    <2>3. PICK r \in M : r.prio = m
      BY DEF P
    <2>4. r \in FirstMark(rs, f)
      BY <2>2, <2>3 DEF FirstMark, P, M
    <2>5. left \in SUBSET (M \ {r})
      BY <1>1, <2>4 DEF M
    <2> HIDE DEF left
    <2>6. IsFiniteSet(M \ {r}) /\ Cardinality(M \ {r}) = Cardinality(M) - 1
      BY FS_RemoveElement DEF M
    <2>7. IsFiniteSet(left) /\ Cardinality(left) <= Cardinality(M \ {r})
      BY <2>5, <2>6, FS_Subset
    <2>8. Cardinality(left) \in Nat
      BY <2>7, FS_CardinalityType
    <2> QED BY <1>2, <2>6, <2>7, <2>8 DEF M, left
  <1> QED BY <1>3, <1>4

\* The system's rules are left, and of those of auto_redirect one less per family.
Cleared(rs, left) ==
    /\ left \subseteq rs
    /\ {r \in left : r.sel # "in_mark"} = SystemRules
    /\ \A f \in {"v4", "v6"}, n \in Nat :
          IsFiniteSet(Marks(rs, f)) /\ Cardinality(Marks(rs, f)) <= n + 1
          => IsFiniteSet(Marks(left, f)) /\ Cardinality(Marks(left, f)) <= n

\* What teardown on Linux finds: at most three rules under every number it recorded, which
\* is as often as it deletes them, and then the fwmark rules.
LEMMA LinuxTeardownRestores ==
    ASSUME NEW S, SetupStepsOK(S), NEW rs, NEW rec \in Seq(Numbers \cup {0}), NopPrio < 32766,
           SystemRules \subseteq rs,
           \A r \in rs \ SystemRules :
              MarkShape(r) \/ (r.sel # "in_mark" /\ \E a \in Elements(S) : r = a.rule),
           \A a \in Elements(S) : \A k \in DOMAIN a.push :
              \E i \in DOMAIN rec : rec[i] = a.push[k]
    PROVE  Cleared(rs, LinuxTeardown(rs, rec))
  <1> DEFINE dels == {rec[i] : i \in 1 .. Len(rec)} \ {0}
             At(f, p) == {r \in rs : r.fam = f /\ r.prio = p}
             rest == Undeleted(rs, dels)
  <1>1. dels \subseteq Numbers /\ DOMAIN rec = 1 .. Len(rec)
    BY LenProperties, ElementOfSeq
  <1>2. \A r \in SystemRules : r.prio \notin Numbers /\ r.sel # "in_mark"
    BY SystemRulesAre, NumbersAre DEF Numbers
  <1>3. \A r \in rs \ SystemRules : r.sel # "in_mark" =>
            \E a \in Elements(S) : r = a.rule /\ a.rule.prio # -1
    BY MarkShapeIs DEF SetupStepsOK
  <1>4. \A r \in rs : r.sel = "in_mark" => MarkShape(r)
    BY <1>2
  <1>5. ASSUME NEW f, NEW p \in dels
        PROVE  Delete3(rs, f, p) = {r \in rs : ~(r.fam = f /\ r.prio = p)}
    <2>1. \A r \in At(f, p) : r.sel # "in_mark" =>
              \E a \in Elements(S) : r = a.rule /\ a.rule.prio # -1
      BY <1>1, <1>2, <1>3
    <2>2. ASSUME NEW x \in At(f, p), NEW y \in At(f, p), x.sel # "in_mark", y.sel # "in_mark",
                 x.sel = "lo_low" <=> y.sel = "lo_low"
          PROVE  x = y
      <3>1. PICK a \in Elements(S) : x = a.rule /\ a.rule.prio # -1
        BY <2>1, <2>2
      <3>2. PICK b \in Elements(S) : y = b.rule
        BY <2>1, <2>2
      <3>3. a.rule.prio = b.rule.prio /\ a.rule.fam = b.rule.fam
        BY <3>1, <3>2
      <3> QED BY <2>2, <3>1, <3>2, <3>3 DEF SetupStepsOK
    <2>3. ASSUME NEW x \in At(f, p), NEW y \in At(f, p), x.sel = "in_mark", y.sel = "in_mark"
          PROVE  x = y
      <3>1. x = [Redirect(x.fam) EXCEPT !.prio = x.prio] /\ y = [Redirect(y.fam) EXCEPT !.prio = y.prio]
        BY <1>4, <2>3, MarkShapeIs
      <3>2. x.fam = y.fam /\ x.prio = y.prio
        OBVIOUS
      <3> QED BY <3>1, <3>2
    <2> HIDE DEF At
    <2>4. Cardinality(At(f, p)) <= 3
      BY <2>2, <2>3, ThreeKinds
    <2> QED BY <2>4 DEF Delete3, At
  <1>6. rest = {r \in rs : \A p \in dels : r.prio # p}
    <2>1. \A r \in rs : \A p \in dels : r \in Delete3(rs, r.fam, p) <=> r.prio # p
      BY <1>5
    <2> HIDE DEF dels
    <2> QED BY <2>1 DEF Undeleted
  <1>7. LinuxTeardown(rs, rec) = DeleteMarks(rest)
    BY DEF LinuxTeardown
  <1>8. ASSUME NEW r \in rs, r \notin SystemRules, r.sel # "in_mark" PROVE r.prio \in dels
    <2>1. PICK a \in Elements(S) : r = a.rule /\ a.rule.prio # -1
      BY <1>3, <1>8
    <2>2. PICK b \in Elements(S) : \E k \in DOMAIN b.push : b.push[k] = r.prio
      BY <2>1 DEF SetupStepsOK
    <2>3. PICK i \in 1 .. Len(rec) : rec[i] = r.prio
      BY <1>1, <2>2
    <2>4. r.prio # 0
      BY <2>1, SetupStepType, NumbersAre DEF SetupRules
    <2> QED BY <2>3, <2>4
  <1> HIDE DEF dels, rest
  <1>9. \A r : r \in DeleteMarks(rest) =>
            r \in rest
    BY DEF DeleteMarks
  <1>10. \A r \in rest : r.sel # "in_mark" => r \in DeleteMarks(rest)
    BY DEF DeleteMarks, FirstMark, Marks
  <1>11. {r \in DeleteMarks(rest) : r.sel # "in_mark"} = SystemRules
    <2>1. \A r \in SystemRules : r \in rest
      BY <1>1, <1>2, <1>6
    <2> QED BY <1>2, <1>6, <1>8, <1>9, <1>10, <2>1
  <1>12. ASSUME NEW f \in {"v4", "v6"}, NEW n \in Nat, IsFiniteSet(Marks(rs, f)),
                Cardinality(Marks(rs, f)) <= n + 1
         PROVE  /\ IsFiniteSet(Marks(DeleteMarks(rest), f))
                /\ Cardinality(Marks(DeleteMarks(rest), f)) <= n
    <2>1. Marks(rest, f) \in SUBSET Marks(rs, f)
      BY <1>6 DEF Marks
    <2>2. IsFiniteSet(Marks(rest, f)) /\ Cardinality(Marks(rest, f)) <= Cardinality(Marks(rs, f))
      BY <1>12, <2>1, FS_Subset
    <2>3. Cardinality(Marks(rest, f)) \in Nat /\ Cardinality(Marks(rs, f)) \in Nat
      BY <1>12, <2>2, FS_CardinalityType
    <2>4. \A r \in Marks(rest, f) : r.prio \in Nat
      BY <1>4, <1>6, MarkShapeIs DEF Marks
    <2>5. Cardinality(Marks(rest, f)) <= n + 1
      BY <1>12, <2>2, <2>3
    <2> QED BY <2>2, <2>4, <2>5, OneMarkLess
  <1>13. DeleteMarks(rest) \subseteq rs
    BY <1>6, <1>9
  <1> HIDE DEF rest
  <1>14. Cleared(rs, DeleteMarks(rest))
    BY <1>11, <1>12, <1>13 DEF Cleared
  <1> QED BY <1>7, <1>14

LEMMA OneMore ==
    ASSUME NEW M, NEW x, IsFiniteSet(M), NEW N \in SUBSET (M \cup {x})
    PROVE  IsFiniteSet(N) /\ Cardinality(N) \in Nat /\ Cardinality(N) <= Cardinality(M) + 1
  <1> DEFINE D == M \cup {x}
  <1>1. IsFiniteSet(D) /\ Cardinality(D) = IF x \in M THEN Cardinality(M) ELSE Cardinality(M) + 1
    BY FS_AddElement
  <1> HIDE DEF D
  <1>2. IsFiniteSet(N) /\ Cardinality(N) <= Cardinality(D)
    BY <1>1, FS_Subset DEF D
  <1>3. Cardinality(M) \in Nat /\ Cardinality(N) \in Nat
    BY <1>2, FS_CardinalityType
  <1> QED BY <1>1, <1>2, <1>3

\* A command of set-up on Linux adds its rule or none, and records what it pushes.
LEMMA LinuxStep ==
    ASSUME PrioritiesFree, cfg \in Config, os = "linux", NEW ok \in BOOLEAN, RuleStep(ok),
           LinuxRulesInv, MarksInv, LinuxRecordedInv, abandoned \in Nat,
           phase = "setup", pc \in 1 .. SetupLength, UNCHANGED <<os, cfg, phase, abandoned>>,
           pc' = pc + 1
    PROVE  LinuxRulesInv' /\ MarksInv' /\ LinuxRecordedInv'
  <1> DEFINE S == LinuxSetup(cfg)
             step == S[pc]
             rule == IF step.rule.prio = -1
                     THEN [step.rule EXCEPT !.prio = KernelPrio(rules, step.rule.fam)]
                     ELSE step.rule
  <1>1. SetupStepsOK(S)
    BY LinuxSetupOK
  <1>2. step \in Elements(S) /\ pc \in 1 .. Len(S) /\ S' = S
    BY DEF SetupLength, Elements
  <1>3. step.rule \in SetupRules /\ step.push \in Seq(Numbers \cup {0})
        /\ (step.rule.sel = "in_mark" <=> step.rule.prio = -1)
    <2> HIDE DEF S, step
    <2>1. step.rule \in SetupRules /\ step.push \in Seq(Numbers \cup {0})
      BY <1>1, <1>2, SetupStepType
    <2> QED BY <1>1, <1>2, <2>1 DEF SetupStepsOK
  <1>4. recorded' = recorded \o step.push
        /\ rules' \in {rules, AddRule(rules, rule)}
    BY DEF RuleStep
  <1>5. rules' \in {rules, rules \cup {rule}}
    <2> HIDE DEF rule
    <2> QED BY <1>4 DEF AddRule
  <1>6. ASSUME step.rule.sel # "in_mark" PROVE LinuxRulesInv' /\ MarksInv'
    <2>1. rule = step.rule
      BY <1>3, <1>6
    <2>2. LinuxRulesInv'
      <3> HIDE DEF S, rule
      <3>1. \A r \in rules' \ SystemRules :
                r \in rules \ SystemRules \/ (r.sel # "in_mark" /\ r = S[pc].rule)
        BY <1>5, <1>6, <2>1
      <3> QED BY <1>2, <1>5, <3>1 DEF LinuxRulesInv, S
    <2>3. ASSUME NEW g \in {"v4", "v6"}
          PROVE  Marks(rules', g) = Marks(rules, g) /\ (Redirected(g) => Redirected(g)')
      <3>1. Marks(rules', g) = Marks(rules, g)
        <4> HIDE DEF rule, step
        <4> QED BY <1>5, <1>6, <2>1 DEF Marks
      <3>2. Redirected(g) => Redirected(g)'
        BY DEF Redirected
      <3> QED BY <3>1, <3>2
    <2>4. MarksInv'
      <3>1. \A g \in {"v4", "v6"} : IsFiniteSet(Marks(rules', g))
        BY <2>3 DEF MarksInv
      <3>2. ASSUME NEW g \in {"v4", "v6"}
            PROVE  Cardinality(Marks(rules', g)) <= abandoned' + (IF Redirected(g)' THEN 1 ELSE 0)
        <4>1. Cardinality(Marks(rules, g)) \in Nat
          BY FS_CardinalityType DEF MarksInv
        <4>2. Cardinality(Marks(rules, g)) <= abandoned + (IF Redirected(g) THEN 1 ELSE 0)
          BY DEF MarksInv
        <4> HIDE DEF S, rule, step
        <4> QED BY <2>3, <4>1, <4>2
      <3> QED BY <3>1, <3>2 DEF MarksInv
    <2> QED BY <2>2, <2>4
  <1>7. ASSUME step.rule.sel = "in_mark" PROVE LinuxRulesInv' /\ MarksInv'
    <2>1. PICK f \in {"v4", "v6"} : step.rule = Redirect(f)
      BY <1>2, <1>7, RedirectOnce
    <2> HIDE DEF step
    <2>2. ~Redirected(f)
      <3>1. S[pc].rule = Redirect(f) /\ \A i \in 1 .. pc - 1 : i \in 1 .. Len(S) /\ i # pc
        BY <1>2, <2>1 DEF step
      <3>2. \A i \in 1 .. Len(S) : S[i].rule = Redirect(f) => i = pc
        BY <1>2, <3>1, RedirectOnce
      <3> QED BY <3>1, <3>2 DEF Redirected
    <2>3. Redirected(f)'
      <3>1. pc \in 1 .. pc' - 1 /\ LinuxSetup(cfg')[pc].rule = Redirect(f)
        BY <1>2, <2>1 DEF step
      <3>2. phase' = "setup"
        OBVIOUS
      <3> QED BY <3>1, <3>2 DEF Redirected
    <2>4. KernelPrio(rules, f) \in Nat
      <3>1. \A r \in rules : r.prio \in Nat
        <4>1. ASSUME NEW i \in 1 .. Len(S), S[i].rule.sel # "in_mark" PROVE S[i].rule.prio \in Nat
          <5> HIDE DEF S
          <5>1. S[i] \in Elements(S)
            BY DEF Elements
          <5>2. S[i].rule \in SetupRules /\ S[i].rule.prio # -1
            BY <1>1, <4>1, <5>1, SetupStepType DEF SetupStepsOK
          <5> QED BY <5>2, NumbersAre DEF SetupRules
        <4>2. \A r \in SystemRules : r.prio \in Nat
          BY SystemRulesAre
        <4>3. \A r \in rules \ SystemRules :
                  MarkShape(r) \/ (r.sel # "in_mark" /\ \E i \in 1 .. Len(S) : r = S[i].rule)
          BY DEF LinuxRulesInv, MarkShape
        <4> HIDE DEF S
        <4> QED BY <4>1, <4>2, <4>3, MarkShapeIs
      <3> QED BY <2>1, <3>1, KernelPrioType DEF LinuxRulesInv
    <2>5. rule = [Redirect(f) EXCEPT !.prio = KernelPrio(rules, f)]
      <3>1. step.rule.fam = f
        BY <2>1 DEF Redirect
      <3> QED BY <1>3, <1>7, <2>1, <3>1
    <2> HIDE DEF rule
    <2>6. rule.sel = "in_mark" /\ rule.fam = f /\ MarkShape(rule)
      BY <2>1, <2>4, <2>5 DEF Redirect, MarkShape
    <2>7. LinuxRulesInv'
      <3> HIDE DEF S
      <3>1. \A r \in rules' \ SystemRules : r \in rules \ SystemRules \/ MarkShape(r)
        BY <1>5, <2>6
      <3> QED BY <1>2, <1>5, <3>1 DEF LinuxRulesInv, S, MarkShape
    <2>8. ASSUME NEW g \in {"v4", "v6"}
          PROVE  /\ IsFiniteSet(Marks(rules', g))
                 /\ Cardinality(Marks(rules', g)) <= abandoned' + (IF Redirected(g)' THEN 1 ELSE 0)
      <3>1. /\ IsFiniteSet(Marks(rules, g)) /\ Cardinality(Marks(rules, g)) \in Nat
            /\ Cardinality(Marks(rules, g)) <= abandoned + (IF Redirected(g) THEN 1 ELSE 0)
        BY FS_CardinalityType DEF MarksInv
      <3>2. CASE g = f
        <4>1. Marks(rules', g) \in SUBSET (Marks(rules, g) \cup {rule})
          BY <1>5 DEF Marks
        <4>2. /\ IsFiniteSet(Marks(rules', g)) /\ Cardinality(Marks(rules', g)) \in Nat
              /\ Cardinality(Marks(rules', g)) <= Cardinality(Marks(rules, g)) + 1
          BY <3>1, <4>1, OneMore
        <4>3. ~Redirected(g) /\ Redirected(g)'
          BY <2>2, <2>3, <3>2
        <4>4. abandoned' = abandoned
          OBVIOUS
        <4> QED BY <4>2, <4>3, <4>4, <3>1
      <3>3. CASE g # f
        <4>1. Marks(rules', g) = Marks(rules, g)
          BY <1>5, <2>6, <3>3 DEF Marks
        <4>2. Redirected(g) => Redirected(g)'
          BY DEF Redirected
        <4> HIDE DEF S, step
        <4> QED BY <3>1, <4>1, <4>2
      <3> QED BY <3>2, <3>3
    <2>9. MarksInv'
      BY <2>8 DEF MarksInv
    <2> QED BY <2>7, <2>9
  <1> HIDE DEF rule
  <1>8. LinuxRecordedInv'
    <2>1. recorded \in Seq(Numbers \cup {0})
      BY DEF LinuxRecordedInv, Numbers
    <2>2. recorded' \in Seq(Numbers \cup {0})
          /\ Elements(recorded') = Elements(recorded) \cup Elements(step.push)
      BY <1>3, <1>4, <2>1, ConcatElements
    <2>3. DOMAIN recorded = 1 .. Len(recorded) /\ DOMAIN recorded' = 1 .. Len(recorded')
          /\ DOMAIN step.push = 1 .. Len(step.push)
      BY <1>3, <2>1, <2>2, LenProperties
    <2>4. ASSUME NEW j \in 1 .. pc' - 1, NEW k \in DOMAIN S[j].push
          PROVE  S[j].push[k] \in Elements(recorded')
      <3>1. CASE j = pc
        BY <2>2, <2>3, <3>1 DEF Elements, step
      <3>2. CASE j # pc
        <4>1. j \in 1 .. pc - 1
          BY <3>2
        <4>2. \E i \in DOMAIN recorded : recorded[i] = S[j].push[k]
          BY <4>1 DEF LinuxRecordedInv
        <4> QED BY <2>2, <2>3, <4>2 DEF Elements
      <3> QED BY <3>1, <3>2
    <2>5. \A j \in 1 .. pc' - 1 : \A k \in DOMAIN S[j].push :
              \E i \in DOMAIN recorded' : recorded'[i] = S[j].push[k]
      BY <2>3, <2>4 DEF Elements
    <2> QED BY <2>2, <2>5 DEF LinuxRecordedInv, Numbers
  <1> QED BY <1>6, <1>7, <1>8

\* The commands of Android: one number for all rules, nothing recorded for the anchor.
AndroidSteps ==
    {[rule |-> [fam |-> f, sel |-> sel, act |-> act, prio |-> PrioBase], push |-> <<PrioBase>>] :
        f \in {"v4", "v6"}, sel \in {"uid", "listed", "protected", "iif_tun", "not_lo", "lo_tun"},
        act \in {"nop", "main"}}
      \cup {[rule |-> Anchor("v4"), push |-> <<>>]}

LEMMA AndroidStepIs ==
    ASSUME NEW a \in AndroidSteps
    PROVE  \/ a.rule = Anchor("v4") /\ a.push = <<>>
           \/ a.push = <<PrioBase>> /\ a.push # <<>> /\ a.rule.prio = PrioBase
  <1> DEFINE first == <<PrioBase>>
  <1>1. first # <<>>
    OBVIOUS
  <1>2. \/ a = [rule |-> Anchor("v4"), push |-> <<>>]
        \/ \E f, sel, act : a = [rule |-> [fam |-> f, sel |-> sel, act |-> act,
                                          prio |-> PrioBase], push |-> first]
    BY DEF AndroidSteps
  <1> HIDE DEF first
  <1>3. \/ a.rule = Anchor("v4") /\ a.push = <<>>
        \/ a.push = first /\ a.rule.prio = PrioBase
    BY <1>2
  <1> QED BY <1>1, <1>3 DEF first

LEMMA AndroidSetupType == ASSUME NEW c PROVE AndroidSetup(c) \in Seq(AndroidSteps)
  <1> DEFINE At(f, sel, act) ==
                <<[rule |-> [fam |-> f, sel |-> sel, act |-> act, prio |-> PrioBase],
                   push |-> <<PrioBase>>]>>
             v4 == "v4" \in c.fams
             anchor == <<[rule |-> Anchor("v4"), push |-> <<>>]>>
             T == AndroidSteps
  <1>1. ASSUME NEW f \in {"v4", "v6"}, NEW act \in {"nop", "main"},
               NEW sel \in {"uid", "listed", "protected", "iif_tun", "not_lo", "lo_tun"}
        PROVE  At(f, sel, act) \in Seq(T)
    <2>1. [rule |-> [fam |-> f, sel |-> sel, act |-> act, prio |-> PrioBase],
           push |-> <<PrioBase>>] \in T
      BY DEF AndroidSteps
    <2> HIDE DEF T
    <2> QED BY <2>1, SingleSeq
  <1>2. anchor \in Seq(T)
    <2>1. [rule |-> Anchor("v4"), push |-> <<>>] \in T
      BY DEF AndroidSteps
    <2> HIDE DEF T
    <2> QED BY <2>1, SingleSeq
  <1> DEFINE last == At("v4", "iif_tun", "nop") \o At("v4", "not_lo", "main")
                       \o At("v4", "lo_tun", "main") \o anchor
  <1>3. AndroidSetup(c) =
            If(c.uids /\ v4, At("v4", "uid", "nop"))
              \o If(c.ifaces = "include" /\ v4, At("v4", "listed", "main"))
              \o If(c.ifaces = "exclude" /\ v4, At("v4", "listed", "nop"))
              \o If(v4, At("v4", "protected", "main"))
              \o If("v6" \in c.fams, At("v6", "protected", "main"))
              \o If(v4, last)
    BY DEF AndroidSetup
  <1> HIDE DEF At, anchor, T, v4, last
  <1>4. \A s, t \in Seq(T) : s \o t \in Seq(T)
    BY ConcatProperties
  <1>5. last \in Seq(T)
    BY <1>1, <1>2, <1>4 DEF last
  <1>6. \A b, s : s \in Seq(T) => If(b, s) \in Seq(T)
    BY IfSeq
  <1>7. /\ If(c.uids /\ v4, At("v4", "uid", "nop")) \in Seq(T)
        /\ If(c.ifaces = "include" /\ v4, At("v4", "listed", "main")) \in Seq(T)
        /\ If(c.ifaces = "exclude" /\ v4, At("v4", "listed", "nop")) \in Seq(T)
        /\ If(v4, At("v4", "protected", "main")) \in Seq(T)
        /\ If("v6" \in c.fams, At("v6", "protected", "main")) \in Seq(T)
        /\ If(v4, last) \in Seq(T)
    BY <1>1, <1>5, <1>6
  <1> QED BY <1>3, <1>4, <1>7 DEF T

\* What is recorded counts the rules with that number but the anchor, so teardown, which
\* deletes as many, deletes them all.
LEMMA AndroidTeardownRestores ==
    ASSUME NEW S \in Seq(AndroidSteps), NEW rs, NEW rec \in Seq({PrioBase}), NopPrio < 32766,
           SystemRules \subseteq rs,
           \A r \in rs \ SystemRules : \E i \in 1 .. Len(S) : r = S[i].rule,
           Len(rec) = Cardinality({j \in 1 .. Len(S) : S[j].push # <<>>})
    PROVE  /\ {r \in AndroidTeardown(rs, rec) : r.fam = "v4"}
                = {r \in SystemRules : r.fam = "v4"}
           /\ SystemRules \subseteq AndroidTeardown(rs, rec)
           /\ AndroidTeardown(rs, rec) \subseteq rs
  <1> DEFINE J == {j \in 1 .. Len(S) : S[j].push # <<>>}
             at == {r \in rs : r.fam = "v4" /\ r.prio = PrioBase}
             f == [j \in J |-> S[j].rule]
             T == {f[j] : j \in J}
  <1>1. \A r \in SystemRules : r.prio # PrioBase /\ r.prio # NopPrio
    BY SystemRulesAre, NumbersAre, PolicyAssumption DEF Numbers, NopPrio
  <1>2. ASSUME NEW i \in 1 .. Len(S)
        PROVE  \/ S[i].rule = Anchor("v4")
               \/ S[i].push # <<>> /\ S[i].rule.prio = PrioBase
    <2>1. S[i] \in AndroidSteps
      BY ElementOfSeq
    <2> QED BY <2>1, AndroidStepIs
  <1>3. Anchor("v4").prio # PrioBase /\ Anchor("v4").prio = NopPrio
    BY PolicyAssumption DEF Anchor, NopPrio
  <1>4. IsFiniteSet(T) /\ Cardinality(T) <= Len(rec) /\ Cardinality(T) \in Nat
    <2>1. IsFiniteSet(1 .. Len(S)) /\ J \in SUBSET (1 .. Len(S))
      BY FS_Interval, LenProperties
    <2>2. IsFiniteSet(J)
      BY <2>1, FS_Subset
    <2> HIDE DEF J
    <2>3. f \in [J -> T] /\ \A t \in T : \E j \in J : f[j] = t
      OBVIOUS
    <2> HIDE DEF f, T
    <2>4. f \in Surjection(J, T)
      BY <2>3 DEF Surjection
    <2>5. IsFiniteSet(T) /\ Cardinality(T) <= Cardinality(J)
      BY <2>2, <2>4, FS_Surjection
    <2> QED BY <2>5, FS_CardinalityType DEF J
  <1>5. at \in SUBSET T
    <2>1. ASSUME NEW r \in at PROVE \E j \in J : r = f[j]
      <3>1. PICK i \in 1 .. Len(S) : r = S[i].rule
        BY <1>1
      <3>2. i \in J
        BY <1>2, <1>3, <3>1
      <3> QED BY <3>1, <3>2
    <2> QED BY <2>1
  <1> HIDE DEF J, f, T
  <1>6. Cardinality(at) <= Len(rec)
    <2> HIDE DEF at
    <2>1. IsFiniteSet(at) /\ Cardinality(at) <= Cardinality(T)
      BY <1>4, <1>5, FS_Subset
    <2>2. Cardinality(at) \in Nat /\ Len(rec) \in Nat
      BY <2>1, FS_CardinalityType, LenProperties
    <2> QED BY <1>4, <2>1, <2>2
  <1>7. AndroidTeardown(rs, rec) = (rs \ at) \ {Anchor("v4")}
    BY <1>6 DEF AndroidTeardown
  <1>8. ASSUME NEW r \in rs, r.fam = "v4", r \notin SystemRules
        PROVE  r \in at \/ r = Anchor("v4")
    BY <1>2, <1>8
  <1> QED BY <1>1, <1>3, <1>7, <1>8

LEMMA AndroidStep ==
    ASSUME cfg \in Config, os = "android", NEW ok \in BOOLEAN, RuleStep(ok),
           AndroidRulesInv, AndroidRecordedInv,
           phase = "setup", pc \in 1 .. SetupLength, UNCHANGED <<os, cfg, phase>>, pc' = pc + 1
    PROVE  AndroidRulesInv' /\ AndroidRecordedInv'
  <1> DEFINE S == AndroidSetup(cfg)
             step == S[pc]
             Counted(n) == {j \in 1 .. n - 1 : S[j].push # <<>>}
  <1>1. S \in Seq(AndroidSteps) /\ pc \in 1 .. Len(S) /\ S' = S
    BY AndroidSetupType DEF SetupLength
  <1>2. step \in AndroidSteps
    <2> HIDE DEF S
    <2> QED BY <1>1, ElementOfSeq
  <1>3. step.rule.prio # -1
    <2> HIDE DEF step
    <2> QED BY <1>2, AndroidStepIs, PolicyAssumption DEF Anchor, NopPrio
  <1>4. recorded' = recorded \o step.push /\ rules' \in {rules, rules \cup {step.rule}}
    BY <1>3 DEF RuleStep, AddRule
  <1>5. AndroidRulesInv'
    <2>1. \A r \in rules' \ SystemRules :
              r \in rules \ SystemRules \/ r = S[pc].rule
      BY <1>4
    <2> HIDE DEF S
    <2>2. \A r \in rules' \ SystemRules : \E i \in 1 .. Len(S) : r = S[i].rule
      BY <1>1, <2>1 DEF AndroidRulesInv, S
    <2> QED BY <1>1, <1>4, <2>2 DEF AndroidRulesInv, S
  <1>6. recorded' \in Seq({PrioBase}) /\ Len(recorded') = Cardinality(Counted(pc + 1))
    <2>1. recorded \in Seq({PrioBase}) /\ Len(recorded) = Cardinality(Counted(pc))
          /\ Len(recorded) \in Nat
      BY LenProperties DEF AndroidRecordedInv
    <2>2. IsFiniteSet(Counted(pc)) /\ pc \notin Counted(pc)
      <3>1. IsFiniteSet(1 .. pc - 1) /\ Counted(pc) \in SUBSET (1 .. pc - 1)
        BY FS_Interval
      <3>2. pc \notin Counted(pc)
        OBVIOUS
      <3> HIDE DEF Counted
      <3> QED BY <3>1, <3>2, FS_Subset
    <2>3. CASE step.push = <<>>
      <3>1. Counted(pc + 1) = Counted(pc)
        <4>1. 1 .. (pc + 1) - 1 = (1 .. pc - 1) \cup {pc}
          OBVIOUS
        <4> QED BY <2>3, <4>1
      <3>2. recorded' = recorded
        BY <1>4, <2>1, <2>3, ConcatEmptySeq
      <3> QED BY <2>1, <3>1, <3>2
    <2>4. CASE step.push = <<PrioBase>> /\ step.push # <<>>
      <3>1. Counted(pc + 1) = Counted(pc) \cup {pc}
        <4>1. 1 .. (pc + 1) - 1 = (1 .. pc - 1) \cup {pc}
          OBVIOUS
        <4> QED BY <2>4, <4>1
      <3>2. <<PrioBase>> \in Seq({PrioBase}) /\ Len(<<PrioBase>>) = 1
        OBVIOUS
      <3>3. recorded' \in Seq({PrioBase}) /\ Len(recorded') = Len(recorded) + 1
        BY <1>4, <2>1, <2>4, <3>2, ConcatProperties
      <3> HIDE DEF Counted
      <3>4. Cardinality(Counted(pc) \cup {pc}) = Cardinality(Counted(pc)) + 1
        BY <2>2, FS_AddElement
      <3> QED BY <2>1, <3>1, <3>3, <3>4
    <2> QED BY <1>2, <2>3, <2>4, AndroidStepIs
  <1> QED BY <1>1, <1>5, <1>6 DEF AndroidRecordedInv

LEMMA SetupLengthType ==
    ASSUME PrioritiesFree, RunTypeOK PROVE SetupLength \in Nat
  <1>1. cfg \in Config
    BY ConfigType DEF RunTypeOK
  <1>2. CASE os = "linux"
    <2>1. SetupStepsOK(LinuxSetup(cfg))
      BY <1>1, LinuxSetupOK
    <2> QED BY <1>2, <2>1, LenProperties DEF SetupStepsOK, SetupLength
  <1>3. CASE os = "android"
    BY <1>3, AndroidSetupType, LenProperties DEF SetupLength
  <1>4. CASE os = "macos"
    BY <1>4, SearchComesFirst DEF Leads, SetupLength
  <1>5. CASE os = "windows"
    BY <1>5, SearchComesFirst DEF Leads, SetupLength
  <1> QED BY <1>2, <1>3, <1>4, <1>5 DEF RunTypeOK

LEMMA SetupDoneStep ==
    ASSUME PrioritiesFree, RunTypeOK, SetupDone, [RunNext]_runVars PROVE SetupDone'
  <1>1. SetupLength \in Nat /\ SetupLength' = SetupLength
    <2>1. UNCHANGED <<os, cfg>>
      BY Constants
    <2>2. SetupLength' = SetupLength
      BY <2>1 DEF SetupLength
    <2> QED BY <2>2, SetupLengthType
  <1>2. CASE SetupStep
    <2>1. pc' = pc + 1 /\ phase' = "setup" /\ pc <= SetupLength
      BY <1>2 DEF SetupStep
    <2> QED BY <1>1, <2>1 DEF SetupDone, RunTypeOK
  <1>3. CASE UserStack \/ Listen
    <2>1. pc' = pc /\ phase = "setup" /\ phase' \in {"user_stack", "serving"}
          /\ pc > SetupLength
      BY <1>3 DEF UserStack, Listen
    <2> QED BY <1>1, <2>1 DEF SetupDone, RunTypeOK
  <1>4. CASE \/ NewStack \/ CreateDevice \/ StartFails \/ AddRoutes \/ Teardown \/ RunReturns
             \/ Close \/ OldDeviceGone \/ Crash \/ UNCHANGED runVars
    <2>1. \/ phase' \in {"device", "main_routes", "ended", "torn_down"}
          \/ phase \in {"device", "main_routes"} /\ phase' = "setup" /\ pc' = pc
          \/ UNCHANGED <<phase, pc>>
      BY <1>4 DEF NewStack, CreateDevice, StartFails, AddRoutes, Teardown, RunReturns, Close,
                  OldDeviceGone, Crash, runVars
    <2> QED BY <1>1, <2>1 DEF SetupDone, RunTypeOK
  <1> QED BY <1>2, <1>3, <1>4 DEF RunNext

LEMMA NoMarks ==
    ASSUME NEW rs, \A r \in rs : r.sel # "in_mark", NEW f
    PROVE  IsFiniteSet(Marks(rs, f)) /\ Cardinality(Marks(rs, f)) = 0
  <1>1. Marks(rs, f) = {}
    BY DEF Marks
  <1> QED BY <1>1, FS_EmptySet

\* Where the rules stay, a run that ends without a teardown counts for those it has added.
LEMMA MarksKept ==
    ASSUME MarksInv, UNCHANGED rules, abandoned \in Nat, abandoned' \in {abandoned, abandoned + 1},
           \A f \in {"v4", "v6"} :
               Redirected(f) => Redirected(f)' \/ abandoned' = abandoned + 1
    PROVE  MarksInv'
  <1> SUFFICES ASSUME NEW f \in {"v4", "v6"}
               PROVE  /\ IsFiniteSet(Marks(rules', f))
                      /\ Cardinality(Marks(rules', f))
                            <= abandoned' + (IF Redirected(f)' THEN 1 ELSE 0)
    BY DEF MarksInv
  <1>1. Marks(rules', f) = Marks(rules, f)
    OBVIOUS
  <1>2. /\ IsFiniteSet(Marks(rules, f)) /\ Cardinality(Marks(rules, f)) \in Nat
        /\ Cardinality(Marks(rules, f)) <= abandoned + (IF Redirected(f) THEN 1 ELSE 0)
    BY FS_CardinalityType DEF MarksInv
  <1> QED BY <1>1, <1>2

\* After the last step everything set-up pushed is in rule_priorities: teardown restores
\* the rules on both systems.
LEMMA TeardownOnRules ==
    ASSUME PrioritiesFree, RunTypeOK, SetupDone, RulesInv, Teardown
    PROVE  RulesInv' /\ RulesRestored'
  <1>1. /\ phase = "serving" /\ phase' = "torn_down" /\ pc = SetupLength + 1
        /\ UNCHANGED <<os, cfg, recorded>> /\ cfg \in Config /\ SetupLength \in Nat
        /\ abandoned' \in Nat
    BY ConfigType, SetupLengthType DEF Teardown, SetupDone, RunTypeOK
  <1>2. NopPrio < 32766
    BY DEF PrioritiesFree
  <1>3. CASE os = "linux"
    <2> DEFINE S == LinuxSetup(cfg)
    <2>1. LinuxRulesInv /\ MarksInv /\ LinuxRecordedInv /\ SetupStepsOK(S)
          /\ rules' = LinuxTeardown(rules, recorded)
      BY <1>1, <1>3, LinuxSetupOK DEF RulesInv, Teardown
    <2>2. pc - 1 = Len(S) /\ recorded \in Seq(Numbers \cup {0})
      BY <1>1, <1>3, <2>1 DEF SetupLength, LinuxRecordedInv, Numbers
    <2> HIDE DEF S
    <2>3. \A a \in Elements(S) : \A k \in DOMAIN a.push :
              \E i \in DOMAIN recorded : recorded[i] = a.push[k]
      BY <1>1, <2>1, <2>2 DEF LinuxRecordedInv, Elements, S
    <2>4. /\ SystemRules \subseteq rules
          /\ \A r \in rules \ SystemRules :
                MarkShape(r) \/ (r.sel # "in_mark" /\ \E a \in Elements(S) : r = a.rule)
      BY <2>1 DEF LinuxRulesInv, MarkShape, Elements, S
    <2>5. /\ rules' \subseteq rules
          /\ {r \in rules' : r.sel # "in_mark"} = SystemRules
          /\ \A f \in {"v4", "v6"}, n \in Nat :
                 IsFiniteSet(Marks(rules, f)) /\ Cardinality(Marks(rules, f)) <= n + 1
                 => IsFiniteSet(Marks(rules', f)) /\ Cardinality(Marks(rules', f)) <= n
      <3>1. Cleared(rules, rules')
        BY <1>2, <2>1, <2>2, <2>3, <2>4, LinuxTeardownRestores
      <3> QED BY <3>1 DEF Cleared
    <2>6. LinuxRulesInv'
      <3>1. SystemRules \subseteq rules'
        BY <2>5
      <3> QED BY <1>1, <2>1, <2>5, <3>1 DEF LinuxRulesInv
    <2>7. LinuxRecordedInv'
      BY <1>1, <2>1 DEF LinuxRecordedInv
    <2>8. ASSUME NEW f \in {"v4", "v6"}
          PROVE  IsFiniteSet(Marks(rules', f)) /\ Cardinality(Marks(rules', f)) <= abandoned
      <3>1. /\ IsFiniteSet(Marks(rules, f)) /\ Cardinality(Marks(rules, f)) \in Nat
            /\ Cardinality(Marks(rules, f)) <= abandoned + (IF Redirected(f) THEN 1 ELSE 0)
        BY <2>1, FS_CardinalityType DEF MarksInv
      <3>2. abandoned \in Nat
        BY DEF RunTypeOK
      <3>3. Cardinality(Marks(rules, f)) <= abandoned + 1
        BY <3>1, <3>2
      <3> QED BY <2>5, <3>1, <3>2, <3>3
    <2>9. abandoned' = abandoned /\ abandoned \in Nat /\ os' # "android"
      BY <1>1, <1>3 DEF Teardown, RunTypeOK
    <2>10. MarksInv'
      <3>1. \A f \in {"v4", "v6"} : ~Redirected(f)'
        BY <1>1 DEF Redirected
      <3> QED BY <2>8, <2>9, <3>1 DEF MarksInv
    <2>11. RulesRestored'
      BY <2>5, <2>8, <2>9 DEF RulesRestored
    <2> QED BY <1>1, <1>3, <2>6, <2>7, <2>10, <2>11 DEF RulesInv
  <1>4. CASE os = "android"
    <2> DEFINE S == AndroidSetup(cfg)
    <2>1. AndroidRulesInv /\ AndroidRecordedInv /\ rules' = AndroidTeardown(rules, recorded)
      BY <1>4 DEF RulesInv, Teardown
    <2>2. S \in Seq(AndroidSteps) /\ pc - 1 = Len(S) /\ recorded \in Seq({PrioBase})
      BY <1>1, <1>4, <2>1, AndroidSetupType DEF SetupLength, AndroidRecordedInv
    <2>3. Len(recorded) = Cardinality({j \in 1 .. Len(S) : S[j].push # <<>>})
      BY <1>1, <2>1, <2>2 DEF AndroidRecordedInv
    <2>4. /\ SystemRules \subseteq rules
          /\ \A r \in rules \ SystemRules : \E i \in 1 .. Len(S) : r = S[i].rule
      BY <2>1 DEF AndroidRulesInv
    <2> HIDE DEF S
    <2>5. /\ {r \in rules' : r.fam = "v4"} = {r \in SystemRules : r.fam = "v4"}
          /\ SystemRules \subseteq rules' /\ rules' \subseteq rules
      BY <1>2, <2>1, <2>2, <2>3, <2>4, AndroidTeardownRestores
    <2>6. AndroidRulesInv'
      BY <1>1, <2>4, <2>5 DEF AndroidRulesInv, S
    <2>7. AndroidRecordedInv'
      BY <1>1, <2>1 DEF AndroidRecordedInv
    <2>8. \A r \in rules' : r.sel # "in_mark"
      <3>1. \A a \in AndroidSteps : a.rule.sel # "in_mark"
        BY DEF AndroidSteps, Anchor
      <3>2. \A i \in 1 .. Len(S) : S[i] \in AndroidSteps
        BY <2>2, ElementOfSeq
      <3> QED BY <2>4, <2>5, <3>1, <3>2, SystemRulesAre
    <2>9. RulesRestored'
      BY <1>1, <1>4, <2>5, <2>8, NoMarks DEF RulesRestored
    <2> QED BY <1>1, <1>4, <2>6, <2>7, <2>9 DEF RulesInv
  <1>5. CASE os \in {"macos", "windows"}
    <2>1. rules' = SystemRules /\ os' = os
      BY <1>1, <1>5 DEF RulesInv, Teardown
    <2>2. \A r \in rules' : r.sel # "in_mark"
      BY <2>1, SystemRulesAre
    <2>3. RulesRestored'
      BY <1>1, <1>5, <2>1, <2>2, NoMarks DEF RulesRestored
    <2> QED BY <1>5, <2>1, <2>3 DEF RulesInv
  <1> QED BY <1>3, <1>4, <1>5 DEF RunTypeOK

LEMMA RulesStep ==
    ASSUME PrioritiesFree, RunTypeOK, SetupDone, RulesInv, [RunNext]_runVars
    PROVE  RulesInv'
  <1>1. cfg \in Config /\ UNCHANGED <<os, cfg>>
    BY ConfigType, Constants DEF RunTypeOK
  <1>2. CASE SetupStep
    <2>1. PICK ok \in BOOLEAN : RuleStep(ok) \/ HostStep(ok)
      BY <1>2 DEF SetupStep
    <2>2. phase = "setup" /\ pc \in 1 .. SetupLength /\ UNCHANGED <<phase, abandoned>>
          /\ pc' = pc + 1 /\ abandoned \in Nat
      BY <1>2, SetupLengthType DEF SetupStep, RunTypeOK
    <2>3. CASE os = "linux"
      <3>1. RuleStep(ok)
        BY <2>1, <2>3 DEF HostStep
      <3> QED BY <1>1, <2>2, <2>3, <3>1, LinuxStep DEF RulesInv
    <2>4. CASE os = "android"
      <3>1. RuleStep(ok)
        BY <2>1, <2>4 DEF HostStep
      <3> QED BY <1>1, <2>2, <2>4, <3>1, AndroidStep DEF RulesInv
    <2>5. CASE os \notin {"linux", "android"}
      <3>1. rules' = rules
        BY <2>1, <2>5 DEF HostStep, RuleStep
      <3> QED BY <1>1, <2>5, <3>1 DEF RulesInv
    <2> QED BY <2>3, <2>4, <2>5
  <1>3. CASE NewStack
    <2>1. rules' = rules /\ recorded' = <<>> /\ phase' = "device" /\ pc' = 1
      BY <1>3 DEF NewStack, kernel
    <2>2. CASE os = "linux"
      <3>1. LinuxRulesInv' /\ LinuxRecordedInv'
        BY <1>1, <2>1, <2>2, EmptySeq DEF RulesInv, LinuxRulesInv, LinuxRecordedInv
      <3>2. MarksInv /\ phase = "ended" /\ abandoned' = abandoned /\ abandoned \in Nat
        BY <1>3, <2>2 DEF RulesInv, NewStack, RunTypeOK
      <3>3. MarksInv'
        BY <2>1, <3>2, MarksKept DEF Redirected
      <3> QED BY <1>1, <2>2, <3>1, <3>3 DEF RulesInv
    <2>3. CASE os = "android"
      <3>1. AndroidRulesInv'
        BY <1>1, <2>1, <2>3 DEF RulesInv, AndroidRulesInv
      <3>2. {j \in 1 .. pc' - 1 : AndroidSetup(cfg)[j].push # <<>>} = {}
        BY <2>1
      <3>3. Len(recorded') = 0 /\ Cardinality({}) = 0 /\ recorded' \in Seq({PrioBase})
        BY <2>1, EmptySeq, FS_EmptySet
      <3>4. AndroidRecordedInv'
        BY <1>1, <3>2, <3>3 DEF AndroidRecordedInv
      <3> QED BY <1>1, <2>3, <3>1, <3>4 DEF RulesInv
    <2> QED BY <1>1, <2>1, <2>2, <2>3 DEF RulesInv
  <1>4. CASE CreateDevice \/ AddRoutes \/ Listen
    <2>1. /\ UNCHANGED <<rules, recorded, pc, abandoned>>
          /\ phase \in {"device", "main_routes", "setup"}
          /\ phase \in {"device", "main_routes"} => pc = 1
          /\ phase' \in {"main_routes", "setup", "serving"}
          /\ phase = "setup" => phase' = "serving"
          /\ abandoned \in Nat
      BY <1>4 DEF CreateDevice, AddRoutes, Listen, kernel, RunTypeOK
    <2>2. CASE os = "linux"
      <3>1. LinuxRulesInv'
        BY <1>1, <2>1, <2>2 DEF RulesInv, LinuxRulesInv
      <3>2. LinuxRecordedInv'
        BY <1>1, <2>1, <2>2 DEF RulesInv, LinuxRecordedInv
      <3>3. \A f \in {"v4", "v6"} : Redirected(f) => Redirected(f)'
        BY <1>1, <2>1 DEF Redirected
      <3>4. MarksInv'
        BY <2>1, <2>2, <3>3, MarksKept DEF RulesInv
      <3> QED BY <1>1, <2>2, <3>1, <3>2, <3>4 DEF RulesInv
    <2>3. CASE os = "android"
      <3>1. AndroidRulesInv'
        BY <1>1, <2>1, <2>3 DEF RulesInv, AndroidRulesInv
      <3>2. AndroidRecordedInv'
        BY <1>1, <2>1, <2>3 DEF RulesInv, AndroidRecordedInv
      <3> QED BY <1>1, <2>3, <3>1, <3>2 DEF RulesInv
    <2> QED BY <1>1, <2>1, <2>2, <2>3 DEF RulesInv
  <1>5. CASE Teardown
    BY <1>5, TeardownOnRules
  <1>6. CASE \/ StartFails \/ UserStack \/ RunReturns \/ Close \/ OldDeviceGone \/ Crash
             \/ UNCHANGED runVars
    <2>1. /\ UNCHANGED <<rules, recorded, pc>>
          /\ phase' = phase \/ phase' \in {"ended", "user_stack"}
          /\ abandoned \in Nat /\ abandoned' \in {abandoned, abandoned + 1}
          /\ \/ phase' = phase
             \/ phase \notin {"setup", "serving", "user_stack"}
             \/ phase = "setup" /\ phase' = "user_stack"
             \/ abandoned' = abandoned + 1
      BY <1>6 DEF StartFails, UserStack, RunReturns, Close, OldDeviceGone, Crash, runVars, kernel,
                  RunTypeOK
    <2>2. CASE os = "linux"
      <3>1. LinuxRulesInv'
        BY <1>1, <2>1, <2>2 DEF RulesInv, LinuxRulesInv
      <3>2. LinuxRecordedInv'
        BY <1>1, <2>1, <2>2 DEF RulesInv, LinuxRecordedInv
      <3>3. \A f \in {"v4", "v6"} :
                Redirected(f) => Redirected(f)' \/ abandoned' = abandoned + 1
        BY <1>1, <2>1 DEF Redirected
      <3>4. MarksInv'
        BY <2>1, <2>2, <3>3, MarksKept DEF RulesInv
      <3> QED BY <1>1, <2>2, <3>1, <3>2, <3>4 DEF RulesInv
    <2>3. CASE os = "android"
      <3>1. AndroidRulesInv'
        BY <1>1, <2>1, <2>3 DEF RulesInv, AndroidRulesInv
      <3>2. AndroidRecordedInv'
        BY <1>1, <2>1, <2>3 DEF RulesInv, AndroidRecordedInv
      <3> QED BY <1>1, <2>3, <3>1, <3>2 DEF RulesInv
    <2> QED BY <1>1, <2>1, <2>2, <2>3 DEF RulesInv
  <1> QED BY <1>2, <1>3, <1>4, <1>5, <1>6 DEF RunNext

\* What a run has torn down stays so until the next one.
LEMMA RestoredStep ==
    ASSUME PrioritiesFree, RouteState, SetupDone, RulesInv, TeardownRestores, [RunNext]_runVars
    PROVE  TeardownRestores'
  <1>1. RunTypeOK /\ RoutesInv /\ RouteState'
    BY RouteStep DEF RouteState
  <1>2. UNCHANGED <<os, cfg>>
    BY Constants
  <1>3. CASE Teardown
    <2>1. RulesRestored'
      BY <1>1, <1>3, TeardownOnRules
    <2>2. /\ os # "android" =>
                /\ ~\E r \in routes' : r.dev = "tun" /\ r.dst = "all"
                /\ \A r \in routes' : r.dst # "excl"
          /\ wfp' = IF os = "windows" THEN wfp \ {starts} ELSE wfp
          /\ starts \notin callbacks' /\ starts' = starts
      BY <1>1, <1>3, TeardownOnRoutes DEF Teardown
    <2>3. ASSUME os # "android"
          PROVE  /\ {r \in routes' : r.dev = "phys" /\ r.dst # "self"} = Physical({"v4", "v6"})
                 /\ ~\E r \in routes' : r.dev = "tun" /\ r.dst \in {"all", "excl"}
      <3>1. {r \in routes' : r.dev = "phys" /\ r.dst \notin {"self", "excl"}}
                = Physical({"v4", "v6"})
        BY <1>1, <1>2, <2>3 DEF RouteState, RoutesInv
      <3> QED BY <2>2, <2>3, <3>1
    <2>4. ASSUME os = "android", RoutesPreferred' PROVE ~\E r \in routes' : r.dev = "tun"
      <3>1. RoutesPreferred
        BY <1>2, <1>3, <2>4 DEF RoutesPreferred, Teardown
      <3> QED BY <1>1, <1>3, <2>4, <3>1, AndroidTeardownOnRoutes
    <2>5. starts' \notin wfp'
      BY <1>1, <2>2 DEF RoutesInv
    <2> QED BY <1>2, <2>1, <2>2, <2>3, <2>4, <2>5 DEF TeardownRestores
  <1>4. CASE OldDeviceGone \/ UNCHANGED runVars
    <2>1. /\ routes' \subseteq routes
          /\ \A r \in routes : r.dev = "phys" => r \in routes'
          /\ UNCHANGED <<os, cfg, metric, failed, abandoned, phase, rules, wfp, callbacks, starts>>
      BY <1>2, <1>4 DEF OldDeviceGone, runVars
    <2> SUFFICES ASSUME phase = "torn_down" PROVE TeardownRestores'
      BY <2>1 DEF TeardownRestores
    <2>2. /\ RulesRestored
          /\ os # "android" =>
                /\ {r \in routes : r.dev = "phys" /\ r.dst # "self"} = Physical({"v4", "v6"})
                /\ ~\E r \in routes : r.dev = "tun" /\ r.dst \in {"all", "excl"}
          /\ os = "android" /\ RoutesPreferred => ~\E r \in routes : r.dev = "tun"
          /\ starts \notin wfp /\ starts \notin callbacks
      BY DEF TeardownRestores
    <2>3. os # "android" =>
              {r \in routes' : r.dev = "phys" /\ r.dst # "self"} = Physical({"v4", "v6"})
      BY <2>1, <2>2
    <2>4. RulesRestored'
      BY <2>1, <2>2 DEF RulesRestored
    <2>5. RoutesPreferred' = RoutesPreferred
      BY <2>1 DEF RoutesPreferred
    <2> QED BY <2>1, <2>2, <2>3, <2>4, <2>5 DEF TeardownRestores
  <1>5. CASE \/ NewStack \/ CreateDevice \/ StartFails \/ AddRoutes \/ SetupStep \/ UserStack
             \/ Listen \/ RunReturns \/ Close \/ Crash
    <2>1. phase' # "torn_down"
      BY <1>5 DEF NewStack, CreateDevice, StartFails, AddRoutes, SetupStep, UserStack, Listen,
                  RunReturns, Close, Crash
    <2> QED BY <2>1 DEF TeardownRestores
  <1> QED BY <1>3, <1>4, <1>5 DEF RunNext

\* Together they are inductive.
LEMMA RunInvariant ==
    ASSUME PrioritiesFree
    PROVE  (RunInit => RunInv) /\ (RunInv /\ [RunNext]_runVars => RunInv')
  <1>1. RunInit => RunInv
    <2> SUFFICES ASSUME RunInit PROVE RunInv
      OBVIOUS
    <2>1. RunTypeOK /\ BoundOutside /\ SetupDone /\ TeardownRestores
      BY DEF RunInit, RunTypeOK, BoundOutside, SetupDone, TeardownRestores
    <2>2. routes = Physical({"v4", "v6"}) /\ wfp = {} /\ rules = SystemRules
          /\ recorded = <<>> /\ phase = "ended"
      BY DEF RunInit
    <2>3. RoutesInv
      <3>1. AndroidRoutesInv
        BY <2>2 DEF AndroidRoutesInv
      <3> QED BY <2>2, <3>1 DEF RoutesInv, Physical, Route_
    <2>4. NoRouteYet
      BY <2>2, PhysicalOnly DEF NoRouteYet
    <2>5. LinuxRulesInv /\ AndroidRulesInv
      BY <2>2, SystemRulesAre DEF LinuxRulesInv, AndroidRulesInv
    <2>6. LinuxRecordedInv /\ AndroidRecordedInv
      BY <2>2, EmptySeq DEF LinuxRecordedInv, AndroidRecordedInv
    <2>7. MarksInv
      <3>1. abandoned = 0 /\ \A r \in rules : r.sel # "in_mark"
        BY <2>2, SystemRulesAre DEF RunInit
      <3> QED BY <3>1, NoMarks DEF MarksInv
    <2> QED BY <2>1, <2>2, <2>3, <2>4, <2>5, <2>6, <2>7 DEF RunInv, RulesInv
  <1>2. RunInv /\ [RunNext]_runVars => RunInv'
    <2> SUFFICES ASSUME RunInv, [RunNext]_runVars PROVE RunInv'
      OBVIOUS
    <2>1. RouteState /\ SetupDone /\ RulesInv /\ TeardownRestores /\ RunTypeOK
      BY DEF RunInv, RouteState
    <2>2. RouteState'
      BY <2>1, RouteStep
    <2>3. SetupDone' /\ RulesInv' /\ TeardownRestores'
      BY <2>1, SetupDoneStep, RulesStep, RestoredStep
    <2> QED BY <2>2, <2>3 DEF RunInv, RouteState
  <1> QED BY <1>1, <1>2

(***************************************************************************)
(* platform::teardown, on all four systems, whatever an aborted or killed  *)
(* run of the same configuration left: none of the rules, routes, filters  *)
(* and callbacks of the run is there after a teardown, and all rules of    *)
(* the system are.  The routes of Android are gone if they were added and  *)
(* precede the host's; nothing else depends on which commands failed.  Of  *)
(* fwmark rules at most one per family and earlier run that had no         *)
(* teardown is left.                                                       *)
(***************************************************************************)
THEOREM TeardownLeavesNothing ==
    ASSUME PrioritiesFree PROVE RunSpec => []TeardownRestores
  <1>1. (RunInit => RunInv) /\ (RunInv /\ [RunNext]_runVars => RunInv')
    BY RunInvariant
  <1>2. RunInv => TeardownRestores
    BY DEF RunInv
  <1> QED BY <1>1, <1>2, PTL DEF RunSpec

-----------------------------------------------------------------------------
(* The order of the rules of Linux                                          *)

\* The place of a command among those of its family, by what it selects and does.
Rank(d) ==
    CASE d.sel = "not_mark" -> 0
      [] d.sel = "uid" -> 1
      [] d.sel = "listed" -> 2
      [] d.sel = "any" /\ d.act = "nop" -> 3
      [] d.sel = "any" /\ d.act = "unreachable" -> 4
      [] d.sel = "to_tun" -> 5
      [] d.sel = "any" /\ d.act = "tun_specific" -> 6
      [] d.sel = "not_dns" -> 7
      [] d.sel = "iif_tun" -> 8
      [] d.sel \in {"not_lo", "lo_low"} -> 9
      [] d.sel \in {"lo_unspec", "lo_high"} -> 10
      [] d.sel = "lo_tun" -> 11
      [] OTHER -> 12

\* The commands of a family stand in this order, with places from lo to hi.
Ranked(s, lo, hi) ==
    /\ s \in Seq(CommandSet)
    /\ \A i \in 1 .. Len(s) : Rank(s[i]) \in lo .. hi
    /\ \A i, j \in 1 .. Len(s) : i < j /\ s[i].fam = s[j].fam => Rank(s[i]) < Rank(s[j])

Apart(s, t) ==
    \A i \in 1 .. Len(s), j \in 1 .. Len(t) : s[i].fam = t[j].fam => Rank(s[i]) < Rank(t[j])

LEMMA RankedConcat ==
    ASSUME NEW a \in Nat, NEW b \in Nat, NEW c \in Nat, NEW d \in Nat, a <= c, b <= d,
           NEW s, NEW t, Ranked(s, a, b), Ranked(t, c, d), b < c \/ Apart(s, t)
    PROVE  Ranked(s \o t, a, d)
  <1> DEFINE u == s \o t
  <1>1. s \in Seq(CommandSet) /\ t \in Seq(CommandSet) /\ Len(s) \in Nat /\ Len(t) \in Nat
    BY LenProperties DEF Ranked
  <1>2. /\ u \in Seq(CommandSet) /\ Len(u) = Len(s) + Len(t)
        /\ \A i \in 1 .. Len(s) + Len(t) : u[i] = IF i <= Len(s) THEN s[i] ELSE t[i - Len(s)]
    BY <1>1, ConcatProperties
  <1> HIDE DEF u
  <1>3. ASSUME NEW i \in 1 .. Len(u)
        PROVE  \/ i \in 1 .. Len(s) /\ u[i] = s[i]
               \/ i > Len(s) /\ i - Len(s) \in 1 .. Len(t) /\ u[i] = t[i - Len(s)]
    BY <1>1, <1>2
  <1>4. ASSUME NEW i \in 1 .. Len(s) PROVE Rank(s[i]) \in a .. b
    BY DEF Ranked
  <1>5. ASSUME NEW i \in 1 .. Len(t) PROVE Rank(t[i]) \in c .. d
    BY DEF Ranked
  <1>6. ASSUME NEW i \in 1 .. Len(u) PROVE Rank(u[i]) \in a .. d
    <2>1. CASE i \in 1 .. Len(s) /\ u[i] = s[i]
      BY <1>4, <2>1
    <2>2. CASE i - Len(s) \in 1 .. Len(t) /\ u[i] = t[i - Len(s)]
      BY <1>5, <2>2
    <2> QED BY <1>3, <2>1, <2>2
  <1>7. Apart(s, t)
    <2>1. ASSUME b < c, NEW i \in 1 .. Len(s), NEW j \in 1 .. Len(t)
          PROVE  Rank(s[i]) < Rank(t[j])
      <3>1. Rank(s[i]) \in a .. b /\ Rank(t[j]) \in c .. d
        BY <1>4, <1>5
      <3> QED BY <2>1, <3>1
    <2> QED BY <2>1 DEF Apart
  <1>8. ASSUME NEW i \in 1 .. Len(u), NEW j \in 1 .. Len(u), i < j, u[i].fam = u[j].fam
        PROVE  Rank(u[i]) < Rank(u[j])
    <2>1. CASE i \in 1 .. Len(s) /\ u[i] = s[i] /\ j \in 1 .. Len(s) /\ u[j] = s[j]
      BY <1>8, <2>1 DEF Ranked
    <2>2. CASE /\ i \in 1 .. Len(s) /\ u[i] = s[i]
               /\ j - Len(s) \in 1 .. Len(t) /\ u[j] = t[j - Len(s)]
      BY <1>7, <1>8, <2>2 DEF Apart
    <2>3. CASE /\ i - Len(s) \in 1 .. Len(t) /\ u[i] = t[i - Len(s)]
               /\ j - Len(s) \in 1 .. Len(t) /\ u[j] = t[j - Len(s)]
      <3>1. i - Len(s) < j - Len(s)
        BY <1>1, <1>8
      <3> QED BY <1>8, <2>3, <3>1 DEF Ranked
    <2>4. \/ i \in 1 .. Len(s) /\ u[i] = s[i]
          \/ i > Len(s) /\ i - Len(s) \in 1 .. Len(t) /\ u[i] = t[i - Len(s)]
      BY <1>3
    <2>5. \/ j \in 1 .. Len(s) /\ u[j] = s[j]
          \/ j > Len(s) /\ j - Len(s) \in 1 .. Len(t) /\ u[j] = t[j - Len(s)]
      BY <1>3
    <2>6. ~(i > Len(s) /\ j \in 1 .. Len(s))
      BY <1>1, <1>8
    <2> QED BY <2>1, <2>2, <2>3, <2>4, <2>5, <2>6
  <1> QED BY <1>2, <1>6, <1>8 DEF Ranked, u

OfFamily(s, f) == \A i \in 1 .. Len(s) : s[i].fam = f

\* Both families, each in order.
LEMMA RankedBoth ==
    ASSUME NEW a \in Nat, NEW b \in Nat, NEW s, NEW t, NEW p, NEW q,
           Ranked(s, a, b), Ranked(t, a, b), OfFamily(s, "v4"), OfFamily(t, "v6")
    PROVE  Ranked(If(p, s) \o If(q, t), a, b)
  <1>1. Ranked(<<>>, a, b) /\ OfFamily(<<>>, "v4") /\ OfFamily(<<>>, "v6")
    BY DEF Ranked, OfFamily
  <1>2. /\ Ranked(If(p, s), a, b) /\ OfFamily(If(p, s), "v4")
        /\ Ranked(If(q, t), a, b) /\ OfFamily(If(q, t), "v6")
    BY <1>1 DEF If
  <1>3. Apart(If(p, s), If(q, t))
    BY <1>2 DEF OfFamily, Apart
  <1> QED BY <1>2, <1>3, RankedConcat

LEMMA SingleRanked ==
    ASSUME NEW d \in CommandSet, NEW k \in Nat, Rank(d) = k
    PROVE  Ranked(<<d>>, k, k) /\ OfFamily(<<d>>, d.fam)
  BY DEF Ranked, OfFamily

LEMMA GroupsAreRanked ==
    ASSUME NEW c \in Config, NEW f \in {"v4", "v6"}
    PROVE  /\ Ranked(MarkRules(c, f), 0, 0) /\ OfFamily(MarkRules(c, f), f)
           /\ Ranked(UidRules(c, f), 1, 1) /\ OfFamily(UidRules(c, f), f)
           /\ Ranked(InterfaceRules(c, f), 2, 3) /\ OfFamily(InterfaceRules(c, f), f)
           /\ Ranked(StrictRules(c, f), 4, 4) /\ OfFamily(StrictRules(c, f), f)
           /\ Ranked(TunPrefixRules(c, f), 5, 5) /\ OfFamily(TunPrefixRules(c, f), f)
           /\ Ranked(SuppressRules(c, f), 6, 6) /\ OfFamily(SuppressRules(c, f), f)
           /\ Ranked(DnsRules(c, f), 7, 7) /\ OfFamily(DnsRules(c, f), f)
           /\ Ranked(CaptureRules(c, f), 8, 12) /\ OfFamily(CaptureRules(c, f), f)
  <1> DEFINE D(sel, act) == Command(f, sel, act)
  <1>0. \A a, b \in Nat : Ranked(<<>>, a, b) /\ OfFamily(<<>>, f)
    BY DEF Ranked, OfFamily
  <1>1. /\ D("not_mark", "tun") \in CommandSet /\ D("uid", "nop") \in CommandSet
        /\ D("any", "unreachable") \in CommandSet /\ D("to_tun", "tun") \in CommandSet
        /\ D("any", "tun_specific") \in CommandSet /\ D("not_dns", "main_specific") \in CommandSet
        /\ D("listed", "tun") \in CommandSet /\ D("listed", "nop") \in CommandSet
        /\ D("any", "nop") \in CommandSet
    BY DEF Command, CommandSet
  <1>2. /\ Rank(D("not_mark", "tun")) = 0 /\ Rank(D("uid", "nop")) = 1
        /\ Rank(D("any", "unreachable")) = 4 /\ Rank(D("to_tun", "tun")) = 5
        /\ Rank(D("any", "tun_specific")) = 6 /\ Rank(D("not_dns", "main_specific")) = 7
        /\ Rank(D("listed", "tun")) = 2 /\ Rank(D("listed", "nop")) = 2
        /\ Rank(D("any", "nop")) = 3
    BY DEF Command, Rank
  <1>3. \A sel, act : D(sel, act).fam = f
    BY DEF Command
  <1> HIDE DEF D
  <1>4. /\ Ranked(<<D("not_mark", "tun")>>, 0, 0) /\ OfFamily(<<D("not_mark", "tun")>>, f)
        /\ Ranked(<<D("uid", "nop")>>, 1, 1) /\ OfFamily(<<D("uid", "nop")>>, f)
        /\ Ranked(<<D("any", "unreachable")>>, 4, 4) /\ OfFamily(<<D("any", "unreachable")>>, f)
        /\ Ranked(<<D("to_tun", "tun")>>, 5, 5) /\ OfFamily(<<D("to_tun", "tun")>>, f)
        /\ Ranked(<<D("any", "tun_specific")>>, 6, 6) /\ OfFamily(<<D("any", "tun_specific")>>, f)
        /\ Ranked(<<D("not_dns", "main_specific")>>, 7, 7)
        /\ OfFamily(<<D("not_dns", "main_specific")>>, f)
    BY <1>1, <1>2, <1>3, SingleRanked
  <1>5. Ranked(MarkRules(c, f), 0, 0) /\ OfFamily(MarkRules(c, f), f)
    BY <1>0, <1>4 DEF MarkRules, If, D
  <1>6. Ranked(UidRules(c, f), 1, 1) /\ OfFamily(UidRules(c, f), f)
    BY <1>0, <1>4 DEF UidRules, If, D
  <1>7. Ranked(StrictRules(c, f), 4, 4) /\ OfFamily(StrictRules(c, f), f)
    BY <1>0, <1>4 DEF StrictRules, If, D
  <1>8. /\ Ranked(TunPrefixRules(c, f), 5, 5) /\ OfFamily(TunPrefixRules(c, f), f)
        /\ Ranked(SuppressRules(c, f), 6, 6) /\ OfFamily(SuppressRules(c, f), f)
        /\ Ranked(DnsRules(c, f), 7, 7) /\ OfFamily(DnsRules(c, f), f)
    BY <1>4 DEF TunPrefixRules, SuppressRules, DnsRules, D
  <1>9. Ranked(InterfaceRules(c, f), 2, 3) /\ OfFamily(InterfaceRules(c, f), f)
    <2>1. InterfaceRules(c, f) \in
            {<<D("listed", "tun"), D("any", "nop")>>, <<D("listed", "nop")>>, <<>>}
      <3>1. InterfaceRules(c, f) =
              If(c.ifaces = "include", <<D("listed", "tun"), D("any", "nop")>>)
              \o If(c.ifaces = "exclude", <<D("listed", "nop")>>)
        BY DEF InterfaceRules, D
      <3> DEFINE x == <<D("listed", "tun"), D("any", "nop")>>
                 y == <<D("listed", "nop")>>
      <3>2. x \in Seq(CommandSet) /\ y \in Seq(CommandSet) /\ <<>> \in Seq(CommandSet)
        BY <1>1
      <3> HIDE DEF x, y
      <3>3. x \o <<>> = x /\ <<>> \o y = y /\ <<>> \o <<>> = <<>>
        BY <3>2, ConcatEmptySeq
      <3> QED BY <3>1, <3>3 DEF If, x, y
    <2>2. /\ Ranked(<<D("listed", "tun"), D("any", "nop")>>, 2, 3)
          /\ Ranked(<<D("listed", "nop")>>, 2, 3)
      BY <1>1, <1>2 DEF Ranked
    <2>3. /\ OfFamily(<<D("listed", "tun"), D("any", "nop")>>, f)
          /\ OfFamily(<<D("listed", "nop")>>, f)
      BY <1>3 DEF OfFamily
    <2> QED BY <1>0, <2>1, <2>2, <2>3
  <1>10. Ranked(CaptureRules(c, f), 8, 12) /\ OfFamily(CaptureRules(c, f), f)
    <2>1. CASE f = "v4"
      <3>1. OfFamily(CaptureRules(c, f), f)
        BY <2>1 DEF CaptureRules, OfFamily, Command
      <3>2. CaptureRules(c, f) \in Seq(CommandSet)
        BY <2>1 DEF CaptureRules, Command, CommandSet
      <3>3. /\ Len(CaptureRules(c, f)) = 4
            /\ Rank(CaptureRules(c, f)[1]) = 8 /\ Rank(CaptureRules(c, f)[2]) = 9
            /\ Rank(CaptureRules(c, f)[3]) = 10 /\ Rank(CaptureRules(c, f)[4]) = 11
        BY <2>1 DEF CaptureRules, Command, Rank
      <3> QED BY <3>1, <3>2, <3>3 DEF Ranked
    <2>2. CASE f = "v6"
      <3>1. OfFamily(CaptureRules(c, f), f)
        BY <2>2 DEF CaptureRules, OfFamily, Command
      <3>2. CaptureRules(c, f) \in Seq(CommandSet)
        BY <2>2 DEF CaptureRules, Command, CommandSet
      <3>3. /\ Len(CaptureRules(c, f)) = 5
            /\ Rank(CaptureRules(c, f)[1]) = 8 /\ Rank(CaptureRules(c, f)[2]) = 9
            /\ Rank(CaptureRules(c, f)[3]) = 10 /\ Rank(CaptureRules(c, f)[4]) = 11
            /\ Rank(CaptureRules(c, f)[5]) = 12
        BY <2>2 DEF CaptureRules, Command, Rank
      <3> QED BY <3>1, <3>2, <3>3 DEF Ranked
    <2> QED BY <2>1, <2>2
  <1> QED BY <1>5, <1>6, <1>7, <1>8, <1>9, <1>10

LEMMA LinuxCommandsRanked ==
    ASSUME NEW c \in Config PROVE Ranked(LinuxCommands(c), 0, 12)
  <1> DEFINE B(s, t) == If("v4" \in c.fams, s) \o If("v6" \in c.fams, t)
  <1>1. /\ Both(c, MarkRules) = B(MarkRules(c, "v4"), MarkRules(c, "v6"))
        /\ Both(c, UidRules) = B(UidRules(c, "v4"), UidRules(c, "v6"))
        /\ Both(c, InterfaceRules) = B(InterfaceRules(c, "v4"), InterfaceRules(c, "v6"))
        /\ Both(c, TunPrefixRules) = B(TunPrefixRules(c, "v4"), TunPrefixRules(c, "v6"))
        /\ Both(c, SuppressRules) = B(SuppressRules(c, "v4"), SuppressRules(c, "v6"))
        /\ Both(c, DnsRules) = B(DnsRules(c, "v4"), DnsRules(c, "v6"))
        /\ Both(c, CaptureRules) = B(CaptureRules(c, "v4"), CaptureRules(c, "v6"))
    BY DEF Both
  <1>2. ASSUME NEW a \in Nat, NEW b \in Nat, NEW s, NEW t,
               Ranked(s, a, b), Ranked(t, a, b), OfFamily(s, "v4"), OfFamily(t, "v6")
        PROVE  Ranked(B(s, t), a, b)
    BY <1>2, RankedBoth
  <1> HIDE DEF B
  <1> DEFINE mark == Both(c, MarkRules)
             uid == Both(c, UidRules)
             iface == Both(c, InterfaceRules)
             strict == StrictRules(c, "v4") \o StrictRules(c, "v6")
             prefix == Both(c, TunPrefixRules)
             suppress == Both(c, SuppressRules)
             dns == Both(c, DnsRules)
             capture == Both(c, CaptureRules)
  <1>3. /\ Ranked(mark, 0, 0) /\ Ranked(uid, 1, 1)
        /\ Ranked(iface, 2, 3) /\ Ranked(prefix, 5, 5)
        /\ Ranked(suppress, 6, 6) /\ Ranked(dns, 7, 7)
        /\ Ranked(capture, 8, 12)
    BY <1>1, <1>2, GroupsAreRanked
  <1>4. Ranked(StrictRules(c, "v4") \o StrictRules(c, "v6"), 4, 4)
    <2>1. If(TRUE, StrictRules(c, "v4")) = StrictRules(c, "v4")
          /\ If(TRUE, StrictRules(c, "v6")) = StrictRules(c, "v6")
      BY DEF If
    <2> QED BY <2>1, GroupsAreRanked, RankedBoth
  <1>5. LinuxCommands(c) = mark \o uid \o iface \o StrictRules(c, "v4") \o StrictRules(c, "v6")
                            \o prefix \o suppress \o dns \o capture
    BY DEF LinuxCommands
  <1>6. /\ mark \in Seq(CommandSet) /\ uid \in Seq(CommandSet) /\ iface \in Seq(CommandSet)
        /\ StrictRules(c, "v4") \in Seq(CommandSet) /\ StrictRules(c, "v6") \in Seq(CommandSet)
    BY <1>3, GroupsAreRanked DEF Ranked
  <1> DEFINE front == mark \o uid \o iface
  <1> HIDE DEF mark, uid, iface, strict, prefix, suppress, dns, capture
  <1>7. Ranked(front, 0, 3)
    <2>1. Ranked(mark \o uid, 0, 1)
      BY <1>3, RankedConcat
    <2> HIDE DEF Ranked
    <2> QED BY <1>3, <2>1, RankedConcat
  <1>8. front \o StrictRules(c, "v4") \o StrictRules(c, "v6") = front \o strict
    <2>1. front \in Seq(CommandSet)
      BY <1>7 DEF Ranked
    <2> HIDE DEF front
    <2> DEFINE a == StrictRules(c, "v4")
               b == StrictRules(c, "v6")
    <2>2. a \in Seq(CommandSet) /\ b \in Seq(CommandSet) /\ strict = a \o b
      BY <1>6 DEF strict
    <2> HIDE DEF a, b, strict
    <2>3. (front \o a) \o b = front \o (a \o b)
      BY <2>1, <2>2, ConcatAssociative
    <2> QED BY <2>2, <2>3 DEF a, b
  <1> HIDE DEF front
  <1>9. Ranked(front \o strict, 0, 4)
    BY <1>4, <1>7, RankedConcat DEF strict
  <1>10. Ranked(front \o strict \o prefix, 0, 5)
    BY <1>3, <1>9, RankedConcat
  <1>11. Ranked(front \o strict \o prefix \o suppress, 0, 6)
    BY <1>3, <1>10, RankedConcat
  <1>12. Ranked(front \o strict \o prefix \o suppress \o dns, 0, 7)
    BY <1>3, <1>11, RankedConcat
  <1>13. Ranked(front \o strict \o prefix \o suppress \o dns \o capture, 0, 12)
    BY <1>3, <1>12, RankedConcat
  <1> QED BY <1>5, <1>8, <1>13 DEF front

\* The commands for a family that has an address, and for one that has none.
CommandsOf(c, f) ==
    {Command(f, "to_tun", "tun"), Command(f, "any", "tun_specific"),
     Command(f, "not_dns", "main_specific"), Command(f, "iif_tun", "nop"),
     Command(f, "lo_tun", "tun")}
      \cup (IF c.mark # "none" THEN {Command(f, "not_mark", "tun")} ELSE {})
      \cup (IF c.uids THEN {Command(f, "uid", "nop")} ELSE {})
      \cup (IF c.ifaces = "include" THEN {Command(f, "listed", "tun"), Command(f, "any", "nop")}
            ELSE IF c.ifaces = "exclude" THEN {Command(f, "listed", "nop")} ELSE {})
      \cup (IF f = "v4" THEN {Command(f, "not_lo", "tun"), Command(f, "lo_unspec", "tun")}
            ELSE {Command(f, "lo_low", "nop"), Command(f, "lo_high", "nop"),
                  Command(f, "any", "tun")})

CommandsWithout(c, f) ==
    IF c.strict /\ f \notin c.fams THEN {Command(f, "any", "unreachable")} ELSE {}

LEMMA GroupElements ==
    ASSUME NEW c, NEW f \in {"v4", "v6"}
    PROVE  /\ Elements(MarkRules(c, f)) \cup Elements(UidRules(c, f))
                \cup Elements(InterfaceRules(c, f)) \cup Elements(TunPrefixRules(c, f))
                \cup Elements(SuppressRules(c, f)) \cup Elements(DnsRules(c, f))
                \cup Elements(CaptureRules(c, f)) = CommandsOf(c, f)
           /\ Elements(StrictRules(c, f)) = CommandsWithout(c, f)
  <1> DEFINE D(sel, act) == Command(f, sel, act)
  <1>1. \A d : Elements(<<d>>) = {d}
    BY DEF Elements
  <1>2. Elements(<<>>) = {}
    BY DEF Elements
  <1>3. Elements(MarkRules(c, f)) = IF c.mark # "none" THEN {D("not_mark", "tun")} ELSE {}
    BY <1>1, <1>2 DEF MarkRules, If
  <1>4. Elements(UidRules(c, f)) = IF c.uids THEN {D("uid", "nop")} ELSE {}
    BY <1>1, <1>2 DEF UidRules, If
  <1>5. Elements(InterfaceRules(c, f)) =
            IF c.ifaces = "include" THEN {D("listed", "tun"), D("any", "nop")}
            ELSE IF c.ifaces = "exclude" THEN {D("listed", "nop")} ELSE {}
    <2> DEFINE x == <<D("listed", "tun"), D("any", "nop")>>
               y == <<D("listed", "nop")>>
    <2>1. x \in Seq(CommandSet) /\ y \in Seq(CommandSet) /\ <<>> \in Seq(CommandSet)
      BY DEF Command, CommandSet
    <2>2. Elements(x) = {D("listed", "tun"), D("any", "nop")} /\ Elements(y) = {D("listed", "nop")}
      <3>1. Elements(y) = {D("listed", "nop")}
        BY <1>1
      <3>2. \A a, b : Elements(<<a, b>>) = {a, b}
        BY DEF Elements
      <3> QED BY <3>1, <3>2
    <2>3. InterfaceRules(c, f) = If(c.ifaces = "include", x) \o If(c.ifaces = "exclude", y)
      BY DEF InterfaceRules
    <2> HIDE DEF x, y, D
    <2>4. /\ If(c.ifaces = "include", x) \in Seq(CommandSet)
          /\ If(c.ifaces = "exclude", y) \in Seq(CommandSet)
      BY <2>1, IfSeq
    <2>5. Elements(InterfaceRules(c, f)) =
            Elements(If(c.ifaces = "include", x)) \cup Elements(If(c.ifaces = "exclude", y))
      BY <2>3, <2>4, ConcatElements
    <2>6. Elements(If(c.ifaces = "include", x)) =
            IF c.ifaces = "include" THEN {D("listed", "tun"), D("any", "nop")} ELSE {}
      BY <1>2, <2>2 DEF If
    <2>7. Elements(If(c.ifaces = "exclude", y)) =
            IF c.ifaces = "exclude" THEN {D("listed", "nop")} ELSE {}
      BY <1>2, <2>2 DEF If
    <2>8. CASE c.ifaces = "include"
      <3>1. c.ifaces # "exclude"
        BY <2>8
      <3> QED BY <2>5, <2>6, <2>7, <2>8, <3>1
    <2>9. CASE c.ifaces # "include"
      BY <2>5, <2>6, <2>7, <2>9
    <2> QED BY <2>8, <2>9
  <1>6. /\ Elements(TunPrefixRules(c, f)) = {D("to_tun", "tun")}
        /\ Elements(SuppressRules(c, f)) = {D("any", "tun_specific")}
        /\ Elements(DnsRules(c, f)) = {D("not_dns", "main_specific")}
    BY <1>1 DEF TunPrefixRules, SuppressRules, DnsRules
  <1>7. Elements(CaptureRules(c, f)) =
            {D("iif_tun", "nop"), D("lo_tun", "tun")}
            \cup (IF f = "v4" THEN {D("not_lo", "tun"), D("lo_unspec", "tun")}
                  ELSE {D("lo_low", "nop"), D("lo_high", "nop"), D("any", "tun")})
    <2> HIDE DEF D
    <2>1. \A a, b, x, y : Elements(<<a, b, x, y>>) = {a, b, x, y}
      BY DEF Elements
    <2>2. \A a, b, x, y, z : Elements(<<a, b, x, y, z>>) = {a, b, x, y, z}
      BY DEF Elements
    <2>3. CASE f = "v4"
      <3>1. CaptureRules(c, f) =
              <<D("iif_tun", "nop"), D("not_lo", "tun"), D("lo_unspec", "tun"), D("lo_tun", "tun")>>
        BY <2>3 DEF CaptureRules, D
      <3>2. Elements(CaptureRules(c, f)) =
              {D("iif_tun", "nop"), D("not_lo", "tun"), D("lo_unspec", "tun"), D("lo_tun", "tun")}
        BY <2>1, <3>1
      <3> QED BY <2>3, <3>2
    <2>4. CASE f # "v4"
      <3>1. CaptureRules(c, f) =
              <<D("iif_tun", "nop"), D("lo_low", "nop"), D("lo_high", "nop"), D("lo_tun", "tun"),
                D("any", "tun")>>
        BY <2>4 DEF CaptureRules, D
      <3>2. Elements(CaptureRules(c, f)) =
              {D("iif_tun", "nop"), D("lo_low", "nop"), D("lo_high", "nop"), D("lo_tun", "tun"),
                D("any", "tun")}
        BY <2>2, <3>1
      <3> QED BY <2>4, <3>2
    <2> QED BY <2>3, <2>4
  <1>8. Elements(StrictRules(c, f)) = CommandsWithout(c, f)
    BY <1>1, <1>2 DEF StrictRules, CommandsWithout, If
  <1>9. CommandsOf(c, f) =
            {D("to_tun", "tun"), D("any", "tun_specific"), D("not_dns", "main_specific"),
             D("iif_tun", "nop"), D("lo_tun", "tun")}
              \cup Elements(MarkRules(c, f)) \cup Elements(UidRules(c, f))
              \cup Elements(InterfaceRules(c, f))
              \cup (IF f = "v4" THEN {D("not_lo", "tun"), D("lo_unspec", "tun")}
                    ELSE {D("lo_low", "nop"), D("lo_high", "nop"), D("any", "tun")})
    BY <1>3, <1>4, <1>5 DEF CommandsOf
  <1> HIDE DEF D
  <1> QED BY <1>6, <1>7, <1>8, <1>9

LEMMA LinuxCommandsElements ==
    ASSUME NEW c \in Config
    PROVE  Elements(LinuxCommands(c)) =
              (IF "v4" \in c.fams THEN CommandsOf(c, "v4") ELSE {})
              \cup (IF "v6" \in c.fams THEN CommandsOf(c, "v6") ELSE {})
              \cup CommandsWithout(c, "v4") \cup CommandsWithout(c, "v6")
  <1> DEFINE B(s, t) == If("v4" \in c.fams, s) \o If("v6" \in c.fams, t)
             E(s, t) == (IF "v4" \in c.fams THEN Elements(s) ELSE {})
                          \cup (IF "v6" \in c.fams THEN Elements(t) ELSE {})
  <1>1. /\ Both(c, MarkRules) = B(MarkRules(c, "v4"), MarkRules(c, "v6"))
        /\ Both(c, UidRules) = B(UidRules(c, "v4"), UidRules(c, "v6"))
        /\ Both(c, InterfaceRules) = B(InterfaceRules(c, "v4"), InterfaceRules(c, "v6"))
        /\ Both(c, TunPrefixRules) = B(TunPrefixRules(c, "v4"), TunPrefixRules(c, "v6"))
        /\ Both(c, SuppressRules) = B(SuppressRules(c, "v4"), SuppressRules(c, "v6"))
        /\ Both(c, DnsRules) = B(DnsRules(c, "v4"), DnsRules(c, "v6"))
        /\ Both(c, CaptureRules) = B(CaptureRules(c, "v4"), CaptureRules(c, "v6"))
    BY DEF Both
  <1>2. ASSUME NEW s \in Seq(CommandSet), NEW t \in Seq(CommandSet)
        PROVE  B(s, t) \in Seq(CommandSet) /\ Elements(B(s, t)) = E(s, t)
    <2>1. If("v4" \in c.fams, s) \in Seq(CommandSet) /\ If("v6" \in c.fams, t) \in Seq(CommandSet)
      BY IfSeq
    <2>2. \A b, x : Elements(If(b, x)) = IF b THEN Elements(x) ELSE {}
      BY DEF If, Elements
    <2> DEFINE x == If("v4" \in c.fams, s)
               y == If("v6" \in c.fams, t)
    <2>3. x \in Seq(CommandSet) /\ y \in Seq(CommandSet)
      BY <2>1
    <2>4. /\ Elements(x) = IF "v4" \in c.fams THEN Elements(s) ELSE {}
          /\ Elements(y) = IF "v6" \in c.fams THEN Elements(t) ELSE {}
      BY <2>2
    <2> HIDE DEF x, y
    <2>5. x \o y \in Seq(CommandSet) /\ Elements(x \o y) = Elements(x) \cup Elements(y)
      BY <2>3, ConcatElements
    <2> QED BY <2>4, <2>5 DEF x, y
  <1> HIDE DEF B, E
  <1>3. ASSUME NEW f \in {"v4", "v6"}
        PROVE  /\ MarkRules(c, f) \in Seq(CommandSet) /\ UidRules(c, f) \in Seq(CommandSet)
               /\ InterfaceRules(c, f) \in Seq(CommandSet)
               /\ StrictRules(c, f) \in Seq(CommandSet)
               /\ TunPrefixRules(c, f) \in Seq(CommandSet)
               /\ SuppressRules(c, f) \in Seq(CommandSet)
               /\ DnsRules(c, f) \in Seq(CommandSet) /\ CaptureRules(c, f) \in Seq(CommandSet)
    BY GroupsAreCommands DEF Commands
  <1> DEFINE mark == Both(c, MarkRules)
             uid == Both(c, UidRules)
             iface == Both(c, InterfaceRules)
             strict4 == StrictRules(c, "v4")
             strict6 == StrictRules(c, "v6")
             prefix == Both(c, TunPrefixRules)
             suppress == Both(c, SuppressRules)
             dns == Both(c, DnsRules)
             capture == Both(c, CaptureRules)
  <1>4. /\ mark \in Seq(CommandSet) /\ Elements(mark) = E(MarkRules(c, "v4"), MarkRules(c, "v6"))
        /\ uid \in Seq(CommandSet) /\ Elements(uid) = E(UidRules(c, "v4"), UidRules(c, "v6"))
        /\ iface \in Seq(CommandSet)
        /\ Elements(iface) = E(InterfaceRules(c, "v4"), InterfaceRules(c, "v6"))
        /\ prefix \in Seq(CommandSet)
        /\ Elements(prefix) = E(TunPrefixRules(c, "v4"), TunPrefixRules(c, "v6"))
        /\ suppress \in Seq(CommandSet)
        /\ Elements(suppress) = E(SuppressRules(c, "v4"), SuppressRules(c, "v6"))
        /\ dns \in Seq(CommandSet) /\ Elements(dns) = E(DnsRules(c, "v4"), DnsRules(c, "v6"))
        /\ capture \in Seq(CommandSet)
        /\ Elements(capture) = E(CaptureRules(c, "v4"), CaptureRules(c, "v6"))
    BY <1>1, <1>2, <1>3
  <1>5. strict4 \in Seq(CommandSet) /\ strict6 \in Seq(CommandSet)
    BY <1>3
  <1>6. LinuxCommands(c) =
          mark \o uid \o iface \o strict4 \o strict6 \o prefix \o suppress \o dns \o capture
    BY DEF LinuxCommands
  <1> HIDE DEF mark, uid, iface, strict4, strict6, prefix, suppress, dns, capture
  <1>7. Elements(LinuxCommands(c)) =
          Elements(mark) \cup Elements(uid) \cup Elements(iface) \cup Elements(strict4)
            \cup Elements(strict6) \cup Elements(prefix) \cup Elements(suppress)
            \cup Elements(dns) \cup Elements(capture)
    <2>1. \A s, t \in Seq(CommandSet) :
            s \o t \in Seq(CommandSet) /\ Elements(s \o t) = Elements(s) \cup Elements(t)
      BY ConcatElements
    <2> DEFINE s1 == mark \o uid
               s2 == s1 \o iface
               s3 == s2 \o strict4
               s4 == s3 \o strict6
               s5 == s4 \o prefix
               s6 == s5 \o suppress
               s7 == s6 \o dns
               s8 == s7 \o capture
    <2>2. s1 \in Seq(CommandSet) /\ Elements(s1) = Elements(mark) \cup Elements(uid)
      BY <1>4, <2>1
    <2>3. s2 \in Seq(CommandSet) /\ Elements(s2) = Elements(s1) \cup Elements(iface)
      BY <1>4, <1>5, <2>1, <2>2
    <2>4. s3 \in Seq(CommandSet) /\ Elements(s3) = Elements(s2) \cup Elements(strict4)
      BY <1>4, <1>5, <2>1, <2>3
    <2>5. s4 \in Seq(CommandSet) /\ Elements(s4) = Elements(s3) \cup Elements(strict6)
      BY <1>4, <1>5, <2>1, <2>4
    <2>6. s5 \in Seq(CommandSet) /\ Elements(s5) = Elements(s4) \cup Elements(prefix)
      BY <1>4, <1>5, <2>1, <2>5
    <2>7. s6 \in Seq(CommandSet) /\ Elements(s6) = Elements(s5) \cup Elements(suppress)
      BY <1>4, <1>5, <2>1, <2>6
    <2>8. s7 \in Seq(CommandSet) /\ Elements(s7) = Elements(s6) \cup Elements(dns)
      BY <1>4, <1>5, <2>1, <2>7
    <2>9. s8 \in Seq(CommandSet) /\ Elements(s8) = Elements(s7) \cup Elements(capture)
      BY <1>4, <1>5, <2>1, <2>8
    <2>10. LinuxCommands(c) = s8
      BY <1>6
    <2> HIDE DEF s1, s2, s3, s4, s5, s6, s7, s8
    <2> QED BY <2>2, <2>3, <2>4, <2>5, <2>6, <2>7, <2>8, <2>9, <2>10
  <1>8. /\ CommandsOf(c, "v4") =
             Elements(MarkRules(c, "v4")) \cup Elements(UidRules(c, "v4"))
                \cup Elements(InterfaceRules(c, "v4")) \cup Elements(TunPrefixRules(c, "v4"))
                \cup Elements(SuppressRules(c, "v4")) \cup Elements(DnsRules(c, "v4"))
                \cup Elements(CaptureRules(c, "v4"))
        /\ CommandsOf(c, "v6") =
             Elements(MarkRules(c, "v6")) \cup Elements(UidRules(c, "v6"))
                \cup Elements(InterfaceRules(c, "v6")) \cup Elements(TunPrefixRules(c, "v6"))
                \cup Elements(SuppressRules(c, "v6")) \cup Elements(DnsRules(c, "v6"))
                \cup Elements(CaptureRules(c, "v6"))
        /\ Elements(strict4) = CommandsWithout(c, "v4")
        /\ Elements(strict6) = CommandsWithout(c, "v6")
    BY GroupElements DEF strict4, strict6
  <1>9. Elements(mark) \cup Elements(uid) \cup Elements(iface) \cup Elements(prefix)
          \cup Elements(suppress) \cup Elements(dns) \cup Elements(capture)
        = (IF "v4" \in c.fams THEN CommandsOf(c, "v4") ELSE {})
            \cup (IF "v6" \in c.fams THEN CommandsOf(c, "v6") ELSE {})
    BY <1>4, <1>8 DEF E
  <1> QED BY <1>7, <1>8, <1>9

RuleOf(s, i) == [fam |-> s[i].fam, sel |-> s[i].sel, act |-> s[i].act, prio |-> Prio(s, i)]

LEMMA LinuxRulesAre ==
    ASSUME NEW c \in Config, c.mark # "redirect"
    PROVE  LET S == LinuxSetup(c)
               s == LinuxCommands(c) IN
           {S[i].rule : i \in 1 .. Len(S)}
             = {RuleOf(s, i) : i \in 1 .. Len(s)} \cup {Anchor(f) : f \in c.fams}
  <1> DEFINE s == LinuxCommands(c)
             fams == If("v4" \in c.fams, <<"v4">>) \o If("v6" \in c.fams, <<"v6">>)
             X == [i \in 1 .. Len(s) |->
                      [rule |-> RuleOf(s, i), push |-> If(s[i].sel # "lo_low", <<Prio(s, i)>>)]]
             Y == [i \in 1 .. Len(fams) |-> [rule |-> Anchor(fams[i]), push |-> <<NopPrio>>]]
             S == LinuxSetup(c)
             U == {x : x \in {X[i] : i \in 1 .. Len(s)} \cup {Y[i] : i \in 1 .. Len(fams)}}
  <1>1. S = X \o Y \o <<>>
    BY DEF LinuxSetup, If, RuleOf
  <1>2. Len(s) \in Nat
    BY LinuxCommandsAre, LenProperties DEF Commands
  <1>3. fams \in Seq({"v4", "v6"}) /\ Len(fams) \in Nat /\ Elements(fams) = c.fams
    <2> DEFINE x == If("v4" \in c.fams, <<"v4">>)
               y == If("v6" \in c.fams, <<"v6">>)
    <2>1. x \in Seq({"v4", "v6"}) /\ y \in Seq({"v4", "v6"})
      <3>1. <<"v4">> \in Seq({"v4", "v6"}) /\ <<"v6">> \in Seq({"v4", "v6"})
        BY SingleSeq
      <3> QED BY <3>1, IfSeq
    <2>2. /\ Elements(x) = IF "v4" \in c.fams THEN {"v4"} ELSE {}
          /\ Elements(y) = IF "v6" \in c.fams THEN {"v6"} ELSE {}
      BY DEF Elements, If
    <2>3. c.fams \subseteq {"v4", "v6"}
      BY DEF Config
    <2>4. fams = x \o y
      OBVIOUS
    <2> HIDE DEF x, y, fams
    <2>5. fams \in Seq({"v4", "v6"}) /\ Elements(fams) = Elements(x) \cup Elements(y)
      BY <2>1, <2>4, ConcatElements
    <2> QED BY <2>2, <2>3, <2>5, LenProperties
  <1> HIDE DEF s, fams
  <1>4. X \in [1 .. Len(s) -> U] /\ Y \in [1 .. Len(fams) -> U]
    OBVIOUS
  <1>5. /\ \A i \in 1 .. Len(s) : X[i].rule = RuleOf(s, i)
        /\ \A i \in 1 .. Len(fams) : Y[i].rule = Anchor(fams[i])
    OBVIOUS
  <1> HIDE DEF X, Y, U, S
  <1>6. X \in Seq(U) /\ Y \in Seq(U) /\ <<>> \in Seq(U)
    BY <1>2, <1>3, <1>4, FunctionSeq, EmptySeq
  <1>7. Len(X) = Len(s) /\ Len(Y) = Len(fams)
    <2>1. DOMAIN X = 1 .. Len(X) /\ DOMAIN Y = 1 .. Len(Y) /\ Len(X) \in Nat /\ Len(Y) \in Nat
      BY <1>6, LenProperties
    <2>2. DOMAIN X = 1 .. Len(s) /\ DOMAIN Y = 1 .. Len(fams)
      BY <1>4
    <2> QED BY <1>2, <1>3, <2>1, <2>2
  <1>8. Elements(S) = Elements(X) \cup Elements(Y)
    <2>1. X \o Y \in Seq(U) /\ Elements(X \o Y) = Elements(X) \cup Elements(Y)
      BY <1>6, ConcatElements
    <2> DEFINE XY == X \o Y
    <2>2. XY \in Seq(U) /\ S = XY \o <<>> /\ Elements(XY) = Elements(X) \cup Elements(Y)
      BY <1>1, <2>1
    <2> HIDE DEF XY
    <2>3. XY \o <<>> = XY
      BY <2>2, ConcatEmptySeq
    <2> QED BY <2>2, <2>3
  <1>9. {S[i].rule : i \in 1 .. Len(S)} = {a.rule : a \in Elements(S)}
    BY DEF Elements
  <1>10. {a.rule : a \in Elements(X)} = {RuleOf(s, i) : i \in 1 .. Len(s)}
    BY <1>5, <1>7 DEF Elements
  <1>11. {a.rule : a \in Elements(Y)} = {Anchor(f) : f \in c.fams}
    <2>1. {a.rule : a \in Elements(Y)} = {Anchor(fams[i]) : i \in 1 .. Len(fams)}
      BY <1>5, <1>7 DEF Elements
    <2> QED BY <1>3, <2>1 DEF Elements
  <1>12. {a.rule : a \in Elements(S)}
            = {a.rule : a \in Elements(X)} \cup {a.rule : a \in Elements(Y)}
    BY <1>8
  <1> QED BY <1>9, <1>10, <1>11, <1>12 DEF s, S

\* The rules are those of the system and of set-up, and all of them (the mark of
\* auto_redirect aside).
RulesInPlace(R, c) ==
    /\ SystemRules \subseteq R
    /\ \A i \in 1 .. Len(LinuxSetup(c)) : LinuxSetup(c)[i].rule \in R
    /\ \A r \in R \ SystemRules :
          r.sel = "in_mark" \/ \E i \in 1 .. Len(LinuxSetup(c)) : r = LinuxSetup(c)[i].rule

MainRule(f)  == [fam |-> f, sel |-> "any", act |-> "main", prio |-> 32766]
LocalRule(f) == [fam |-> f, sel |-> "any", act |-> "local", prio |-> 0]

CommandsFor(c, f) == IF f \in c.fams THEN CommandsOf(c, f) ELSE CommandsWithout(c, f)

\* The rules of a family that commands of set-up added.
CommandRules(R, f) ==
    {r \in R : r.fam = f /\ r.sel # "in_mark" /\ r.prio \in PrioBase .. NopPrio - 1}

\* The kernel goes through them in the order of set-up; the system's and the anchor are
\* around them.
InOrderOf(R, c, f) ==
    LET C == CommandRules(R, f) IN
    /\ \A r \in R : r.fam = f =>
          \/ r \in C \/ r.sel = "in_mark" \/ r \in {LocalRule(f), MainRule(f)}
          \/ f \in c.fams /\ r = Anchor(f)
    /\ MainRule(f) \in R /\ (f \in c.fams => Anchor(f) \in R)
    /\ \A r \in C : Command(f, r.sel, r.act) \in CommandsFor(c, f)
    /\ \A d \in CommandsFor(c, f) : \E r \in C : r.sel = d.sel /\ r.act = d.act
    /\ \A q, r \in C : Rank(q) < Rank(r) /\ q.sel # "lo_low" => q.prio < r.prio
    /\ \A q, r \in C : Rank(q) = Rank(r) => q = r

LEMMA RankType == ASSUME NEW d PROVE Rank(d) \in 0 .. 12
  <1>1. CASE d.sel \in {"not_mark", "uid", "listed", "to_tun", "not_dns", "iif_tun", "not_lo",
                        "lo_low", "lo_unspec", "lo_high", "lo_tun"}
    BY <1>1 DEF Rank
  <1>2. CASE d.sel = "any"
    BY <1>2 DEF Rank
  <1>3. CASE d.sel \notin {"not_mark", "uid", "listed", "to_tun", "not_dns", "iif_tun", "not_lo",
                           "lo_low", "lo_unspec", "lo_high", "lo_tun", "any"}
    BY <1>3 DEF Rank
  <1> QED BY <1>1, <1>2, <1>3

\* Rank looks at what a command and its rule have in common.
LEMMA RankOfRule ==
    ASSUME NEW q, NEW r, q.sel = r.sel, q.act = r.act PROVE Rank(q) = Rank(r)
  BY DEF Rank

LEMMA RulesStandInOrder ==
    ASSUME NEW c \in Config, c.mark # "redirect", PrioritiesFree, NEW R, RulesInPlace(R, c),
           NEW f \in {"v4", "v6"}
    PROVE  InOrderOf(R, c, f)
  <1> DEFINE s == LinuxCommands(c)
             C == CommandRules(R, f)
             K == {i \in 1 .. Len(s) : s[i].fam = f}
             A == {RuleOf(s, i) : i \in 1 .. Len(s)} \cup {Anchor(g) : g \in c.fams}
  <1>1. Commands(s) /\ Ranked(s, 0, 12) /\ Len(s) \in Nat /\ PrioBase + Len(s) <= NopPrio
    BY LinuxCommandsAre, LinuxCommandsRanked, LenProperties DEF Commands, PrioritiesFree
  <1>2. /\ SystemRules \subseteq R /\ A \subseteq R
        /\ \A r \in R \ SystemRules : r.sel = "in_mark" \/ r \in A
    <2>1. {LinuxSetup(c)[i].rule : i \in 1 .. Len(LinuxSetup(c))} = A
      BY LinuxRulesAre
    <2> HIDE DEF A
    <2> QED BY <2>1 DEF RulesInPlace
  <1>3. /\ \A r \in SystemRules : r.fam = f => r \in {LocalRule(f), MainRule(f)}
        /\ MainRule(f) \in SystemRules /\ LocalRule(f).prio = 0 /\ MainRule(f).prio = 32766
    BY SystemRulesAre DEF LocalRule, MainRule
  <1>4. /\ NopPrio \in Nat /\ NopPrio < 32766 /\ PrioBase \in Nat /\ PrioBase > 0
        /\ \A g : Anchor(g).fam = g /\ Anchor(g).prio = NopPrio
    BY PolicyAssumption DEF PrioritiesFree, NopPrio, Anchor
  <1>5. ASSUME NEW i \in 1 .. Len(s)
        PROVE  /\ RuleOf(s, i).fam = s[i].fam /\ RuleOf(s, i).sel = s[i].sel
               /\ RuleOf(s, i).act = s[i].act /\ RuleOf(s, i).prio = Prio(s, i)
               /\ RuleOf(s, i).sel # "in_mark" /\ Rank(RuleOf(s, i)) = Rank(s[i])
               /\ Prio(s, i) \in PrioBase .. NopPrio - 1 /\ s[i] \in CommandSet
    <2>1. Prio(s, i) \in PrioBase .. PrioBase + Len(s) - 1
      BY <1>1, PrioCounts
    <2>2. Prio(s, i) \in PrioBase .. NopPrio - 1
      BY <1>1, <1>4, <2>1
    <2>3. s[i] \in CommandSet
      BY <1>1, ElementOfSeq DEF Commands
    <2>4. s[i].sel # "in_mark"
      BY <2>3 DEF CommandSet
    <2>5. /\ RuleOf(s, i).fam = s[i].fam /\ RuleOf(s, i).sel = s[i].sel
          /\ RuleOf(s, i).act = s[i].act /\ RuleOf(s, i).prio = Prio(s, i)
      BY DEF RuleOf
    <2>6. Rank(RuleOf(s, i)) = Rank(s[i])
      BY <2>5, RankOfRule
    <2> QED BY <2>2, <2>3, <2>4, <2>5, <2>6
  <1> HIDE DEF s
  <1>6. ASSUME NEW r \in C PROVE \E i \in K : r = RuleOf(s, i)
    <2>1. r \in R /\ r.fam = f /\ r.sel # "in_mark" /\ r.prio \in PrioBase .. NopPrio - 1
      BY DEF CommandRules
    <2>2. r \notin SystemRules
      BY <1>3, <1>4, <2>1
    <2>3. r \in A
      BY <1>2, <2>1, <2>2
    <2>4. \A g \in c.fams : r # Anchor(g)
      BY <1>4, <2>1
    <2>5. PICK i \in 1 .. Len(s) : r = RuleOf(s, i)
      BY <2>3, <2>4
    <2> QED BY <1>5, <2>1, <2>5
  <1>7. ASSUME NEW i \in K PROVE RuleOf(s, i) \in C
    BY <1>2, <1>5 DEF CommandRules
  <1>8. \A i \in K : s[i] \in CommandsFor(c, f)
    <2>1. ASSUME NEW i \in K PROVE s[i] \in CommandsFor(c, f)
      <3>1. s[i] \in Elements(s) /\ s[i].fam = f
        BY DEF Elements
      <3>2. s[i] \in (IF "v4" \in c.fams THEN CommandsOf(c, "v4") ELSE {})
                       \cup (IF "v6" \in c.fams THEN CommandsOf(c, "v6") ELSE {})
                       \cup CommandsWithout(c, "v4") \cup CommandsWithout(c, "v6")
        BY <3>1, LinuxCommandsElements DEF s
      <3>3. \A g : \A d \in CommandsOf(c, g) : d.fam = g
        BY DEF CommandsOf, Command
      <3>4. \A g : \A d \in CommandsWithout(c, g) : d.fam = g /\ g \notin c.fams
        BY DEF CommandsWithout, Command
      <3> QED BY <3>1, <3>2, <3>3, <3>4 DEF CommandsFor
    <2> QED BY <2>1
  <1>9. ASSUME NEW d \in CommandsFor(c, f) PROVE \E i \in K : s[i] = d
    <2>1. d \in Elements(s)
      BY LinuxCommandsElements DEF CommandsFor, s
    <2>2. PICK i \in 1 .. Len(s) : s[i] = d
      BY <2>1 DEF Elements
    <2>3. d.fam = f
      BY DEF CommandsFor, CommandsOf, CommandsWithout, Command
    <2> QED BY <2>2, <2>3
  <1>10. ASSUME NEW i \in K, NEW j \in K
         PROVE  /\ Rank(s[i]) < Rank(s[j]) /\ s[i].sel # "lo_low" => Prio(s, i) < Prio(s, j)
                /\ Rank(s[i]) = Rank(s[j]) => i = j
    <2>1. i \in 1 .. Len(s) /\ j \in 1 .. Len(s) /\ s[i].fam = s[j].fam
      OBVIOUS
    <2>2. i < j => Rank(s[i]) < Rank(s[j])
      BY <1>1, <2>1 DEF Ranked
    <2>3. j < i => Rank(s[j]) < Rank(s[i])
      BY <1>1, <2>1 DEF Ranked
    <2>4. Rank(s[i]) \in Nat /\ Rank(s[j]) \in Nat /\ i \in Nat /\ j \in Nat
      BY <1>1, <2>1 DEF Ranked
    <2>5. Rank(s[i]) = Rank(s[j]) => i = j
      BY <2>2, <2>3, <2>4
    <2>6. Rank(s[i]) < Rank(s[j]) => i < j
      BY <2>2, <2>3, <2>4
    <2>7. i < j /\ s[i].sel # "lo_low" => Prio(s, i) < Prio(s, j)
      BY <1>1, <2>1, PrioCounts
    <2> QED BY <2>5, <2>6, <2>7
  <1>11. \A r \in R : r.fam = f =>
            \/ r \in C \/ r.sel = "in_mark" \/ r \in {LocalRule(f), MainRule(f)}
            \/ f \in c.fams /\ r = Anchor(f)
    <2> SUFFICES ASSUME NEW r \in R, r.fam = f, r.sel # "in_mark", r \notin SystemRules
                 PROVE  r \in C \/ (f \in c.fams /\ r = Anchor(f))
      BY <1>3
    <2>1. r \in A
      BY <1>2
    <2>2. ASSUME NEW i \in 1 .. Len(s), r = RuleOf(s, i) PROVE r \in C
      BY <1>5, <1>7, <2>2
    <2>3. ASSUME NEW g \in c.fams, r = Anchor(g) PROVE f \in c.fams /\ r = Anchor(f)
      BY <1>4, <2>3
    <2> QED BY <2>1, <2>2, <2>3
  <1>12. MainRule(f) \in R /\ (f \in c.fams => Anchor(f) \in R)
    BY <1>2, <1>3
  <1> HIDE DEF C, K, A
  <1>13. \A r \in C : Command(f, r.sel, r.act) \in CommandsFor(c, f)
    <2>1. ASSUME NEW r \in C PROVE Command(f, r.sel, r.act) \in CommandsFor(c, f)
      <3>1. PICK i \in K : r = RuleOf(s, i)
        BY <1>6
      <3>2. s[i] \in CommandSet /\ s[i].fam = f /\ r.sel = s[i].sel /\ r.act = s[i].act
        BY <1>5, <3>1 DEF K
      <3>3. s[i] = Command(f, r.sel, r.act)
        BY <3>2 DEF CommandSet, Command
      <3> QED BY <1>8, <3>1, <3>3
    <2> QED BY <2>1
  <1>14. \A d \in CommandsFor(c, f) : \E r \in C : r.sel = d.sel /\ r.act = d.act
    <2>1. ASSUME NEW d \in CommandsFor(c, f) PROVE \E r \in C : r.sel = d.sel /\ r.act = d.act
      <3>1. PICK i \in K : s[i] = d
        BY <1>9
      <3>2. RuleOf(s, i) \in C /\ RuleOf(s, i).sel = d.sel /\ RuleOf(s, i).act = d.act
        BY <1>5, <1>7, <3>1 DEF K
      <3> QED BY <3>2
    <2> QED BY <2>1
  <1>15. ASSUME NEW q \in C, NEW r \in C
         PROVE  /\ Rank(q) < Rank(r) /\ q.sel # "lo_low" => q.prio < r.prio
                /\ Rank(q) = Rank(r) => q = r
    <2>1. PICK i \in K, j \in K : q = RuleOf(s, i) /\ r = RuleOf(s, j)
      BY <1>6
    <2>2. /\ q.sel = s[i].sel /\ q.prio = Prio(s, i) /\ Rank(q) = Rank(s[i])
          /\ r.prio = Prio(s, j) /\ Rank(r) = Rank(s[j])
      BY <1>5, <2>1 DEF K
    <2> QED BY <1>10, <2>1, <2>2
  <1> QED BY <1>11, <1>12, <1>13, <1>14, <1>15 DEF InOrderOf, C

\* The rules that apply to a packet, have a route for it, and are not jumped over.
Matching(R, p) == {r \in R : r.fam = p.fam /\ Matches(r, p)}
Deciding(R, c, p) ==
    {r \in Matching(R, p) :
        /\ Hits(c, r, p)
        /\ ~\E g \in Matching(R, p) : g.act = "nop" /\ g.prio < r.prio /\ r.prio < NopPrio}

LEMMA FirstDecides ==
    ASSUME NEW R, NEW c, NEW p, NEW d \in Deciding(R, c, p), d.prio \in Int,
           \A q \in Deciding(R, c, p) : q # d => q.prio \in Int /\ d.prio < q.prio
    PROVE  /\ d.act \in {"tun", "tun_specific"} => Route(R, c, p) = "tun"
           /\ d.act \in {"main", "main_specific"} => Route(R, c, p) = "main"
           /\ d.act = "unreachable" => Route(R, c, p) = "unreachable"
  <1> DEFINE first == CHOOSE r \in Deciding(R, c, p) : \A q \in Deciding(R, c, p) : r.prio <= q.prio
  <1>1. first = d
    <2>1. \A q \in Deciding(R, c, p) : d.prio <= q.prio
      OBVIOUS
    <2>2. first \in Deciding(R, c, p) /\ first.prio <= d.prio
      BY <2>1
    <2> HIDE DEF first
    <2> QED BY <2>2
  <1>2. Route(R, c, p) =
          CASE first.act \in {"tun", "tun_specific"} -> "tun"
            [] first.act \in {"main", "main_specific"} -> "main"
            [] first.act = "unreachable" -> "unreachable"
    BY DEF Route, Deciding, Matching
  <1> HIDE DEF first
  <1> QED BY <1>1, <1>2

\* What a packet meets besides the rules of the commands.
LEMMA OtherRules ==
    ASSUME NEW c, NEW p, NEW R, InOrderOf(R, c, p.fam), PrioritiesFree, NEW r \in Matching(R, p)
    PROVE  \/ r \in CommandRules(R, p.fam) /\ r.prio \in Int /\ r.prio < NopPrio
           \/ r = LocalRule(p.fam) /\ ~Hits(c, r, p) /\ r.act # "nop"
           \/ r = MainRule(p.fam) /\ r.prio \in Int /\ NopPrio < r.prio /\ r.act # "nop"
           \/ /\ p.fam \in c.fams /\ r = Anchor(p.fam) /\ r.prio = NopPrio /\ r.act # "nop"
  <1>1. r \in R /\ r.fam = p.fam /\ r.sel # "in_mark"
    BY DEF Matching, Matches
  <1>2. PrioBase \in Nat /\ NopPrio \in Nat /\ NopPrio < 32766
    BY PolicyAssumption DEF PrioritiesFree, NopPrio
  <1>3. CASE r \in CommandRules(R, p.fam)
    BY <1>2, <1>3 DEF CommandRules
  <1>4. CASE r = LocalRule(p.fam)
    BY <1>4 DEF LocalRule, Hits
  <1>5. CASE r = MainRule(p.fam)
    BY <1>2, <1>5 DEF MainRule
  <1>6. CASE p.fam \in c.fams /\ r = Anchor(p.fam)
    BY <1>6 DEF Anchor
  <1> QED BY <1>1, <1>3, <1>4, <1>5, <1>6 DEF InOrderOf

\* A rule of a command decides when no earlier one does or jumps.
LEMMA CommandDecides ==
    ASSUME NEW c, NEW p, NEW R, InOrderOf(R, c, p.fam), PrioritiesFree,
           NEW d \in CommandRules(R, p.fam), d.sel # "lo_low", Matches(d, p), Hits(c, d, p),
           \A q \in CommandRules(R, p.fam) :
              Rank(q) < Rank(d) => ~Matches(q, p) \/ (q.act # "nop" /\ ~Hits(c, q, p))
    PROVE  /\ d.act \in {"tun", "tun_specific"} => Route(R, c, p) = "tun"
           /\ d.act \in {"main", "main_specific"} => Route(R, c, p) = "main"
           /\ d.act = "unreachable" => Route(R, c, p) = "unreachable"
  <1> DEFINE C == CommandRules(R, p.fam)
  <1>1. d \in Matching(R, p)
    BY DEF Matching, CommandRules
  <1>2. d.prio \in Int /\ d.prio < NopPrio /\ NopPrio \in Nat
    BY PolicyAssumption DEF CommandRules, NopPrio
  <1>3. d.act # "nop"
    BY DEF Hits
  <1>4. ASSUME NEW q \in C, q # d, Matches(q, p), q.act = "nop" \/ Hits(c, q, p)
        PROVE  d.prio < q.prio
    <2>1. ~(Rank(q) < Rank(d))
      BY <1>4
    <2>2. Rank(q) # Rank(d)
      BY <1>4 DEF InOrderOf
    <2>3. Rank(d) < Rank(q)
      BY <2>1, <2>2, RankType
    <2> QED BY <2>3 DEF InOrderOf
  <1>5. ASSUME NEW g \in Matching(R, p), g.act = "nop", g.prio < d.prio PROVE FALSE
    <2>1. g \in C /\ g.prio \in Int /\ Matches(g, p)
      BY <1>5, OtherRules DEF Matching
    <2>2. d.prio < g.prio
      BY <1>3, <1>4, <1>5, <2>1
    <2> QED BY <1>2, <1>5, <2>1, <2>2
  <1>6. d \in Deciding(R, c, p)
    BY <1>1, <1>5 DEF Deciding
  <1>7. ASSUME NEW q \in Deciding(R, c, p), q # d PROVE q.prio \in Int /\ d.prio < q.prio
    <2>1. q \in Matching(R, p) /\ Matches(q, p) /\ Hits(c, q, p)
      BY DEF Deciding, Matching
    <2>2. CASE q \in C /\ q.prio \in Int
      BY <1>4, <1>7, <2>1, <2>2
    <2>3. CASE q.prio \in Int /\ NopPrio <= q.prio
      BY <1>2, <2>3
    <2>4. \/ q \in C /\ q.prio \in Int
          \/ ~Hits(c, q, p)
          \/ q.prio \in Int /\ NopPrio < q.prio
          \/ q.prio = NopPrio
      BY <2>1, OtherRules
    <2> QED BY <1>2, <2>1, <2>2, <2>3, <2>4
  <1> HIDE DEF C
  <1> QED BY <1>2, <1>6, <1>7, FirstDecides

\* A jump leads to the anchor when no earlier rule decides.
LEMMA JumpDecides ==
    ASSUME NEW c, NEW p, NEW R, InOrderOf(R, c, p.fam), PrioritiesFree, p.fam \in c.fams,
           NEW g \in CommandRules(R, p.fam), g.sel # "lo_low", g.act = "nop", Matches(g, p),
           \A q \in CommandRules(R, p.fam) :
              Rank(q) < Rank(g) => ~Matches(q, p) \/ ~Hits(c, q, p)
    PROVE  Route(R, c, p) = "main"
  <1> DEFINE C == CommandRules(R, p.fam)
             d == Anchor(p.fam)
  <1>1. NopPrio \in Nat /\ d.prio = NopPrio /\ d.act = "main" /\ d.fam = p.fam
        /\ Matches(d, p) /\ Hits(c, d, p)
    BY PolicyAssumption DEF NopPrio, Anchor, Matches, Hits
  <1>2. g \in Matching(R, p) /\ d \in Matching(R, p)
    BY <1>1 DEF Matching, CommandRules, InOrderOf
  <1>3. ~(d.prio < NopPrio)
    BY <1>1
  <1>4. d \in Deciding(R, c, p)
    BY <1>1, <1>2, <1>3 DEF Deciding
  <1>5. ASSUME NEW q \in Deciding(R, c, p) PROVE q \notin C
    <2>1. q \in Matching(R, p) /\ Matches(q, p) /\ Hits(c, q, p)
      BY DEF Deciding, Matching
    <2> SUFFICES ASSUME q \in C PROVE FALSE
      OBVIOUS
    <2>2. q # g
      BY <2>1 DEF Hits
    <2>3. ~(Rank(q) < Rank(g))
      BY <2>1
    <2>4. Rank(q) # Rank(g)
      BY <2>2 DEF InOrderOf
    <2>5. Rank(g) < Rank(q)
      BY <2>3, <2>4, RankType
    <2>6. g.prio < q.prio
      BY <2>5 DEF InOrderOf
    <2>7. q.prio < NopPrio
      BY <1>1, PolicyAssumption DEF CommandRules
    <2> QED BY <1>2, <2>6, <2>7 DEF Deciding
  <1>6. ASSUME NEW q \in Deciding(R, c, p), q # d PROVE q.prio \in Int /\ d.prio < q.prio
    <2>1. q \in Matching(R, p) /\ Hits(c, q, p) /\ q \notin C
      BY <1>5 DEF Deciding
    <2> QED BY <1>1, <1>6, <2>1, OtherRules
  <1> HIDE DEF C, d
  <1> QED BY <1>1, <1>4, <1>6, FirstDecides

\* Where no rule of a command has a route, the packet gets to the anchor or to main.
LEMMA NothingDecides ==
    ASSUME NEW c, NEW p, NEW R, InOrderOf(R, c, p.fam), PrioritiesFree,
           \A q \in CommandRules(R, p.fam) : ~Matches(q, p) \/ ~Hits(c, q, p)
    PROVE  Route(R, c, p) = "main"
  <1> DEFINE d == IF p.fam \in c.fams THEN Anchor(p.fam) ELSE MainRule(p.fam)
  <1>1. NopPrio \in Nat /\ NopPrio < 32766
    BY PolicyAssumption DEF NopPrio, PrioritiesFree
  <1>2. d.prio \in Int /\ ~(d.prio < NopPrio) /\ d.act = "main" /\ d.fam = p.fam
        /\ Matches(d, p) /\ Hits(c, d, p) /\ d \in R
    <2>1. CASE p.fam \in c.fams
      BY <1>1, <2>1 DEF Anchor, Matches, Hits, InOrderOf
    <2>2. CASE p.fam \notin c.fams
      BY <1>1, <2>2 DEF MainRule, Matches, Hits, InOrderOf
    <2> QED BY <2>1, <2>2
  <1>3. d \in Deciding(R, c, p)
    BY <1>2 DEF Deciding, Matching
  <1>4. ASSUME NEW q \in Deciding(R, c, p), q # d PROVE q.prio \in Int /\ d.prio < q.prio
    <2>1. q \in Matching(R, p) /\ Matches(q, p) /\ Hits(c, q, p)
      BY DEF Deciding, Matching
    <2>2. q \notin CommandRules(R, p.fam)
      BY <2>1
    <2>3. CASE p.fam \in c.fams
      <3>1. d = Anchor(p.fam) /\ d.prio = NopPrio
        BY <2>3 DEF Anchor
      <3> QED BY <1>1, <1>4, <2>1, <2>2, <3>1, OtherRules
    <2>4. CASE p.fam \notin c.fams
      <3>1. d = MainRule(p.fam)
        BY <2>4
      <3> QED BY <1>4, <2>1, <2>2, <2>4, <3>1, OtherRules
    <2> QED BY <2>3, <2>4
  <1> HIDE DEF d
  <1> QED BY <1>2, <1>3, <1>4, FirstDecides

\* Packets of a family that has no address: strict_route cuts them off.
LEMMA WithoutAddress ==
    ASSUME NEW c \in Config, NEW p \in Packet, NEW R, InOrderOf(R, c, p.fam), PrioritiesFree,
           p.fam \notin c.fams
    PROVE  Route(R, c, p) = Wanted(c, p)
  <1> DEFINE C == CommandRules(R, p.fam)
  <1>1. \A q \in C : /\ c.strict /\ q.sel = "any" /\ q.act = "unreachable"
    <2>1. ASSUME NEW q \in C PROVE c.strict /\ q.sel = "any" /\ q.act = "unreachable"
      <3>1. Command(p.fam, q.sel, q.act) \in CommandsWithout(c, p.fam)
        BY DEF InOrderOf, CommandsFor
      <3> QED BY <3>1 DEF CommandsWithout, Command
    <2> QED BY <2>1
  <1>2. CASE c.strict
    <2>1. Command(p.fam, "any", "unreachable") \in CommandsFor(c, p.fam)
      BY <1>2 DEF CommandsFor, CommandsWithout
    <2>2. Command(p.fam, "any", "unreachable").sel = "any"
          /\ Command(p.fam, "any", "unreachable").act = "unreachable"
      BY DEF Command
    <2>3. PICK d \in C : d.sel = "any" /\ d.act = "unreachable"
      BY <2>1, <2>2 DEF InOrderOf
    <2>4. Matches(d, p) /\ Hits(c, d, p)
      BY <2>3 DEF Matches, Hits
    <2>5. \A q \in C : Rank(q) < Rank(d) => ~Matches(q, p) \/ (q.act # "nop" /\ ~Hits(c, q, p))
      <3>1. ASSUME NEW q \in C PROVE ~(Rank(q) < Rank(d))
        <4>1. Rank(q) = Rank(d)
          BY <1>1, <2>3, RankOfRule
        <4> QED BY <4>1, RankType
      <3> QED BY <3>1
    <2>6. Route(R, c, p) = "unreachable"
      BY <2>3, <2>4, <2>5, CommandDecides
    <2> QED BY <1>2, <2>6 DEF Wanted
  <1>3. CASE ~c.strict
    <2>1. C = {}
      BY <1>1, <1>3
    <2>2. Route(R, c, p) = "main"
      BY <2>1, NothingDecides
    <2> QED BY <1>3, <2>2 DEF Wanted
  <1>4. c.strict \in BOOLEAN
    BY DEF Config
  <1> QED BY <1>2, <1>3

\* Packets of a family that has one, rule by rule.
LEMMA WithAddress ==
    ASSUME NEW c \in Config, c.mark = "none", NEW p \in Packet, NEW R,
           InOrderOf(R, c, p.fam), PrioritiesFree, p.fam \in c.fams
    PROVE  Route(R, c, p) = Wanted(c, p)
  <1> DEFINE f == p.fam
             C == CommandRules(R, f)
             Has(sel, act) == \E r \in C : r.sel = sel /\ r.act = act
  \* The commands, by their place.
  <1>1. ASSUME NEW q \in C
        PROVE  \/ Rank(q) = 1 /\ q.sel = "uid" /\ q.act = "nop" /\ c.uids
               \/ /\ Rank(q) = 2 /\ q.sel = "listed"
                  /\ \/ q.act = "tun" /\ c.ifaces = "include"
                     \/ q.act = "nop" /\ c.ifaces = "exclude"
               \/ Rank(q) = 3 /\ q.sel = "any" /\ q.act = "nop" /\ c.ifaces = "include"
               \/ Rank(q) = 5 /\ q.sel = "to_tun" /\ q.act = "tun"
               \/ Rank(q) = 6 /\ q.sel = "any" /\ q.act = "tun_specific"
               \/ Rank(q) = 7 /\ q.sel = "not_dns" /\ q.act = "main_specific"
               \/ Rank(q) = 8 /\ q.sel = "iif_tun" /\ q.act = "nop"
               \/ Rank(q) = 9 /\ q.sel = "not_lo" /\ q.act = "tun" /\ f = "v4"
               \/ Rank(q) = 9 /\ q.sel = "lo_low" /\ q.act = "nop" /\ f = "v6"
               \/ Rank(q) = 10 /\ q.sel = "lo_unspec" /\ q.act = "tun" /\ f = "v4"
               \/ Rank(q) = 10 /\ q.sel = "lo_high" /\ q.act = "nop" /\ f = "v6"
               \/ Rank(q) = 11 /\ q.sel = "lo_tun" /\ q.act = "tun"
               \/ Rank(q) = 12 /\ q.sel = "any" /\ q.act = "tun" /\ f = "v6"
    <2>1. f \in {"v4", "v6"}
      BY DEF Packet
    <2>2. Command(f, q.sel, q.act) \in CommandsOf(c, f)
      BY DEF InOrderOf, CommandsFor
    <2> HIDE DEF f
    <2>3. \/ q.sel = "uid" /\ q.act = "nop" /\ c.uids
          \/ /\ q.sel = "listed"
             /\ \/ q.act = "tun" /\ c.ifaces = "include"
                \/ q.act = "nop" /\ c.ifaces = "exclude"
          \/ q.sel = "any" /\ q.act = "nop" /\ c.ifaces = "include"
          \/ q.sel = "to_tun" /\ q.act = "tun"
          \/ q.sel = "any" /\ q.act = "tun_specific"
          \/ q.sel = "not_dns" /\ q.act = "main_specific"
          \/ q.sel = "iif_tun" /\ q.act = "nop"
          \/ q.sel = "not_lo" /\ q.act = "tun" /\ f = "v4"
          \/ q.sel = "lo_low" /\ q.act = "nop" /\ f = "v6"
          \/ q.sel = "lo_unspec" /\ q.act = "tun" /\ f = "v4"
          \/ q.sel = "lo_high" /\ q.act = "nop" /\ f = "v6"
          \/ q.sel = "lo_tun" /\ q.act = "tun"
          \/ q.sel = "any" /\ q.act = "tun" /\ f = "v6"
      BY <2>1, <2>2 DEF CommandsOf, Command
    <2> HIDE DEF C
    <2> QED BY <2>3 DEF Rank
  <1>2. /\ c.uids => Has("uid", "nop")
        /\ c.ifaces = "include" => Has("listed", "tun") /\ Has("any", "nop")
        /\ c.ifaces = "exclude" => Has("listed", "nop")
        /\ Has("to_tun", "tun") /\ Has("any", "tun_specific") /\ Has("not_dns", "main_specific")
        /\ Has("iif_tun", "nop") /\ Has("lo_tun", "tun")
        /\ f = "v4" => Has("not_lo", "tun") /\ Has("lo_unspec", "tun")
        /\ f = "v6" => Has("lo_low", "nop") /\ Has("lo_high", "nop") /\ Has("any", "tun")
    <2>1. ASSUME NEW sel, NEW act, Command(f, sel, act) \in CommandsOf(c, f) PROVE Has(sel, act)
      <3>1. Command(f, sel, act).sel = sel /\ Command(f, sel, act).act = act
        BY DEF Command
      <3> QED BY <2>1, <3>1 DEF InOrderOf, CommandsFor
    <2>2. f # "v4" => f = "v6"
      BY DEF Packet
    <2> HIDE DEF Has, f
    <2> QED BY <2>1, <2>2 DEF CommandsOf
  <1>3. /\ c.uids \in BOOLEAN /\ c.excl \in BOOLEAN
        /\ c.ifaces \in {"none", "include", "exclude"} /\ f \in {"v4", "v6"}
        /\ p.iif \in {"lo", "tun", "listed", "other"} /\ p.src \in {"unspec", "tun", "bound"}
        /\ p.dst \in {"tunnet", "lan", "far", "excl"} /\ p.uid \in BOOLEAN /\ p.dns \in BOOLEAN
        /\ (p.iif # "lo" => ~p.uid /\ p.src = "bound")
    BY DEF Config, Packet
  <1>4. Wanted(c, p) = IF ~Bypasses(c, p) /\ Captured(c, p) THEN "tun" ELSE "main"
    BY DEF Wanted
  \* The rule at a place decides, or jumps.
  <1>5. ASSUME NEW d \in C, d.act \in {"tun", "tun_specific"}, Matches(d, p), Hits(c, d, p),
               \A q \in C : Rank(q) < Rank(d)
                  => ~Matches(q, p) \/ (q.act # "nop" /\ ~Hits(c, q, p))
        PROVE  Route(R, c, p) = "tun"
    <2>1. d.sel # "lo_low"
      BY <1>1, <1>5
    <2> HIDE DEF C
    <2> QED BY <1>5, <2>1, CommandDecides DEF C
  <1>6. ASSUME NEW g \in C, g.act = "nop", g.sel # "lo_low", Matches(g, p),
               \A q \in C : Rank(q) < Rank(g) => ~Matches(q, p) \/ ~Hits(c, q, p)
        PROVE  Route(R, c, p) = "main"
    BY <1>6, JumpDecides
  <1> HIDE DEF f, C
  <1>7. CASE c.uids /\ p.uid
    <2>1. PICK g \in C : g.sel = "uid" /\ g.act = "nop"
      BY <1>2, <1>7
    <2>2. Matches(g, p) /\ Rank(g) = 1
      BY <1>7, <2>1 DEF Matches, Rank
    <2>3. \A q \in C : ~(Rank(q) < Rank(g))
      BY <1>1, <2>2
    <2>4. Route(R, c, p) = "main"
      BY <1>6, <2>1, <2>2, <2>3
    <2>5. Bypasses(c, p)
      BY <1>7 DEF Bypasses
    <2> QED BY <1>4, <2>4, <2>5
  <1> DEFINE NoUid == ~(c.uids /\ p.uid)
  <1>8. ASSUME NoUid PROVE \A q \in C : q.sel = "uid" => ~Matches(q, p)
    BY <1>1, <1>8 DEF Matches
  <1>9. CASE NoUid /\ c.ifaces = "include"
    <2>1. CASE p.iif = "listed" /\ InTable(c, p) # "none"
      <3>1. PICK d \in C : d.sel = "listed" /\ d.act = "tun"
        BY <1>2, <1>9
      <3>2. Matches(d, p) /\ Hits(c, d, p) /\ Rank(d) = 2
        BY <2>1, <3>1 DEF Matches, Hits, Rank
      <3>3. \A q \in C : Rank(q) < Rank(d) => ~Matches(q, p)
        BY <1>1, <1>8, <1>9, <3>2
      <3>4. Route(R, c, p) = "tun"
        BY <1>5, <3>1, <3>2, <3>3
      <3>5. ~Bypasses(c, p) /\ Captured(c, p)
        BY <1>3, <1>9, <2>1 DEF Bypasses, Captured, InTable, f
      <3> QED BY <1>4, <3>4, <3>5
    <2>2. CASE ~(p.iif = "listed" /\ InTable(c, p) # "none")
      <3>1. PICK g \in C : g.sel = "any" /\ g.act = "nop"
        BY <1>2, <1>9
      <3>2. Matches(g, p) /\ Rank(g) = 3
        BY <3>1 DEF Matches, Rank
      <3>3. \A q \in C : q.sel = "listed" /\ q.act = "tun" => ~Matches(q, p) \/ ~Hits(c, q, p)
        BY <2>2 DEF Matches, Hits
      <3>4. \A q \in C : Rank(q) < Rank(g) => ~Matches(q, p) \/ ~Hits(c, q, p)
        BY <1>1, <1>8, <1>9, <3>2, <3>3
      <3>5. Route(R, c, p) = "main"
        BY <1>6, <3>1, <3>2, <3>4
      <3>6. Bypasses(c, p)
        BY <1>3, <1>9, <2>2 DEF Bypasses, InTable, f
      <3> QED BY <1>4, <3>5, <3>6
    <2> QED BY <2>1, <2>2
  <1>10. CASE NoUid /\ c.ifaces = "exclude" /\ p.iif = "listed"
    <2>1. PICK g \in C : g.sel = "listed" /\ g.act = "nop"
      BY <1>2, <1>10
    <2>2. Matches(g, p) /\ Rank(g) = 2
      BY <1>10, <2>1 DEF Matches, Rank
    <2>3. \A q \in C : Rank(q) < Rank(g) => ~Matches(q, p)
      BY <1>1, <1>8, <1>10, <2>2
    <2>4. Route(R, c, p) = "main"
      BY <1>6, <2>1, <2>2, <2>3
    <2>5. Bypasses(c, p)
      BY <1>10 DEF Bypasses
    <2> QED BY <1>4, <2>4, <2>5
  \* Neither an excluded user nor an interface list has a say.
  <1> DEFINE Free == NoUid /\ (c.ifaces = "none" \/ (c.ifaces = "exclude" /\ p.iif # "listed"))
  <1>11. ASSUME Free PROVE \A q \in C : Rank(q) < 5 => ~Matches(q, p)
    <2>1. \A q \in C : q.sel = "listed" => ~Matches(q, p)
      BY <1>1, <1>11 DEF Matches
    <2> QED BY <1>1, <1>8, <1>11, <2>1
  <1> HIDE DEF Free, NoUid
  <1>12. CASE Free /\ c.excl /\ p.dst = "excl"
    <2>1. InTable(c, p) = "none" /\ Bypasses(c, p)
      BY <1>3, <1>12 DEF InTable, Bypasses, f
    <2>2. \A q \in C : q.act \in {"tun", "tun_specific", "nop"} => ~Hits(c, q, p)
      BY <2>1 DEF Hits
    <2>3. \A q \in C : q.act = "main_specific" => ~Hits(c, q, p)
      BY <1>12 DEF Hits
    <2>4. \A q \in C : ~Hits(c, q, p)
      BY <1>1, <2>2, <2>3
    <2>5. Route(R, c, p) = "main"
      BY <2>4, NothingDecides DEF C, f
    <2> QED BY <1>4, <2>1, <2>5
  <1>13. CASE Free /\ p.dst = "tunnet"
    <2>1. PICK d \in C : d.sel = "to_tun" /\ d.act = "tun"
      BY <1>2
    <2>2. Matches(d, p) /\ Hits(c, d, p) /\ Rank(d) = 5
      BY <1>13, <2>1 DEF Matches, Hits, InTable, Rank, f
    <2>3. Route(R, c, p) = "tun"
      BY <1>5, <1>11, <1>13, <2>1, <2>2
    <2>4. ~Bypasses(c, p) /\ Captured(c, p)
      BY <1>3, <1>13 DEF Bypasses, Captured, Free, NoUid
    <2> QED BY <1>4, <2>3, <2>4
  <1>14. CASE Free /\ c.excl /\ p.dst \notin {"excl", "tunnet"}
    <2>1. PICK d \in C : d.sel = "any" /\ d.act = "tun_specific"
      BY <1>2
    <2>2. Matches(d, p) /\ Hits(c, d, p) /\ Rank(d) = 6
      BY <1>14, <2>1 DEF Matches, Hits, InTable, Rank, f
    <2>3. \A q \in C : q.sel = "to_tun" => ~Matches(q, p)
      BY <1>14 DEF Matches
    <2>4. \A q \in C : Rank(q) < Rank(d) => ~Matches(q, p)
      BY <1>1, <1>11, <1>14, <2>2, <2>3
    <2>5. Route(R, c, p) = "tun"
      BY <1>5, <2>1, <2>2, <2>4
    <2>6. ~Bypasses(c, p) /\ Captured(c, p)
      BY <1>3, <1>14 DEF Bypasses, Captured, Free, NoUid
    <2> QED BY <1>4, <2>5, <2>6
  \* Without route_exclude_address the TUN table has a default route only.
  <1> DEFINE Plain == Free /\ ~c.excl /\ p.dst # "tunnet"
  <1>15. ASSUME Plain
         PROVE  /\ \A q \in C : Rank(q) < 7 => ~Matches(q, p) \/ (q.act # "nop" /\ ~Hits(c, q, p))
                /\ InTable(c, p) = "default" /\ ~Bypasses(c, p)
    <2>1. InTable(c, p) = "default" /\ ~Bypasses(c, p)
      BY <1>3, <1>15 DEF InTable, Bypasses, Free, NoUid, f
    <2>2. \A q \in C : q.sel = "to_tun" => ~Matches(q, p)
      BY <1>15 DEF Matches
    <2>3. \A q \in C : q.act = "tun_specific" => q.act # "nop" /\ ~Hits(c, q, p)
      BY <2>1 DEF Hits
    <2>4. ASSUME NEW q \in C, Rank(q) < 7
          PROVE  ~Matches(q, p) \/ (q.act # "nop" /\ ~Hits(c, q, p))
      BY <1>1, <1>11, <1>15, <2>2, <2>3, <2>4
    <2> QED BY <2>1, <2>4
  <1>16. CASE Plain /\ p.dst = "lan" /\ ~p.dns
    <2>1. PICK d \in C : d.sel = "not_dns" /\ d.act = "main_specific"
      BY <1>2
    <2>2. Matches(d, p) /\ Hits(c, d, p) /\ Rank(d) = 7
      BY <1>16, <2>1 DEF Matches, Hits, Rank
    <2>3. Route(R, c, p) = "main"
      BY <1>15, <1>16, <2>1, <2>2, CommandDecides DEF C, f
    <2>4. ~Captured(c, p)
      BY <1>3, <1>16 DEF Captured, Free
    <2> QED BY <1>4, <2>3, <2>4
  <1> DEFINE Outside == Plain /\ (p.dst = "lan" => p.dns)
  <1>17. ASSUME Outside
         PROVE  /\ \A q \in C : Rank(q) < 8 => ~Matches(q, p) \/ (q.act # "nop" /\ ~Hits(c, q, p))
                /\ Captured(c, p) <=> \/ p.iif \in {"listed", "other"}
                                      \/ p.iif = "lo" /\ p.src = "unspec"
                                      \/ p.iif = "lo" /\ p.src = "tun" /\ f = "v4"
    <2>1. \A q \in C : q.act = "main_specific" /\ q.sel = "not_dns" => ~Matches(q, p) \/ ~Hits(c, q, p)
      BY <1>3, <1>17 DEF Matches, Hits
    <2>2. ASSUME NEW q \in C, Rank(q) < 8
          PROVE  ~Matches(q, p) \/ (q.act # "nop" /\ ~Hits(c, q, p))
      BY <1>1, <1>15, <1>17, <2>1, <2>2
    <2>3. Captured(c, p) <=> \/ p.iif \in {"listed", "other"}
                             \/ p.iif = "lo" /\ p.src = "unspec"
                             \/ p.iif = "lo" /\ p.src = "tun" /\ f = "v4"
      BY <1>3, <1>17 DEF Captured, Free, f
    <2> QED BY <2>2, <2>3
  <1>18. ASSUME Outside PROVE InTable(c, p) = "default" /\ ~Bypasses(c, p)
    BY <1>15, <1>18
  <1> HIDE DEF Plain, Outside
  <1>19. CASE Outside /\ p.iif = "tun"
    <2>1. PICK g \in C : g.sel = "iif_tun" /\ g.act = "nop"
      BY <1>2
    <2>2. Matches(g, p) /\ Rank(g) = 8
      BY <1>19, <2>1 DEF Matches, Rank
    <2>3. Route(R, c, p) = "main"
      BY <1>6, <1>17, <1>19, <2>1, <2>2
    <2>4. ~Captured(c, p)
      BY <1>17, <1>19
    <2> QED BY <1>4, <2>3, <2>4
  <1>20. ASSUME Outside, p.iif # "tun", NEW q \in C, Rank(q) < 9
         PROVE  ~Matches(q, p) \/ (q.act # "nop" /\ ~Hits(c, q, p))
    <2>1. q.sel = "iif_tun" => ~Matches(q, p)
      BY <1>20 DEF Matches
    <2> QED BY <1>1, <1>17, <1>20, <2>1
  <1>21. CASE Outside /\ p.iif # "tun" /\ f = "v4"
    <2>1. CASE p.iif # "lo"
      <3>1. PICK d \in C : d.sel = "not_lo" /\ d.act = "tun"
        BY <1>2, <1>21
      <3>2. Matches(d, p) /\ Hits(c, d, p) /\ Rank(d) = 9
        BY <1>18, <1>21, <2>1, <3>1 DEF Matches, Hits, Rank
      <3>3. Route(R, c, p) = "tun"
        BY <1>5, <1>20, <1>21, <3>1, <3>2
      <3>4. Captured(c, p) /\ ~Bypasses(c, p)
        BY <1>3, <1>17, <1>18, <1>21, <2>1
      <3> QED BY <1>4, <3>3, <3>4
    <2>2. CASE p.iif = "lo"
      <3>1. \A q \in C : q.sel = "not_lo" => ~Matches(q, p)
        BY <2>2 DEF Matches
      <3>2. ASSUME NEW q \in C, Rank(q) < 10
            PROVE  ~Matches(q, p) \/ (q.act # "nop" /\ ~Hits(c, q, p))
        BY <1>1, <1>20, <1>21, <3>1, <3>2
      <3>3. CASE p.src = "unspec"
        <4>1. PICK d \in C : d.sel = "lo_unspec" /\ d.act = "tun"
          BY <1>2, <1>21
        <4>2. Matches(d, p) /\ Hits(c, d, p) /\ Rank(d) = 10
          BY <1>18, <1>21, <2>2, <3>3, <4>1 DEF Matches, Hits, Rank
        <4>3. Route(R, c, p) = "tun"
          BY <1>5, <3>2, <4>1, <4>2
        <4>4. Captured(c, p) /\ ~Bypasses(c, p)
          BY <1>17, <1>18, <1>21, <2>2, <3>3
        <4> QED BY <1>4, <4>3, <4>4
      <3>4. CASE p.src = "tun"
        <4>1. PICK d \in C : d.sel = "lo_tun" /\ d.act = "tun"
          BY <1>2
        <4>2. Matches(d, p) /\ Hits(c, d, p) /\ Rank(d) = 11
          BY <1>18, <1>21, <2>2, <3>4, <4>1 DEF Matches, Hits, Rank
        <4>3. \A q \in C : q.sel = "lo_unspec" => ~Matches(q, p)
          BY <3>4 DEF Matches
        <4>4. ASSUME NEW q \in C, Rank(q) < Rank(d)
              PROVE  ~Matches(q, p) \/ (q.act # "nop" /\ ~Hits(c, q, p))
          BY <1>1, <1>21, <3>2, <4>2, <4>3, <4>4
        <4>5. Route(R, c, p) = "tun"
          BY <1>5, <4>1, <4>2, <4>4
        <4>6. Captured(c, p) /\ ~Bypasses(c, p)
          BY <1>17, <1>18, <1>21, <2>2, <3>4
        <4> QED BY <1>4, <4>5, <4>6
      <3>5. CASE p.src = "bound"
        <4>1. \A q \in C : q.sel \in {"lo_unspec", "lo_tun"} => ~Matches(q, p)
          BY <3>5 DEF Matches
        <4>2. ASSUME NEW q \in C PROVE ~Matches(q, p) \/ ~Hits(c, q, p)
          BY <1>1, <1>21, <3>2, <4>1
        <4>3. Route(R, c, p) = "main"
          BY <4>2, NothingDecides DEF C, f
        <4>4. ~Captured(c, p)
          BY <1>17, <1>21, <2>2, <3>5
        <4> QED BY <1>4, <4>3, <4>4
      <3> QED BY <1>3, <3>3, <3>4, <3>5
    <2> QED BY <2>1, <2>2
  <1>22. CASE Outside /\ p.iif # "tun" /\ f = "v6"
    <2>1. CASE p.iif = "lo" /\ p.src # "unspec"
      <3>1. PICK g \in C : g.sel = "lo_high" /\ g.act = "nop"
        BY <1>2, <1>22
      <3>2. Matches(g, p) /\ Rank(g) = 10
        BY <2>1, <3>1 DEF Matches, Rank
      <3>3. \A q \in C : q.act = "nop" => ~Hits(c, q, p)
        BY DEF Hits
      <3>4. ASSUME NEW q \in C, Rank(q) < Rank(g) PROVE ~Matches(q, p) \/ ~Hits(c, q, p)
        BY <1>1, <1>20, <1>22, <3>2, <3>3, <3>4
      <3>5. Route(R, c, p) = "main"
        BY <1>6, <3>1, <3>2, <3>4
      <3>6. ~Captured(c, p)
        BY <1>17, <1>22, <2>1
      <3> QED BY <1>4, <3>5, <3>6
    <2>2. CASE ~(p.iif = "lo" /\ p.src # "unspec")
      <3>1. PICK d \in C : d.sel = "any" /\ d.act = "tun"
        BY <1>2, <1>22
      <3>2. Matches(d, p) /\ Hits(c, d, p) /\ Rank(d) = 12
        BY <1>18, <1>22, <3>1 DEF Matches, Hits, Rank
      <3>3. \A q \in C : q.sel \in {"lo_low", "lo_high", "lo_tun"} => ~Matches(q, p)
        BY <2>2 DEF Matches
      <3>4. ASSUME NEW q \in C, Rank(q) < Rank(d)
            PROVE  ~Matches(q, p) \/ (q.act # "nop" /\ ~Hits(c, q, p))
        BY <1>1, <1>20, <1>22, <3>2, <3>3, <3>4
      <3>5. Route(R, c, p) = "tun"
        BY <1>5, <3>1, <3>2, <3>4
      <3>6. Captured(c, p) /\ ~Bypasses(c, p)
        BY <1>3, <1>17, <1>18, <1>22, <2>2
      <3> QED BY <1>4, <3>5, <3>6
    <2> QED BY <2>1, <2>2
  <1>23. CASE Outside
    BY <1>3, <1>19, <1>21, <1>22, <1>23
  <1>24. CASE Free
    BY <1>3, <1>12, <1>13, <1>14, <1>16, <1>23, <1>24 DEF Plain, Outside
  <1> QED BY <1>3, <1>7, <1>9, <1>10, <1>24 DEF Free, NoUid

LEMMA RoutesAsWanted ==
    ASSUME NEW c \in Config, c.mark = "none", NEW R, RulesInPlace(R, c), PrioritiesFree,
           NEW p \in Packet
    PROVE  Route(R, c, p) = Wanted(c, p)
  <1>1. p.fam \in {"v4", "v6"} /\ c.mark # "redirect"
    BY DEF Packet
  <1>2. InOrderOf(R, c, p.fam)
    BY <1>1, RulesStandInOrder
  <1> QED BY <1>2, WithAddress, WithoutAddress

-----------------------------------------------------------------------------
(* Every packet goes where the configuration asks                           *)

\* Nothing keeps the kernel from adding a rule of set-up, as long as it has its number.
LEMMA SetupRuleIsAdded ==
    ASSUME NEW c \in Config, c.mark # "redirect", PrioritiesFree,
           NEW i \in 1 .. Len(LinuxSetup(c)), NEW R
    PROVE  LET r == LinuxSetup(c)[i].rule IN r.prio # -1 /\ r \in AddRule(R, r)
  <1> DEFINE s == LinuxCommands(c)
             r == LinuxSetup(c)[i].rule
  <1>1. r \in {RuleOf(s, j) : j \in 1 .. Len(s)} \cup {Anchor(f) : f \in c.fams}
    BY LinuxRulesAre
  <1>2. NopPrio \in Nat /\ PrioBase \in Nat
    BY PolicyAssumption DEF NopPrio
  <1>3. r.prio # -1 /\ ~(r.act = "nop" /\ r.prio >= NopPrio)
    <2>1. ASSUME NEW j \in 1 .. Len(s), r = RuleOf(s, j)
          PROVE  r.prio \in Nat /\ r.prio < NopPrio
      <3>1. Commands(s) /\ Len(s) \in Nat /\ PrioBase + Len(s) <= NopPrio
        BY LinuxCommandsAre, LenProperties DEF Commands, PrioritiesFree
      <3>2. Prio(s, j) \in PrioBase .. PrioBase + Len(s) - 1
        BY <3>1, PrioCounts
      <3> HIDE DEF s, r
      <3>3. r.prio = Prio(s, j)
        BY <2>1 DEF RuleOf
      <3> QED BY <1>2, <3>1, <3>2, <3>3
    <2>2. ASSUME NEW f \in c.fams, r = Anchor(f)
          PROVE  r.prio = NopPrio /\ r.act # "nop"
      BY <2>2 DEF Anchor
    <2> HIDE DEF s, r
    <2> QED BY <1>1, <1>2, <2>1, <2>2
  <1> HIDE DEF r
  <1>4. r \in AddRule(R, r)
    BY <1>3 DEF AddRule
  <1> QED BY <1>3, <1>4 DEF r

LEMMA InstalledStep ==
    ASSUME PrioritiesFree, RunTypeOK, InstalledInv, [RunNext]_runVars
    PROVE  InstalledInv'
  <1>1. UNCHANGED <<os, cfg>>
    BY Constants
  <1>2. cfg \in Config /\ pc \in Nat
    BY ConfigType DEF RunTypeOK
  <1> SUFFICES ASSUME os = "linux", cfg.mark # "redirect", phase' \in {"setup", "serving"},
                      ~failed'
               PROVE  \A i \in 1 .. pc' - 1 : LinuxSetup(cfg)[i].rule \in rules'
    BY <1>1 DEF InstalledInv
  <1>3. CASE SetupStep
    <2>1. /\ phase = "setup" /\ ~failed /\ pc \in 1 .. Len(LinuxSetup(cfg)) /\ pc' = pc + 1
          /\ RuleStep(TRUE)
      <3>1. PICK ok \in BOOLEAN : /\ failed' = (failed \/ ~ok)
                                  /\ RuleStep(ok) \/ HostStep(ok)
        BY <1>3 DEF SetupStep
      <3>2. ok = TRUE /\ failed # TRUE
        BY <3>1
      <3>3. ~HostStep(ok)
        BY DEF HostStep
      <3>4. RuleStep(TRUE)
        BY <3>1, <3>2, <3>3
      <3>5. phase = "setup" /\ pc <= SetupLength /\ pc' = pc + 1
        BY <1>3 DEF SetupStep
      <3>6. pc # 0 /\ SetupLength = Len(LinuxSetup(cfg))
        BY DEF RunTypeOK, SetupLength
      <3>7. pc \in 1 .. Len(LinuxSetup(cfg))
        <4>1. Len(LinuxSetup(cfg)) \in Nat
          BY <1>2, LinuxSetupOK, LenProperties DEF SetupStepsOK
        <4> QED BY <1>2, <3>5, <3>6, <4>1
      <3> QED BY <3>1, <3>2, <3>4, <3>5, <3>7
    <2> DEFINE r == LinuxSetup(cfg)[pc].rule
    <2>2. r.prio # -1 /\ r \in AddRule(rules, r)
      BY <1>2, <2>1, SetupRuleIsAdded
    <2>3. rules' = AddRule(rules, r)
      BY <2>1, <2>2 DEF RuleStep
    <2>4. rules \subseteq rules' /\ r \in rules'
      <3> HIDE DEF r
      <3>1. rules \subseteq AddRule(rules, r)
        BY DEF AddRule
      <3> QED BY <2>2, <2>3, <3>1
    <2>5. \A i \in 1 .. pc - 1 : LinuxSetup(cfg)[i].rule \in rules
      BY <2>1 DEF InstalledInv
    <2>6. \A i \in 1 .. pc' - 1 : i = pc \/ i \in 1 .. pc - 1
      BY <1>2, <2>1
    <2> QED BY <2>4, <2>5, <2>6
  <1>4. CASE CreateDevice \/ AddRoutes
    <2>1. pc' = 1
      BY <1>4 DEF CreateDevice, AddRoutes, RunTypeOK
    <2> QED BY <2>1
  <1>5. CASE Listen \/ OldDeviceGone \/ UNCHANGED runVars
    <2>1. phase \in {"setup", "serving"} /\ UNCHANGED <<failed, rules, pc>>
      BY <1>5 DEF Listen, OldDeviceGone, runVars, kernel
    <2> QED BY <2>1 DEF InstalledInv
  <1>6. CASE \/ NewStack \/ StartFails \/ UserStack \/ Teardown \/ RunReturns \/ Close \/ Crash
    <2>1. phase' \notin {"setup", "serving"}
      BY <1>6 DEF NewStack, StartFails, UserStack, Teardown, RunReturns, Close, Crash
    <2> QED BY <2>1
  <1> QED BY <1>3, <1>4, <1>5, <1>6 DEF RunNext

(***************************************************************************)
(* platform::setup on Linux and Windows: once it has run without a failed  *)
(* command, also over what an aborted or killed run of the same            *)
(* configuration left, the kernel sends every packet to the TUN, to the    *)
(* main table or nowhere as the configuration asks.                        *)
(***************************************************************************)
THEOREM PacketsGoAsAsked ==
    ASSUME PrioritiesFree PROVE RunSpec => []TrafficAsConfigured
  <1> DEFINE Inv == RunInv /\ InstalledInv
  <1>1. RunInit => Inv
    <2>1. RunInit => InstalledInv
      BY DEF RunInit, InstalledInv
    <2> QED BY <2>1, RunInvariant
  <1>2. Inv /\ [RunNext]_runVars => Inv'
    BY RunInvariant, InstalledStep DEF RunInv
  <1>3. Inv /\ FiltersAsConfigured => TrafficAsConfigured
    <2> SUFFICES ASSUME Inv, phase = "serving", ~failed, os = "linux", cfg.mark = "none",
                        NEW p \in Packet
                 PROVE  Route(rules, cfg, p) = Wanted(cfg, p)
      BY DEF TrafficAsConfigured
    <2>1. cfg \in Config
      BY ConfigType DEF RunInv, RunTypeOK
    <2>2. pc = SetupLength + 1 /\ SetupLength = Len(LinuxSetup(cfg)) /\ LinuxRulesInv
          /\ InstalledInv
      BY DEF RunInv, SetupDone, SetupLength, RulesInv
    <2>3. Len(LinuxSetup(cfg)) \in Nat
      BY <2>1, LinuxSetupOK, LenProperties DEF SetupStepsOK
    <2>4. \A i \in 1 .. Len(LinuxSetup(cfg)) : LinuxSetup(cfg)[i].rule \in rules
      BY <2>2, <2>3 DEF InstalledInv
    <2>5. RulesInPlace(rules, cfg)
      <3>1. \A r \in rules \ SystemRules :
                MarkShape(r) \/ \E i \in 1 .. Len(LinuxSetup(cfg)) : r = LinuxSetup(cfg)[i].rule
        BY <2>2 DEF LinuxRulesInv, MarkShape
      <3>2. \A r \in rules \ SystemRules :
                r.sel = "in_mark" \/ \E i \in 1 .. Len(LinuxSetup(cfg)) : r = LinuxSetup(cfg)[i].rule
        BY <3>1, MarkShapeIs
      <3> QED BY <2>2, <2>4, <3>2 DEF LinuxRulesInv, RulesInPlace
    <2> QED BY <2>1, <2>5, RoutesAsWanted
  <1>4. RunSpec => []FiltersAsConfigured
    BY StrictRouteDecides
  <1> HIDE DEF Inv
  <1> QED BY <1>1, <1>2, <1>3, <1>4, PTL DEF RunSpec
=============================================================================
