-------------------------------- MODULE TunRun --------------------------------
(***************************************************************************)
(* The life of a TUN inbound: TunInbound::run (tun/mod.rs), the platform   *)
(* set-up and teardown it calls (PolicyRules, HostRoutes), and EngineStack *)
(* (stack.rs), which runs it in a task and aborts the task on close.       *)
(* Set-up and teardown never yield, so only a crash of the process can cut *)
(* them short.  A run after an abort or a crash finds what they left.      *)
(* auto_route is on: without it none of the platform code runs.            *)
(***************************************************************************)
EXTENDS PolicyRules, HostRoutes

CONSTANTS
    MaxStarts,           \* bound: runs, one after the other
    MaxFaults            \* bound: failed commands, aborts and crashes

ASSUME RunAssumption == MaxStarts \in Nat /\ MaxFaults \in Nat

VARIABLES
    os, cfg,             \* the platform and the configuration, which a restart keeps
    phase, pc, starts, faults, failed,
    abandoned,           \* history: runs that began to set up and ended without a teardown
    rules, routes, wfp,  \* the kernel: policy rules, routes, runs with a WFP session
    filters,             \* the filters of the last session
    metric,              \* the metric of the physical default route
    recorded,            \* SetupState: rule_priorities (routes_v4, routes_v6: all of cfg)
    registered,          \* interface_finder: family -> interface the outbound binds to
    addressed,           \* families whose address the interface has
    listeners, callbacks \* TCP listeners of this run; runs whose callback is registered

runVars == <<os, cfg, phase, pc, starts, faults, failed, abandoned, rules, routes, wfp, filters,
             metric, recorded, registered, addressed, listeners, callbacks>>
kernel == <<rules, routes, wfp, filters>>

Config ==
    [fams : {{"v4"}, {"v6"}, {"v4", "v6"}}, mark : {"none", "so_mark", "redirect"},
     uids : BOOLEAN, ifaces : {"none", "include", "exclude"}, strict : BOOLEAN, excl : BOOLEAN]

\* macOS and Windows know neither marks nor UIDs nor interface lists; Android has no
\* strict_route, no auto_redirect, and ignores route_exclude_address in its rules.
Configs(o) ==
    CASE o = "linux" -> Config
      [] o = "android" -> {c \in Config : c.mark = "none" /\ ~c.strict /\ ~c.excl}
      [] o = "macos" -> {c \in Config : c.mark = "none" /\ ~c.uids /\ c.ifaces = "none"
                                        /\ ~c.strict}
      [] o = "windows" -> {c \in Config : c.mark = "none" /\ ~c.uids /\ c.ifaces = "none"}

RunInit ==
    /\ os \in {"linux", "android", "macos", "windows"} /\ cfg \in Configs(os)
    /\ phase = "ended" /\ pc = 1 /\ starts = 0 /\ faults = 0 /\ failed = FALSE
    /\ abandoned = 0
    /\ rules = SystemRules /\ routes = Physical({"v4", "v6"}) /\ wfp = {} /\ filters = {}
    /\ metric \in (CASE os = "windows" -> {0, 1} [] os = "android" -> {0, 1, 2} [] OTHER -> {0})
    /\ recorded = <<>> /\ registered = [f \in {"v4", "v6"} |-> "none"]
    /\ addressed = {} /\ listeners = {} /\ callbacks = {}

\* The interface is gone, and its routes and addresses with it.
DeviceGone(rs) == {r \in rs : r.dev # "tun"}

-----------------------------------------------------------------------------
\* new_stack spawns run.
NewStack ==
    /\ phase = "ended" /\ starts < MaxStarts
    /\ phase' = "device" /\ pc' = 1 /\ starts' = starts + 1 /\ failed' = FALSE
    /\ recorded' = <<>> /\ addressed' = {} /\ listeners' = {}
    /\ UNCHANGED <<os, cfg, faults, abandoned, kernel, metric, registered, callbacks>>

\* The device comes with the first IPv4 address.
CreateDevice ==
    /\ phase = "device" /\ phase' = IF os = "android" THEN "main_routes" ELSE "setup"
    /\ addressed' = cfg.fams \cap {"v4"}
    /\ UNCHANGED <<os, cfg, pc, starts, faults, failed, abandoned, kernel, metric, recorded,
                   registered, listeners, callbacks>>

\* No usable address, or no permission: run returns before it has changed anything.
StartFails ==
    /\ phase = "device" /\ phase' = "ended"
    /\ failed' = TRUE
    /\ UNCHANGED <<os, cfg, pc, starts, faults, abandoned, kernel, metric, recorded, registered,
                   addressed, listeners, callbacks>>

\* platform::setup
SetupLength ==
    CASE os = "linux" -> Len(LinuxSetup(cfg))
      [] os = "android" -> Len(AndroidSetup(cfg))
      [] os = "macos" -> Len(MacSetup(cfg))
      [] os = "windows" -> Len(WindowsSetup(cfg))

\* Android's set-up begins with the routes: a family's command may fail, or be refused.
AddRoutes ==
    /\ phase = "main_routes" /\ phase' = "setup"
    /\ \E lost \in SUBSET cfg.fams :
        /\ faults + Cardinality(lost) <= MaxFaults
        /\ faults' = faults + Cardinality(lost)
        /\ routes' = AddMainRoutes(routes, cfg.fams \ lost, metric)
    /\ failed' = (failed \/ \E f \in cfg.fams : TunRoute(f) \notin routes')
    /\ UNCHANGED <<os, cfg, pc, starts, abandoned, rules, wfp, filters, metric, recorded,
                   registered, addressed, listeners, callbacks>>

\* A command that fails is recorded all the same.
RuleStep(ok) ==
    LET step == IF os = "linux" THEN LinuxSetup(cfg)[pc] ELSE AndroidSetup(cfg)[pc]
        rule == IF step.rule.prio = -1
                THEN [step.rule EXCEPT !.prio = KernelPrio(rules, step.rule.fam)]
                ELSE step.rule
    IN  /\ os \in {"linux", "android"}
        /\ recorded' = recorded \o step.push
        /\ rules' = IF ok THEN AddRule(rules, rule) ELSE rules
        \* The addresses are set before the rules.
        /\ addressed' = IF os = "linux" THEN cfg.fams ELSE addressed
        /\ UNCHANGED <<routes, wfp, filters, registered>>

HostStep(ok) ==
    LET step == IF os = "macos" THEN MacSetup(cfg)[pc] ELSE WindowsSetup(cfg)[pc]
        f == IF step \in {"auto_v6", "excl_v6"} THEN "v6" ELSE "v4"
        Found(g) == DefaultRoutes(os, routes, g, metric)
    IN  /\ os \in {"macos", "windows"}
        /\ CASE ~ok -> UNCHANGED <<routes, registered, addressed, wfp, filters>>
             [] ok /\ step = "register" ->
                   /\ \E reg \in [{"v4", "v6"} -> {r.dev : r \in routes}] :
                        /\ \A g \in {"v4", "v6"} : \E r \in Found(g) : r.dev = reg[g]
                        /\ registered' = reg
                   /\ UNCHANGED <<routes, addressed, wfp, filters>>
             [] ok /\ step = "bypass" ->
                   /\ \E r \in Found("v4") : routes' = BypassRoute(routes, r)
                   /\ UNCHANGED <<registered, addressed, wfp, filters>>
             [] ok /\ step = "addresses" ->
                   addressed' = cfg.fams /\ UNCHANGED <<routes, registered, wfp, filters>>
             [] ok /\ step \in {"auto_v4", "auto_v6"} ->
                   /\ routes' = AutoRoute(os, routes, f)
                   /\ UNCHANGED <<registered, addressed, wfp, filters>>
             [] ok /\ step \in {"excl_v4", "excl_v6"} ->
                   /\ \E r \in Found(f) : routes' = ExcludeRoute(os, routes, f, r)
                   /\ UNCHANGED <<registered, addressed, wfp, filters>>
             [] ok /\ step = "wfp" ->
                   /\ wfp' = wfp \cup {starts} /\ filters' = StrictSession(cfg)
                   /\ UNCHANGED <<routes, registered, addressed>>
        /\ UNCHANGED <<rules, recorded>>

SetupStep ==
    /\ phase = "setup" /\ pc <= SetupLength
    /\ \E ok \in BOOLEAN :
        /\ ok \/ faults < MaxFaults
        /\ faults' = IF ok THEN faults ELSE faults + 1
        /\ failed' = (failed \/ ~ok)
        /\ RuleStep(ok) \/ HostStep(ok)
    /\ pc' = pc + 1
    /\ UNCHANGED <<os, cfg, phase, starts, abandoned, metric, listeners, callbacks>>

\* gvisor and mixed take over and return for run.
UserStack ==
    /\ phase = "setup" /\ pc > SetupLength
    /\ phase' = "user_stack"
    /\ UNCHANGED <<os, cfg, pc, starts, faults, failed, abandoned, kernel, metric, recorded,
                   registered, addressed, listeners, callbacks>>

\* The system stack binds a listener per address, spawns its tasks and registers for
\* interface changes.
Listen ==
    /\ phase = "setup" /\ pc > SetupLength
    /\ phase' = "serving"
    /\ listeners' = addressed
    /\ callbacks' = IF os \in {"linux", "android"} THEN callbacks \cup {starts} ELSE callbacks
    /\ UNCHANGED <<os, cfg, pc, starts, faults, failed, abandoned, kernel, metric, recorded,
                   registered, addressed>>

\* The device is closed: the read loop ends.  Teardown, then unregister, then the device
\* is dropped.
Teardown ==
    /\ phase = "serving" /\ phase' = "torn_down"
    /\ CASE os = "linux" -> rules' = LinuxTeardown(rules, recorded) /\ UNCHANGED <<routes, wfp>>
         [] os = "android" ->
               /\ rules' = AndroidTeardown(rules, recorded)
               /\ routes' = DeleteMainRoutes(routes, cfg, metric) /\ UNCHANGED wfp
         [] os = "macos" -> routes' = DeleteRoutes(routes, cfg) /\ UNCHANGED <<rules, wfp>>
         [] os = "windows" ->
               /\ \E r \in DefaultRoutes(os, routes, "v4", metric) :
                     routes' = DeleteRoutes(RemoveBypass(routes, r), cfg)
               /\ wfp' = wfp \ {starts} /\ UNCHANGED rules
    /\ callbacks' = callbacks \ {starts}
    /\ UNCHANGED <<os, cfg, pc, starts, faults, failed, abandoned, filters, metric, recorded,
                   registered, addressed, listeners>>

RunReturns ==
    /\ phase \in {"torn_down", "user_stack"} /\ phase' = "ended"
    /\ routes' = DeviceGone(routes)
    /\ abandoned' = IF phase = "user_stack" THEN abandoned + 1 ELSE abandoned
    /\ UNCHANGED <<os, cfg, pc, starts, faults, failed, rules, wfp, filters, metric, recorded,
                   registered, addressed, listeners, callbacks>>

\* EngineStack::close aborts the task where it waits.  A session task that holds the
\* writer keeps the device open.
Close ==
    /\ phase \in {"serving", "user_stack"} /\ phase' = "ended"
    /\ faults < MaxFaults /\ faults' = faults + 1 /\ abandoned' = abandoned + 1
    /\ \/ routes' = DeviceGone(routes)
       \/ routes' = {IF r.dev = "tun" THEN [r EXCEPT !.dev = "oldtun"] ELSE r : r \in routes}
    /\ UNCHANGED <<os, cfg, pc, starts, failed, rules, wfp, filters, metric, recorded, registered,
                   addressed, listeners, callbacks>>

\* The last session of a closed run expires.
OldDeviceGone ==
    /\ \E r \in routes : r.dev = "oldtun"
    /\ routes' = {r \in routes : r.dev # "oldtun"}
    /\ UNCHANGED <<os, cfg, phase, pc, starts, faults, failed, abandoned, rules, wfp, filters,
                   metric, recorded, registered, addressed, listeners, callbacks>>

\* The process dies: the system drops the device and the dynamic WFP session.
Crash ==
    /\ phase # "ended" /\ phase' = "ended"
    /\ faults < MaxFaults /\ faults' = faults + 1
    /\ abandoned' = IF phase \in {"setup", "serving", "user_stack"} THEN abandoned + 1 ELSE abandoned
    /\ routes' = {r \in routes : r.dev = "phys"} /\ wfp' = {}
    /\ registered' = [f \in {"v4", "v6"} |-> "none"] /\ callbacks' = {}
    /\ UNCHANGED <<os, cfg, pc, starts, failed, rules, filters, metric, recorded, addressed,
                   listeners>>

RunNext ==
    \/ NewStack \/ CreateDevice \/ StartFails \/ AddRoutes \/ SetupStep \/ UserStack \/ Listen
    \/ Teardown \/ RunReturns \/ Close \/ OldDeviceGone \/ Crash

RunSpec == RunInit /\ [][RunNext]_runVars

-----------------------------------------------------------------------------
\* The rules but those of auto_redirect are the system's, and of those every run that
\* was not torn down has left at most one per family: none is this run's own.
RulesRestored ==
    /\ {r \in rules : r.sel # "in_mark" /\ (os = "android" => r.fam = "v4")}
          = {r \in SystemRules : os = "android" => r.fam = "v4"}
    /\ \A f \in {"v4", "v6"} : Cardinality(Marks(rules, f)) <= abandoned

\* Every route of the run to Android's main table was added, and before the host's own.
RoutesPreferred ==
    ~failed /\ \A f \in cfg.fams : TunMetric(f) < metric

\* After a teardown, also one that follows a crash or an abort of an earlier run with the
\* same configuration, none of the policy rules, routes and filters of the run is left,
\* and every rule of the system is; on Linux, macOS and Windows whatever commands failed,
\* on Android, whose routes are deleted without naming a device, the routes only when
\* they were added and come first.  An earlier run that was not torn down may leave one
\* fwmark rule per family behind for good.  Outside are the IPv6 rule of Android, the
\* bypass route of Windows, and runs that have no teardown (aborts, gvisor and mixed).
TeardownRestores ==
    phase = "torn_down" =>
        /\ RulesRestored
        /\ os # "android" =>
              /\ {r \in routes : r.dev = "phys" /\ r.dst # "self"} = Physical({"v4", "v6"})
              /\ ~\E r \in routes : r.dev = "tun" /\ r.dst \in {"all", "excl"}
        /\ os = "android" /\ RoutesPreferred => ~\E r \in routes : r.dev = "tun"
        /\ starts \notin wfp /\ starts \notin callbacks

\* A teardown deletes no route the host had before, of whatever metric; on Android only
\* when set-up could add its routes and the host's do not come first: `ip route del` names
\* no device, and takes the host's route when the TUN's is not there or comes second.
TeardownSparesHost ==
    [][phase = "serving" /\ phase' = "torn_down" /\ (os = "android" => RoutesPreferred)
        => \A r \in routes : r.dev = "phys" /\ r.dst = "default" => r \in routes']_runVars

\* The filters of strict_route on Windows let the process itself and the TUN through, cut
\* off a family without an address, and keep DNS on the TUN.
FiltersAsConfigured ==
    starts \in wfp => \A k \in Connection : Verdict(filters, k) = "permit" <=> Permitted(cfg, k)

\* When set-up had no failure, the kernel sends every packet where the configuration asks:
\* on Linux (without so_mark and auto_redirect) excluded users, interfaces and prefixes
\* around the TUN, the rest into it; what the TUN itself emits comes back only when it is
\* for the TUN's own prefix, or when prefixes are excluded and rule 5 precedes rule 7.  On
\* Windows the filters do it.
TrafficAsConfigured ==
    phase = "serving" /\ ~failed =>
        /\ os = "linux" /\ cfg.mark = "none" =>
              \A p \in Packet : Route(rules, cfg, p) = Wanted(cfg, p)
        /\ FiltersAsConfigured

\* The interface the direct outbound is bound to is never the TUN of this run, so its
\* traffic cannot come back: the search precedes the routes.  On Windows it can be the
\* device of an earlier run that was closed and still has a session.
RegisteredIsPhysical ==
    phase \in {"serving", "user_stack"} =>
        \A f \in {"v4", "v6"} :
            \/ registered[f] \in {"none", "phys"}
            \/ os = "windows" /\ registered[f] = "oldtun"

-----------------------------------------------------------------------------
(* The inductive invariants behind the theorems of TunRunProofs             *)

\* What the proofs ask of the configuration: the priorities of the commands stay below
\* that of the anchor, and all of them below the rule of the system for table main.
PrioritiesFree ==
    /\ \A c \in Config : PrioBase + Len(LinuxCommands(c)) <= NopPrio
    /\ NopPrio < 32766

RunTypeOK ==
    /\ os \in {"linux", "android", "macos", "windows"} /\ cfg \in Configs(os)
    /\ phase \in {"ended", "device", "main_routes", "setup", "serving", "user_stack", "torn_down"}
    /\ pc \in Nat \ {0} /\ abandoned \in Nat /\ metric \in 0 .. 2
    /\ phase \in {"device", "main_routes"} => pc = 1
    /\ phase = "main_routes" => os = "android"

\* Set-up goes through all of its steps before anything is served.
SetupDone ==
    /\ phase = "setup" => pc <= SetupLength + 1
    /\ phase \in {"serving", "user_stack"} => pc = SetupLength + 1

\* The TUN has no route before the first step of set-up, which looks for the interface.
NoRouteYet ==
    phase \in {"ended", "device", "main_routes"} \/ (os # "android" /\ phase = "setup" /\ pc = 1) =>
        \A r \in routes : r.dev # "tun"

BoundOutside ==
    \A f \in {"v4", "v6"} :
        registered[f] \in {"none", "phys"} \/ (os = "windows" /\ registered[f] = "oldtun")

\* A route of the main table is the host's, or of a TUN and of a configured family; the
\* TUN's is there if every command has worked.
AndroidRoutesInv ==
    /\ \A r \in routes : \/ r \in Physical({"v4", "v6"})
                         \/ r.fam \in cfg.fams /\ r.dst = "default" /\ r.dev # "phys" /\ r.gw = "link"
    /\ phase \in {"setup", "serving"} /\ ~failed => \A f \in cfg.fams : TunRoute(f) \in routes

\* What set-up does to the routes is undone by what it recorded and what was configured.
RoutesInv ==
    /\ routes \subseteq
          [fam : {"v4", "v6"}, dst : {"default", "all", "excl", "self"},
           dev : {"phys", "tun", "oldtun"}, gw : {"gateway", "link", "server"}]
    /\ \A r \in routes : r.dst = "excl" => cfg.excl
    /\ os # "android" =>
          {r \in routes : r.dev = "phys" /\ r.dst \notin {"self", "excl"}} = Physical({"v4", "v6"})
    /\ os = "linux" => routes = Physical({"v4", "v6"})
    /\ os = "android" => AndroidRoutesInv
    /\ os # "windows" => wfp = {}
    /\ wfp # {} => filters = StrictSession(cfg)

\* The rules are the system's and those of set-up, this run's or an earlier one's; a rule
\* of auto_redirect has whatever priority the kernel gave it.
LinuxRulesInv ==
    /\ SystemRules \subseteq rules
    /\ \A r \in rules \ SystemRules :
          \/ \E f \in {"v4", "v6"}, n \in Nat : r = [Redirect(f) EXCEPT !.prio = n]
          \/ r.sel # "in_mark" /\ \E i \in 1 .. Len(LinuxSetup(cfg)) : r = LinuxSetup(cfg)[i].rule

\* This run has added its fwmark rule of the family, or has tried to.
Redirected(f) ==
    /\ phase \in {"setup", "serving", "user_stack"}
    /\ \E i \in 1 .. pc - 1 : LinuxSetup(cfg)[i].rule = Redirect(f)

\* Every run adds one fwmark rule per family at most.
MarksInv ==
    \A f \in {"v4", "v6"} :
        /\ IsFiniteSet(Marks(rules, f))
        /\ Cardinality(Marks(rules, f)) <= abandoned + (IF Redirected(f) THEN 1 ELSE 0)

\* What the steps so far have pushed is in rule_priorities, and nothing else.
LinuxRecordedInv ==
    /\ recorded \in Seq({0} \cup PrioBase .. NopPrio)
    /\ phase \in {"setup", "serving"} =>
          \A j \in 1 .. pc - 1 : \A k \in DOMAIN LinuxSetup(cfg)[j].push :
              \E i \in DOMAIN recorded : recorded[i] = LinuxSetup(cfg)[j].push[k]

\* A set-up without a failure has left out none of its rules.
InstalledInv ==
    os = "linux" /\ cfg.mark # "redirect" /\ phase \in {"setup", "serving"} /\ ~failed =>
        \A i \in 1 .. pc - 1 : LinuxSetup(cfg)[i].rule \in rules

AndroidRulesInv ==
    /\ SystemRules \subseteq rules
    /\ \A r \in rules \ SystemRules :
          \E i \in 1 .. Len(AndroidSetup(cfg)) : r = AndroidSetup(cfg)[i].rule

\* Android counts the rules only.
AndroidRecordedInv ==
    /\ recorded \in Seq({PrioBase})
    /\ phase \in {"device", "main_routes", "setup", "serving"} =>
          Len(recorded) = Cardinality({j \in 1 .. pc - 1 : AndroidSetup(cfg)[j].push # <<>>})

RulesInv ==
    CASE os = "linux" -> LinuxRulesInv /\ MarksInv /\ LinuxRecordedInv
      [] os = "android" -> AndroidRulesInv /\ AndroidRecordedInv
      [] OTHER -> rules = SystemRules

RunInv ==
    /\ RunTypeOK /\ SetupDone /\ NoRouteYet /\ BoundOutside /\ RoutesInv /\ RulesInv
    /\ TeardownRestores
=============================================================================
