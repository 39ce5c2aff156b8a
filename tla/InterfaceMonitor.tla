--------------------------- MODULE InterfaceMonitor ---------------------------
(***************************************************************************)
(* The interface monitor (interface_monitor.rs): a process-wide registry   *)
(* of callbacks and one task that is started by the first registration.    *)
(* The task compares scans of the interfaces and announces differences.    *)
(* Netlink events trigger a scan at most once per DEBOUNCE, a poll every   *)
(* five seconds is the safety net.  The registry is locked for register,   *)
(* unregister and the announcement, not for the scan before it.            *)
(***************************************************************************)
EXTENDS Naturals

CONSTANTS
    Iface,               \* interface names
    MaxRegs,             \* bound: calls of register
    MaxChanges           \* bound: changes of the interfaces

ASSUME MonitorAssumption == MaxRegs \in Nat /\ MaxChanges \in Nat

VARIABLES
    sys,                 \* the interfaces as the kernel has them
    netlink,             \* the subscription: Active or None
    messages,            \* netlink messages the task has not drained
    callbacks, next_id,  \* the registry
    task_running,
    monitor,             \* the task: off, starting, waiting, notifying, ended
    last_events,         \* the last scan announced
    changed,             \* the events still to be announced
    pending, debouncing, \* an event waits; next_emit lies in the future
    view,                \* callback -> the interfaces as the scan at its registration,
                         \* or the first one, and the events since then have them
    changes

monitorVars == <<sys, netlink, messages, callbacks, next_id, task_running, monitor,
                 last_events, changed, pending, debouncing, view, changes>>

\* Gone, down, up, and up with other addresses or another MTU.
State == {"gone", "down", "up", "other"}

\* What an event about an interface says: a removed one is announced as down.
Announced(s) == IF s = "gone" THEN "down" ELSE s

Known(scan) == [i \in Iface |-> Announced(scan[i])]

MonitorInit ==
    /\ sys \in [Iface -> {"gone", "up"}]
    /\ netlink = "None" /\ messages = FALSE
    /\ callbacks = {} /\ next_id = 0 /\ task_running = FALSE
    /\ monitor = "off" /\ last_events = sys /\ changed = {}
    /\ pending = FALSE /\ debouncing = FALSE
    /\ view = [c \in 0 .. MaxRegs - 1 |-> Known(sys)]
    /\ changes = 0

-----------------------------------------------------------------------------
\* The kernel.  A change is a netlink message, which may be lost.
Change ==
    /\ changes < MaxChanges /\ changes' = changes + 1
    /\ \E i \in Iface, s \in State : s # sys[i] /\ sys' = [sys EXCEPT ![i] = s]
    /\ \/ messages' = (netlink = "Active")
       \/ UNCHANGED messages
    /\ UNCHANGED <<netlink, callbacks, next_id, task_running, monitor, last_events, changed,
                   pending, debouncing, view>>

\* register.  The first one spawns the task.
Register ==
    /\ next_id < MaxRegs
    /\ next_id' = next_id + 1
    /\ callbacks' = callbacks \cup {next_id}
    /\ task_running' = TRUE
    /\ monitor' = IF task_running THEN monitor ELSE "starting"
    /\ view' = [view EXCEPT ![next_id] = Known(last_events)]
    /\ UNCHANGED <<sys, netlink, messages, last_events, changed, pending, debouncing, changes>>

\* monitor_task subscribes, or falls back to polling, and scans once.
StartTask ==
    /\ monitor = "starting" /\ monitor' = "waiting"
    /\ netlink' \in {"Active", "None"}
    /\ last_events' = sys
    /\ view' = [c \in DOMAIN view |-> Known(sys)]
    /\ UNCHANGED <<sys, messages, callbacks, next_id, task_running, changed, pending,
                   debouncing, changes>>

Unregister ==
    /\ \E id \in callbacks : callbacks' = callbacks \ {id}
    /\ UNCHANGED <<sys, netlink, messages, next_id, task_running, monitor, last_events,
                   changed, pending, debouncing, view, changes>>

\* diff_events without the loop over the old events: removals go unnoticed.
DiffWithoutRemoved(old, new) ==
    {[name |-> i, says |-> Announced(new[i])] : i \in {j \in Iface : new[j] \notin {old[j], "gone"}}}

\* diff_events: new interfaces, changed ones, and removed ones announced as down.
DiffEvents(old, new) ==
    {[name |-> i, says |-> Announced(new[i])] : i \in {j \in Iface : new[j] # old[j]}}

\* rescan_and_notify, up to the wait for the registry.
Rescan ==
    LET diff == DiffEvents(last_events, sys) IN
    IF diff = {}
    THEN UNCHANGED <<monitor, last_events, changed>>
    ELSE monitor' = "notifying" /\ last_events' = sys /\ changed' = diff

\* poll.tick()
Poll ==
    /\ monitor = "waiting"
    /\ Rescan
    /\ pending' = FALSE
    /\ UNCHANGED <<sys, netlink, messages, callbacks, next_id, task_running, debouncing, view,
                   changes>>

\* wait_events drains the socket; within the debounce interval the scan is put off.
NetlinkEvent ==
    /\ monitor = "waiting" /\ messages
    /\ messages' = FALSE
    /\ IF debouncing
       THEN pending' = TRUE /\ UNCHANGED <<debouncing, monitor, last_events, changed>>
       ELSE debouncing' = TRUE /\ pending' = FALSE /\ Rescan
    /\ UNCHANGED <<sys, netlink, callbacks, next_id, task_running, view, changes>>

\* sleep_until(next_emit), if pending
Debounced ==
    /\ monitor = "waiting" /\ pending /\ ~debouncing
    /\ Rescan
    /\ pending' = FALSE /\ debouncing' = TRUE
    /\ UNCHANGED <<sys, netlink, messages, callbacks, next_id, task_running, view, changes>>

NextEmitPasses ==
    /\ debouncing /\ debouncing' = FALSE
    /\ UNCHANGED <<sys, netlink, messages, callbacks, next_id, task_running, monitor,
                   last_events, changed, pending, view, changes>>

\* The registry is free: every callback gets every event.
Notify ==
    /\ monitor = "notifying"
    /\ view' = [c \in DOMAIN view |->
                 IF c \notin callbacks THEN view[c]
                 ELSE [i \in Iface |->
                        IF \E e \in changed : e.name = i
                        THEN (CHOOSE e \in changed : e.name = i).says
                        ELSE view[c][i]]]
    /\ changed' = {} /\ monitor' = "waiting"
    /\ UNCHANGED <<sys, netlink, messages, callbacks, next_id, task_running, last_events,
                   pending, debouncing, changes>>

\* The runtime that ran the task is shut down: task_running stays set.
RuntimeDropped ==
    /\ monitor \in {"starting", "waiting", "notifying"}
    /\ monitor' = "ended"
    /\ UNCHANGED <<sys, netlink, messages, callbacks, next_id, task_running, last_events,
                   changed, pending, debouncing, view, changes>>

MonitorNext ==
    \/ Change \/ Register \/ StartTask \/ Unregister \/ Poll \/ NetlinkEvent
    \/ Debounced \/ NextEmitPasses \/ Notify \/ RuntimeDropped

-----------------------------------------------------------------------------
\* Whatever happens between a scan, the wait for the registry and the announcement,
\* with or without netlink: once the interfaces stop changing, every callback that is
\* registered has been told the state they are in, unless the runtime of the monitor
\* task is gone.
CallbacksConverge ==
    <>[](monitor = "ended" \/ \A c \in callbacks : view[c] = Known(sys))

-----------------------------------------------------------------------------
(* The safety half of CallbacksConverge, and the invariant behind its proof *)

\* Between two announcements every callback has been told the last scan, also one that
\* was registered between the scan and its announcement.
CallbacksKnowTheScan ==
    monitor = "waiting" => \A c \in callbacks : view[c] = Known(last_events)

\* What a callback with view v will know when the events have been announced.
Told(v, events) ==
    [i \in Iface |-> IF \E e \in events : e.name = i
                     THEN (CHOOSE e \in events : e.name = i).says
                     ELSE v[i]]

MonitorTypeOK ==
    /\ sys \in [Iface -> State] /\ last_events \in [Iface -> State]
    /\ monitor \in {"off", "starting", "waiting", "notifying", "ended"}
    /\ next_id \in 0 .. MaxRegs /\ callbacks \subseteq 0 .. MaxRegs - 1
    /\ view \in [0 .. MaxRegs - 1 -> [Iface -> {"down", "up", "other"}]]

MonitorInv ==
    /\ MonitorTypeOK
    /\ monitor = "off" <=> ~task_running
    /\ monitor \in {"off", "starting", "waiting"} => changed = {}
    /\ \A e \in changed : e.name \in Iface /\ e.says = Announced(last_events[e.name])
    /\ monitor # "ended" => \A c \in callbacks : Told(view[c], changed) = Known(last_events)
=============================================================================
