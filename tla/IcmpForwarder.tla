---------------------------- MODULE IcmpForwarder ----------------------------
(***************************************************************************)
(* The ICMP forwarder (icmp_forwarder.rs): a table of flows, one per       *)
(* (source, destination, identifier), each with a bounded queue to a task  *)
(* that owns a socket.  The TUN loop looks a flow up under the lock and    *)
(* sends on a clone of its sender after releasing it; a GC task drops idle *)
(* flows; a flow task ends when its socket fails or its last sender goes.  *)
(*                                                                         *)
(* Sockets and hosts are external: a ping (DGRAM) socket answers with an   *)
(* identifier of its own, a raw socket sees every echo reply of its host.  *)
(***************************************************************************)
EXTENDS Naturals

CONSTANTS
    FlowKey,             \* records [src, dst, icmp_id]
    ICMP_SEND_QUEUE,     \* capacity of a flow's queue
    ICMP_FLOW_TIMEOUT,   \* in ticks of the clock
    MaxFlows,            \* bound: flow tasks that are ever spawned
    MaxEchos             \* bound: echo requests

ASSUME IcmpAssumption ==
    /\ FlowKey # {}
    /\ ICMP_SEND_QUEUE \in Nat \ {0} /\ ICMP_FLOW_TIMEOUT \in Nat \ {0}
    /\ MaxFlows \in Nat /\ MaxEchos \in Nat

VARIABLES
    flows,               \* the table: flow key -> its task, or NoTask
    idle,                \* flow key -> time since last_seen
    task,                \* task -> where flow_task is
    keyOf, queue,        \* task -> its key, and the requests in send_rx
    forwarding,          \* the clone of send_tx that handle_packet holds
    asked,               \* tasks whose requests have reached their host
    answered,            \* the addresses of the replies written to the TUN
    echos                \* echo requests so far

icmpVars == <<flows, idle, task, keyOf, queue, forwarding, asked, answered, echos>>

NoTask == 0
Task == 1 .. MaxFlows

IcmpInit ==
    /\ flows = [k \in FlowKey |-> NoTask]
    /\ idle = [k \in FlowKey |-> 0]
    /\ task = [t \in Task |-> "unborn"]
    /\ keyOf \in [Task -> {CHOOSE k \in FlowKey : TRUE}]
    /\ queue = [t \in Task |-> 0]
    /\ forwarding = NoTask
    /\ asked = {} /\ answered = {}
    /\ echos = 0

Alive(t) == task[t] \in {"opening", "dgram", "raw"}

-----------------------------------------------------------------------------
\* forward, with the lock: find or make the flow, refresh it, clone its sender.
Forward(k) ==
    /\ forwarding = NoTask /\ echos < MaxEchos
    /\ echos' = echos + 1
    /\ idle' = [idle EXCEPT ![k] = 0]
    /\ \/ /\ flows[k] # NoTask
          /\ forwarding' = flows[k]
          /\ UNCHANGED <<flows, task, keyOf>>
       \/ /\ flows[k] = NoTask
          /\ \E t \in Task :
              /\ task[t] = "unborn" /\ \A u \in 1 .. t - 1 : task[u] # "unborn"
              /\ flows' = [flows EXCEPT ![k] = t]
              /\ task' = [task EXCEPT ![t] = "opening"]
              /\ keyOf' = [keyOf EXCEPT ![t] = k]
              /\ forwarding' = t
    /\ UNCHANGED <<queue, asked, answered>>

\* try_send without the lock: into a queue with room whose task lives, or nowhere.
ForwardSend ==
    /\ forwarding # NoTask
    /\ queue' = IF Alive(forwarding) /\ queue[forwarding] < ICMP_SEND_QUEUE
                THEN [queue EXCEPT ![forwarding] = @ + 1]
                ELSE queue
    /\ forwarding' = NoTask
    /\ UNCHANGED <<flows, idle, task, keyOf, asked, answered, echos>>

\* spawn_gc: idle flows leave the table.
IcmpGc ==
    /\ \E k \in FlowKey : flows[k] # NoTask /\ idle[k] >= ICMP_FLOW_TIMEOUT
    /\ flows' = [k \in FlowKey |-> IF idle[k] < ICMP_FLOW_TIMEOUT THEN flows[k] ELSE NoTask]
    /\ UNCHANGED <<idle, task, keyOf, queue, forwarding, asked, answered, echos>>

IcmpTick ==
    /\ \E k \in FlowKey : flows[k] # NoTask /\ idle[k] < ICMP_FLOW_TIMEOUT
    /\ idle' = [k \in FlowKey |->
                 IF idle[k] < ICMP_FLOW_TIMEOUT THEN idle[k] + 1 ELSE idle[k]]
    /\ UNCHANGED <<flows, task, keyOf, queue, forwarding, asked, answered, echos>>

-----------------------------------------------------------------------------
(* flow_task                                                                *)

\* Without a socket the task is gone; the flow stays in the table.
OpenIcmpSocket(t) ==
    /\ task[t] = "opening"
    /\ \E s \in {"dgram", "raw", "failed"} : task' = [task EXCEPT ![t] = s]
    /\ queue' = IF task'[t] = "failed" THEN [queue EXCEPT ![t] = 0] ELSE queue
    /\ UNCHANGED <<flows, idle, keyOf, forwarding, asked, answered, echos>>

\* A request of the queue goes to the host; errors of send are ignored.
SendRequest(t) ==
    /\ task[t] \in {"dgram", "raw"} /\ queue[t] > 0
    /\ queue' = [queue EXCEPT ![t] = @ - 1]
    /\ \/ asked' = asked \cup {t}
       \/ UNCHANGED asked
    /\ UNCHANGED <<flows, idle, task, keyOf, forwarding, answered, echos>>

\* Only the table keeps a flow alive.
HasEntry(t) == flows[keyOf[t]] = t

HasIcmpSender(t) == flows[keyOf[t]] = t \/ forwarding = t

\* The task stays when its flow has left the table.
FlowNeverEnds(t) == FALSE /\ UNCHANGED icmpVars

\* recv() = None: the queue is empty and nobody can fill it any more.
FlowEnds(t) ==
    /\ task[t] \in {"dgram", "raw"} /\ queue[t] = 0 /\ ~HasIcmpSender(t)
    /\ task' = [task EXCEPT ![t] = "closed"]
    /\ UNCHANGED <<flows, idle, keyOf, queue, forwarding, asked, answered, echos>>

\* What the host sends to the socket of t: replies to t's own requests and, to a raw
\* socket, those to every flow with this host.
Hears(t) == \E u \in asked : u = t \/ (task[t] = "raw" /\ keyOf[u].dst = keyOf[t].dst)

\* The addresses of the request, as they were.
EchoReplyUnswapped(k) == [to |-> k.dst, from |-> k.src]

\* build_echo_reply_packet: the addresses are the flow's, exchanged; everything behind
\* them, the identifier too, is what the socket delivered.
EchoReply(k) == [to |-> k.src, from |-> k.dst]

WriteReply(t) ==
    /\ task[t] \in {"dgram", "raw"} /\ Hears(t)
    /\ answered' = answered \cup {EchoReply(keyOf[t])}
    /\ UNCHANGED <<flows, idle, task, keyOf, queue, forwarding, asked, echos>>

\* An error of the socket ends the task; the flow stays in the table.
ReceiveError(t) ==
    /\ task[t] \in {"dgram", "raw"}
    /\ task' = [task EXCEPT ![t] = "failed"]
    /\ queue' = [queue EXCEPT ![t] = 0]
    /\ UNCHANGED <<flows, idle, keyOf, forwarding, asked, answered, echos>>

FlowTask(t) == OpenIcmpSocket(t) \/ SendRequest(t) \/ FlowEnds(t) \/ WriteReply(t)

IcmpNext ==
    \/ \E k \in FlowKey : Forward(k)
    \/ ForwardSend \/ IcmpGc \/ IcmpTick
    \/ \E t \in Task : FlowTask(t) \/ ReceiveError(t)

-----------------------------------------------------------------------------
\* The TUN loop sends on a clone of a sender it took before it gave the lock back.
\* Whatever the GC removes in between, the task is still there to take the request:
\* a request is lost to a full queue or a failed socket, never to the GC.
GcLosesNoRequest == forwarding # NoTask => task[forwarding] # "closed"

\* A reply goes from a host to a client that has asked that host, also when a raw
\* socket has seen the replies of other flows.
RepliesGoToAskers ==
    \A a \in answered : \E t \in Task :
        /\ task[t] # "unborn" /\ keyOf[t].src = a.to /\ keyOf[t].dst = a.from

\* Once nobody pings any more every flow leaves the table and every task ends: GC,
\* the senders that go with the entries, and the end of the queue leave no task and no
\* socket behind.
FlowsEnd ==
    <>[](/\ \A k \in FlowKey : flows[k] = NoTask
         /\ \A t \in Task : ~Alive(t))

-----------------------------------------------------------------------------
(* The inductive invariant behind the theorems of DeviceTasksProofs         *)

IcmpTypeOK ==
    /\ flows \in [FlowKey -> Task \cup {NoTask}]
    /\ task \in [Task -> {"unborn", "opening", "dgram", "raw", "failed", "closed"}]
    /\ keyOf \in [Task -> FlowKey]
    /\ forwarding \in Task \cup {NoTask}

\* Born, and not ended for want of senders.
Kept(t) == task[t] \notin {"unborn", "closed"}

\* A task has at most one entry, that of its key, and neither an entry nor the clone of
\* a sender outlives its task: this is what HasIcmpSender relies on.
IcmpInv ==
    /\ IcmpTypeOK
    /\ \A k \in FlowKey : flows[k] # NoTask => keyOf[flows[k]] = k /\ Kept(flows[k])
    /\ forwarding # NoTask => Kept(forwarding)
    /\ RepliesGoToAskers
=============================================================================
