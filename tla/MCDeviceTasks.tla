---------------------------- MODULE MCDeviceTasks ----------------------------
(***************************************************************************)
(* The parts of the device side that share no state: the two halves of the *)
(* TUN device, the GRO that the writer's batches go through, the ICMP      *)
(* forwarder and the interface monitor.  Interleaving them would add       *)
(* nothing but states, so a behaviour is one of `part`.                    *)
(***************************************************************************)
EXTENDS NativeTun, GroTable, IcmpForwarder, InterfaceMonitor

VARIABLE part

MCFlowKey == {[src |-> c, dst |-> "host", icmp_id |-> 1] : c \in {"c1", "c2"}}

Tcp(seq, len, psh, csum, hdr) ==
    [proto |-> "tcp", flow |-> 1, hdr |-> hdr, seq |-> seq, psh |-> psh, csum |-> csum,
     data |-> [i \in 1 .. len |-> (seq + i - 1) % SeqSpace]]
Udp(tag, len, csum) ==
    [proto |-> "udp", flow |-> 1, hdr |-> 1, seq |-> 0, psh |-> FALSE, csum |-> csum,
     data |-> [i \in 1 .. len |-> <<tag, i>>]]

\* Segments around the wrap of the sequence numbers, some with PSH; a bad checksum, other
\* options, a bare ACK; datagrams of two lengths, one empty.
MCPackets ==
    {Tcp(s, l, FALSE, TRUE, 1) : s \in {6, 7, 0, 2}, l \in {1, 2}}
    \cup {Tcp(0, 1, TRUE, TRUE, 1), Tcp(6, 2, TRUE, TRUE, 1), Tcp(0, 1, FALSE, FALSE, 1),
          Tcp(0, 2, FALSE, TRUE, 2), Tcp(0, 0, FALSE, TRUE, 1)}
    \cup {Udp("a", 2, TRUE), Udp("b", 1, TRUE), Udp("c", 2, FALSE), Udp("d", 0, TRUE)}

vars == <<part, readerVars, writerVars, groVars, icmpVars, monitorVars>>

Init ==
    /\ part \in {"reader", "writer", "gro", "icmp", "monitor"}
    /\ ReaderInit /\ WriterInit /\ GroInit /\ IcmpInit /\ MonitorInit
    /\ part # "reader" => batch = 1
    /\ part # "gro" => roomy
    /\ part # "monitor" => \A i \in Iface : sys[i] = "gone"

Others(p) ==
    /\ UNCHANGED part
    /\ p # "reader" => UNCHANGED readerVars
    /\ p # "writer" => UNCHANGED writerVars
    /\ p # "gro" => UNCHANGED groVars
    /\ p # "icmp" => UNCHANGED icmpVars
    /\ p # "monitor" => UNCHANGED monitorVars

Next ==
    \/ part = "reader" /\ ReaderNext /\ Others(part)
    \/ part = "writer" /\ WriterNext /\ Others(part)
    \/ part = "gro" /\ GroNext /\ Others(part)
    \/ part = "icmp" /\ IcmpNext /\ Others(part)
    \/ part = "monitor" /\ MonitorNext /\ Others(part)

Icmp(A) == part = "icmp" /\ A /\ Others(part)
Monitor(A) == part = "monitor" /\ A /\ Others(part)

\* Tokio runs every task that is ready, the timers fire, and try_send returns.
Fairness ==
    /\ WF_vars(Icmp(IcmpGc)) /\ WF_vars(Icmp(IcmpTick)) /\ WF_vars(Icmp(ForwardSend))
    /\ \A t \in Task : /\ WF_vars(Icmp(OpenIcmpSocket(t)))
                       /\ WF_vars(Icmp(SendRequest(t)))
                       /\ WF_vars(Icmp(FlowEnds(t)))
    /\ WF_vars(Monitor(StartTask)) /\ WF_vars(Monitor(Poll)) /\ WF_vars(Monitor(Notify))

Spec == Init /\ [][Next]_vars /\ Fairness
=============================================================================
