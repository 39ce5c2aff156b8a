----------------------------- MODULE GvisorStack -----------------------------
(***************************************************************************)
(* run_gvisor and run_mixed (gvisor.rs) with the demultiplexer             *)
(* (netstack/stack.rs) and the UDP socket (netstack/udp_socket.rs) they    *)
(* drive.  run_gvisor has a reader, a writer, a TCP and a UDP task and     *)
(* returns when one of them ends; the others go on.  run_mixed reads the   *)
(* device itself, has accept loops for TCP (SystemTcp is what they do) and *)
(* returns when every task has ended.  The smoltcp side of TCP is          *)
(* NetstackListener and NetstackStream, ICMP is IcmpForwarder.             *)
(***************************************************************************)
EXTENDS Naturals, Sequences

CONSTANTS
    MaxReads             \* bound: packets read and streams accepted

ASSUME GvisorAssumption == MaxReads \in Nat

VARIABLES
    mode,                \* gvisor, mixed
    phase,               \* start, up, returned
    device,              \* open, closed
    reader,              \* read, send, ended
    reading,             \* the packet given to stack_sink
    packet_container,    \* <<>>, or the packet the sink could not pass on
    udp_inbound,         \* datagrams for the UDP socket
    udp_dispatch,        \* recv, hijack, resolve, session, send, ended
    datagram,            \* the datagram being dispatched
    udp_sessions,        \* reply channels: [key, table, held]
    tcp_dispatch,        \* accept, ended
    accept_loops,        \* those of run_mixed that run
    bridge,              \* the directions of a bridged connection that still copy
    stack_writer,        \* run, ended
    outbound,            \* a packet waits in the stack's outbound channels
    dns_tx, udp_tx, tcp_tx, \* open, closed; dns_tx also none (no hijack, or no resolver)
    reads, entered, served    \* history

taskVars == <<reader, reading, udp_dispatch, datagram, tcp_dispatch, accept_loops, stack_writer>>
dataVars == <<packet_container, udp_inbound, udp_sessions, bridge, outbound>>
handlerVars == <<dns_tx, udp_tx, tcp_tx>>
countVars == <<reads, entered, served>>
gvisorVars == <<mode, phase, device, taskVars, dataVars, handlerVars, countVars>>

\* What read_packet returns, by what the code tells apart.  A datagram is for port 53 or
\* not, and UdpPacket::new_checked takes it or not: the tail of a fragmented datagram is
\* one it does not take.
Datagrams == [kind : {"udp"}, dns : BOOLEAN, ok : BOOLEAN]
Packets == Datagrams \cup [kind : {"tcp", "icmp", "other", "local", "malformed"}]

GvisorInit ==
    /\ mode \in {"gvisor", "mixed"} /\ phase = "start" /\ device = "open"
    /\ reader = "read" /\ reading = <<>> /\ packet_container = <<>> /\ udp_inbound = <<>>
    /\ udp_dispatch = "recv" /\ datagram = <<>> /\ udp_sessions = {}
    /\ tcp_dispatch = IF mode = "gvisor" THEN "accept" ELSE "ended"
    /\ accept_loops = {} /\ bridge = {} /\ stack_writer = "run" /\ outbound = FALSE
    /\ dns_tx \in {"none", "open"} /\ udp_tx = "open" /\ tcp_tx = "open"
    /\ reads = 0 /\ entered = 0 /\ served = 0

\* The listeners of run_mixed: without IPv4 it fails, without IPv6 it goes on.
Bind ==
    /\ phase = "start"
    /\ \/ mode = "gvisor" /\ phase' = "up" /\ UNCHANGED accept_loops
       \/ mode = "mixed" /\ phase' = "up" /\ accept_loops' \in {{"v4"}, {"v4", "v6"}}
       \/ mode = "mixed" /\ phase' = "returned" /\ UNCHANGED accept_loops
    /\ UNCHANGED <<mode, device, reader, reading, udp_dispatch, datagram, tcp_dispatch,
                   stack_writer, dataVars, handlerVars, countVars>>

\* The futures of the task run; run_gvisor's are tasks and outlive it.
Runs == phase = "up" \/ (phase = "returned" /\ mode = "gvisor")

-----------------------------------------------------------------------------
(* The device reader and the sink *)

\* What goes into the stack.  LAN traffic is left alone.  In gvisor mode the ICMP
\* forwarder takes the echo requests; in mixed mode TCP goes to the NAT, ICMP is answered,
\* and only UDP reaches the sink.
ToStack(p) == p.kind # "local" /\ (mode = "mixed" => p.kind \in {"udp", "malformed"})

ReadPacket ==
    /\ Runs /\ reader = "read" /\ device = "open" /\ reads < MaxReads /\ reads' = reads + 1
    /\ \E p \in Packets :
          IF ToStack(p) THEN reader' = "send" /\ reading' = p
          ELSE UNCHANGED <<reader, reading>>
    /\ UNCHANGED <<mode, phase, device, udp_dispatch, datagram, tcp_dispatch, accept_loops,
                   stack_writer, dataVars, handlerVars, entered, served>>

\* The TcpListener, dropped with the task or the function that holds it.
ListenerAlive == IF mode = "gvisor" THEN tcp_dispatch # "ended" ELSE phase # "returned"

\* poll_ready, start_send, poll_flush.  A packet that is no IP packet is an error, and so
\* is TCP without a listener.  A datagram without a socket stays in packet_container, and
\* poll_ready is pending from then on.
SinkSend ==
    /\ Runs /\ reader = "send" /\ packet_container = <<>>
    /\ LET udp == reading.kind = "udp"
           alive == udp_dispatch # "ended"
           fails == reading.kind = "malformed"
                    \/ (reading.kind \in {"tcp", "icmp"} /\ ~ListenerAlive)
       IN  /\ reader' = IF fails THEN "ended" ELSE "read"
           /\ udp_inbound' = IF udp /\ alive THEN Append(udp_inbound, reading) ELSE udp_inbound
           /\ packet_container' = IF udp /\ ~alive THEN reading ELSE <<>>
           /\ entered' = IF udp /\ alive THEN entered + 1 ELSE entered
    /\ reading' = <<>>
    /\ UNCHANGED <<mode, phase, device, udp_dispatch, datagram, tcp_dispatch, accept_loops,
                   stack_writer, udp_sessions, bridge, outbound, handlerVars, reads,
                   served>>

DeviceCloses ==
    /\ device = "open" /\ device' = "closed"
    /\ UNCHANGED <<mode, phase, taskVars, dataVars, handlerVars, countVars>>

\* UnexpectedEof.
ReaderEof ==
    /\ Runs /\ reader = "read" /\ device = "closed" /\ reader' = "ended"
    /\ UNCHANGED <<mode, phase, device, reading, udp_dispatch, datagram, tcp_dispatch,
                   accept_loops, stack_writer, dataVars, handlerVars, countVars>>

-----------------------------------------------------------------------------
(* The UDP dispatch *)

DispatchRest == <<mode, phase, device, reader, reading, tcp_dispatch, accept_loops, stack_writer,
                  packet_container, bridge, outbound, handlerVars, reads, entered>>

\* The sink is dropped with its task, or when run_mixed returns.
SinkDropped == IF mode = "gvisor" THEN reader = "ended" ELSE phase = "returned"

\* SplitRead::recv: None for a datagram it cannot parse, which ends the loop.
Recv ==
    /\ phase # "start" /\ udp_dispatch = "recv"
    /\ \/ /\ udp_inbound # <<>> /\ udp_inbound' = Tail(udp_inbound)
          /\ IF Head(udp_inbound).ok
             THEN udp_dispatch' = "hijack" /\ datagram' = Head(udp_inbound)
             ELSE udp_dispatch' = "ended" /\ UNCHANGED datagram
       \/ /\ udp_inbound = <<>> /\ SinkDropped /\ udp_dispatch' = "ended"
          /\ UNCHANGED <<udp_inbound, datagram>>
    /\ UNCHANGED <<DispatchRest, udp_sessions, served>>

\* Hijack that goes on with the next datagram when the resolver is gone.
HijackOnly ==
    /\ udp_dispatch = "hijack"
    /\ udp_dispatch' = CASE datagram.dns /\ dns_tx = "open" -> "resolve"
                         [] datagram.dns /\ dns_tx = "closed" -> "recv"
                         [] OTHER -> "session"
    /\ UNCHANGED <<DispatchRest, udp_inbound, datagram, udp_sessions, served>>

\* Port 53 goes to the resolver; without one it is a datagram like any other.
Hijack ==
    /\ udp_dispatch = "hijack"
    /\ udp_dispatch' = IF datagram.dns /\ dns_tx = "open" THEN "resolve" ELSE "session"
    /\ UNCHANGED <<DispatchRest, udp_inbound, datagram, udp_sessions, served>>

\* The resolver answers, and the answer is written, or it drops the query.  The loop waits.
Resolved ==
    /\ udp_dispatch = "resolve" /\ udp_dispatch' = "recv" /\ served' = served + 1
    /\ UNCHANGED <<DispatchRest, udp_inbound, datagram, udp_sessions>>

\* A flow is told apart by its destination port alone.
Key(d) == IF d.dns THEN "dns" ELSE "data"

\* or_insert_with, and last_seen.  A new entry has a reply task of its own, even when a
\* handler still has the channel of an entry that was collected.
Session ==
    /\ udp_dispatch = "session" /\ udp_dispatch' = "send"
    /\ LET mine == {s \in udp_sessions : s.table /\ s.key = Key(datagram)}
       IN  udp_sessions' = (udp_sessions \ mine)
             \cup {[key |-> Key(datagram), table |-> TRUE,
                    held |-> \E s \in mine : s.held]}
    /\ UNCHANGED <<DispatchRest, udp_inbound, datagram, served>>

\* udp_tx.send: the handler has the datagram and a sender of the session.
Send ==
    /\ udp_dispatch = "send"
    /\ IF udp_tx = "closed"
       THEN udp_dispatch' = "ended" /\ UNCHANGED <<udp_sessions, served>>
       ELSE /\ udp_dispatch' = "recv" /\ served' = served + 1
            /\ udp_sessions' = {IF s.table /\ s.key = Key(datagram)
                                THEN [s EXCEPT !.held = TRUE] ELSE s : s \in udp_sessions}
    /\ UNCHANGED <<DispatchRest, udp_inbound, datagram>>

SessionRest == <<mode, phase, device, taskVars, packet_container, udp_inbound, bridge, outbound,
                 handlerVars, reads, entered, served>>

\* A channel lives while the table or a handler has a sender; then the reply task ends.
Living(ss) == {s \in ss : s.table \/ s.held}

\* The GC finds entries that saw no datagram for NETSTACK_UDP_TIMEOUT.
SessionGc ==
    /\ \E old \in SUBSET {s \in udp_sessions : s.table} :
          /\ old # {}
          /\ udp_sessions' = Living((udp_sessions \ old) \cup {[s EXCEPT !.table = FALSE] : s \in old})
    /\ UNCHANGED SessionRest

\* A handler is done with its flow.
HandlerDrops ==
    /\ \E s \in udp_sessions :
          s.held /\ udp_sessions' = Living((udp_sessions \ {s}) \cup {[s EXCEPT !.held = FALSE]})
    /\ UNCHANGED SessionRest

\* The receivers go away: the resolver's, or the engine's for TCP and UDP.
HandlersClose ==
    /\ \/ dns_tx = "open" /\ dns_tx' = "closed" /\ UNCHANGED <<udp_tx, tcp_tx>>
       \/ udp_tx = "open" /\ udp_tx' = "closed" /\ tcp_tx' = "closed" /\ UNCHANGED dns_tx
    /\ UNCHANGED <<mode, phase, device, taskVars, dataVars, countVars>>

-----------------------------------------------------------------------------
(* TCP and the writer *)

TcpRest == <<mode, phase, device, reader, reading, udp_dispatch, datagram, packet_container,
             udp_inbound, udp_sessions, handlerVars, countVars>>

\* tcp_dispatch has a stream: a pair of local sockets, a copy task and tcp_tx.
AcceptStream ==
    /\ phase # "start" /\ tcp_dispatch = "accept" /\ bridge = {}
    /\ reads < MaxReads /\ reads' = reads + 1
    /\ bridge' = {"c2s", "s2c"}
    /\ tcp_dispatch' = IF tcp_tx = "closed" THEN "ended" ELSE "accept"
    /\ UNCHANGED <<mode, phase, device, reader, reading, udp_dispatch, datagram,
                   packet_container, udp_inbound, udp_sessions, handlerVars, entered,
                   served, accept_loops, stack_writer, outbound>>

\* One direction's copy ends; the bridge is closed when neither is left.
CopyEnds ==
    /\ \E d \in bridge : bridge' = bridge \ {d}
    /\ UNCHANGED <<TcpRest, accept_loops, tcp_dispatch, stack_writer, outbound>>

\* accept_loop has a connection and tcp_tx is closed.
AcceptEnds ==
    /\ tcp_tx = "closed"
    /\ \E l \in accept_loops : accept_loops' = accept_loops \ {l}
    /\ UNCHANGED <<TcpRest, tcp_dispatch, bridge, stack_writer, outbound>>

\* smoltcp has a packet for the TUN.
StackEmits ==
    /\ phase # "start" /\ ListenerAlive /\ ~outbound /\ outbound' = TRUE
    /\ UNCHANGED <<TcpRest, accept_loops, tcp_dispatch, bridge, stack_writer>>

\* stack_writer: a write fails when the device is gone, or for a reason of its own.  The
\* stream ends when the listener and the UDP writer, which the function holds, are dropped.
WriteOut ==
    /\ phase # "start" /\ stack_writer = "run"
    /\ \/ outbound /\ device = "open" /\ outbound' = FALSE /\ UNCHANGED stack_writer
       \/ outbound /\ stack_writer' = "ended" /\ outbound' = FALSE
       \/ ~outbound /\ ~ListenerAlive /\ phase = "returned"
          /\ stack_writer' = "ended" /\ UNCHANGED outbound
    /\ UNCHANGED <<TcpRest, accept_loops, tcp_dispatch, bridge>>

-----------------------------------------------------------------------------
Ended == {t \in {"reader", "writer", "tcp", "udp"} :
             CASE t = "reader" -> reader = "ended"
               [] t = "writer" -> stack_writer = "ended"
               [] t = "tcp" -> tcp_dispatch = "ended"
               [] t = "udp" -> udp_dispatch = "ended"}

\* select! that is a join!.
ReturnAll ==
    /\ phase = "up" /\ Ended = {"reader", "writer", "tcp", "udp"} /\ accept_loops = {}
    /\ phase' = "returned"
    /\ UNCHANGED <<mode, device, taskVars, dataVars, handlerVars, countVars>>

\* select! over the four tasks, or the awaits that end run_mixed.
Return ==
    /\ phase = "up"
    /\ IF mode = "gvisor" THEN Ended # {}
       ELSE {"reader", "writer", "udp"} \subseteq Ended /\ accept_loops = {}
    /\ phase' = "returned"
    /\ UNCHANGED <<mode, device, taskVars, dataVars, handlerVars, countVars>>

GvisorNext ==
    \/ Bind \/ ReadPacket \/ SinkSend \/ DeviceCloses \/ ReaderEof \/ Recv \/ Hijack
    \/ Resolved \/ Session \/ Send \/ SessionGc \/ HandlerDrops \/ HandlersClose
    \/ AcceptStream \/ CopyEnds \/ AcceptEnds \/ StackEmits \/ WriteOut \/ Return

-----------------------------------------------------------------------------
\* Every datagram the sink has passed on is in the channel, in the hands of the dispatch
\* loop, or was given to the resolver or to a handler: port 53 is not dropped when the
\* resolver goes away between two queries.
DatagramsServed ==
    udp_dispatch # "ended" =>
        entered = Len(udp_inbound) + (IF udp_dispatch = "recv" THEN 0 ELSE 1) + served

\* run_gvisor returns once the device is closed or one of its tasks has ended, whatever
\* the others wait for: a resolver, a full sink, a stream that never comes.
GvisorReturns ==
    (mode = "gvisor" /\ phase = "up" /\ (device = "closed" \/ Ended # {}))
        ~> (phase = "returned")

-----------------------------------------------------------------------------
(* The inductive invariant behind DatagramsServed (NetstackProofs)          *)

GvisorTypeOK ==
    /\ udp_dispatch \in {"recv", "hijack", "resolve", "session", "send", "ended"}
    /\ reader = "send" => reading \in Packets
    /\ udp_inbound \in Seq(Packets)
    /\ entered \in Nat /\ served \in Nat

ServedInv == GvisorTypeOK /\ DatagramsServed
=============================================================================
