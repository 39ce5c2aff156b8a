----------------------------- MODULE SystemTcp -----------------------------
(***************************************************************************)
(* The TCP path of the system stack: the TUN read loop (handle_tcp_v4 and  *)
(* handle_tcp_v6), the kernel listeners it redirects connections to, and   *)
(* the loops that accept from them, all around the NAT of module TcpNat.   *)
(*                                                                         *)
(* A packet of a client flow is rewritten to (client_addr, nat_port) ->    *)
(* (server_addr, listener port) and written back to the TUN; the kernel    *)
(* opens a connection to the listener, whose packets come back through the *)
(* TUN and are rewritten to the flow that lookup_back names.  Key holds    *)
(* the flows that reach the NAT: packets to a filtered destination are     *)
(* dropped and packets to a loopback address reflected, without any state. *)
(***************************************************************************)
EXTENDS TcpNat, Sequences

CONSTANTS
    DnsKey,        \* the flows to port 53
    DnsListener,   \* TRUE iff dns_hijack is on and the DNS listener is bound
    TcpTxCapacity  \* capacity of the channel of accepted streams

Listener == {"tcp", "dns"}

\* The TUN read loop, and one accept loop for each listener.
ASSUME TaskAssumption == Task = {"tun"} \cup Listener

ASSUME ListenerAssumption ==
    DnsKey \subseteq Key /\ DnsListener \in BOOLEAN /\ TcpTxCapacity \in Nat \ {0}

VARIABLES
    op,       \* what the TUN loop is handling: "fwd" or "reply"
    conn,     \* kernel connections, by NAT port and listener: the flow or None
    backlog,  \* connections not accepted yet
    tcp_tx,   \* accepted streams on their way to the application
    rxEnd,    \* the receiving end of tcp_tx: "open", "closed" by the application,
              \* or "ended": closed, and accept_loop has noticed and stopped
    sound     \* history: the connections whose session neither GC nor a reset
              \* has removed since they were opened

tcpVars == <<op, conn, backlog, tcp_tx, rxEnd, sound>>
allVars == <<vars, tcpVars>>

Conn == Port \X Listener

TcpInit ==
    /\ Init
    /\ op = "fwd"
    /\ conn = [c \in Conn |-> None]
    /\ backlog = {}
    /\ tcp_tx = <<>>
    /\ rxEnd = "open"
    /\ sound = {}

-----------------------------------------------------------------------------
\* Task t is done with the packet or connection in hand.
Done(t) ==
    /\ Return(t)
    /\ op' = IF t = "tun" THEN "fwd" ELSE op

(* handle_tcp_v4, handle_tcp_v6: forward direction                          *)

\* The computed port is ignored and every flow goes to the general listener.
GeneralPort(k) == "tcp"

\* effective_tcp_port
EffectivePort(k) == IF k \in DnsKey /\ DnsListener THEN "dns" ELSE "tcp"

ClientPacket(k) ==
    /\ LookupOrInsert("tun", k)
    /\ op' = "fwd"
    /\ UNCHANGED <<conn, backlog, tcp_tx, rxEnd, sound>>

\* The rewritten packet is written to the TUN.  To the kernel it is a segment
\* of a connection it knows, the SYN of a new one, or a stray segment.
Forward ==
    /\ op = "fwd" /\ pc["tun"] = "some"
    /\ LET c == <<port["tun"], EffectivePort(key["tun"])>> IN
        \/ /\ conn[c] = None
           /\ conn' = [conn EXCEPT ![c] = key["tun"]]
           /\ backlog' = backlog \cup {c}
           /\ sound' = IF port_map[c[1]] = key["tun"] THEN sound \cup {c}
                       ELSE sound
        \/ UNCHANGED <<conn, backlog, sound>>
    /\ Done("tun")
    /\ UNCHANGED <<tcp_tx, rxEnd>>

\* No NAT port left for the flow, or no session for the reply.
DropPacket ==
    /\ pc["tun"] = "none"
    /\ Done("tun")
    /\ UNCHANGED <<conn, backlog, tcp_tx, rxEnd, sound>>

(* handle_tcp_v4, handle_tcp_v6: reply direction                            *)

ListenerPacket(c) ==
    /\ conn[c] # None
    /\ LookupBack("tun", c[1])
    /\ op' = "reply"
    /\ UNCHANGED <<conn, backlog, tcp_tx, rxEnd, sound>>

\* The packet, its addresses rewritten to those of key["tun"], is written.
DeliverReply ==
    /\ op = "reply" /\ pc["tun"] = "some"
    /\ Done("tun")
    /\ UNCHANGED <<conn, backlog, tcp_tx, rxEnd, sound>>

-----------------------------------------------------------------------------
(* accept_loop and tcp_dns_accept_loop                                      *)

Accept(c) ==
    LET l == c[2] IN
    /\ c \in backlog
    /\ l = "tcp" => rxEnd # "ended"
    /\ LookupBack(l, c[1])
    /\ backlog' = backlog \ {c}
    /\ UNCHANGED <<op, conn, tcp_tx, rxEnd, sound>>

\* accept_loop: the stream is sent to the application, waiting for room.
HandOver ==
    /\ pc["tcp"] = "some" /\ rxEnd = "open"
    /\ Len(tcp_tx) < TcpTxCapacity
    /\ tcp_tx' = Append(tcp_tx, key["tcp"])
    /\ Done("tcp")
    /\ UNCHANGED <<conn, backlog, rxEnd, sound>>

\* tcp_dns_accept_loop: a task is spawned that answers the queries.
ServeDns ==
    /\ pc["dns"] = "some"
    /\ Done("dns")
    /\ UNCHANGED <<conn, backlog, tcp_tx, rxEnd, sound>>

\* The stream of loop l is dropped, which closes its connection.  One that waits
\* in the backlog is a newer connection of the same address and stays.
CloseStream(l) ==
    LET closed == {<<port[l], l>>} \ backlog IN
    /\ conn' = [c \in Conn |-> IF c \in closed THEN None ELSE conn[c]]
    /\ sound' = sound \ closed
    /\ Done(l)
    /\ UNCHANGED <<backlog, tcp_tx>>

\* Unknown NAT port.
DropStream(l) ==
    /\ pc[l] = "none"
    /\ CloseStream(l)
    /\ UNCHANGED rxEnd

\* The send fails: accept_loop stops, while its listener stays bound.
EndAccept ==
    /\ pc["tcp"] = "some" /\ rxEnd = "closed"
    /\ CloseStream("tcp")
    /\ rxEnd' = "ended"

AppTakes ==
    /\ tcp_tx # <<>>
    /\ tcp_tx' = Tail(tcp_tx)
    /\ UNCHANGED <<vars, op, conn, backlog, rxEnd, sound>>

\* The application drops its end, and with it the streams in the channel.
AppCloses ==
    /\ rxEnd = "open"
    /\ rxEnd' = "closed"
    /\ tcp_tx' = <<>>
    /\ UNCHANGED <<vars, op, conn, backlog, sound>>

\* Either end closes an accepted connection.
CloseConn(c) ==
    /\ conn[c] # None /\ c \notin backlog
    /\ conn' = [conn EXCEPT ![c] = None]
    /\ sound' = sound \ {c}
    /\ UNCHANGED <<vars, op, backlog, tcp_tx, rxEnd>>

-----------------------------------------------------------------------------
(* The NAT's own steps.                                                     *)

NatStep ==
    /\ \/ \E t \in Task : Step(t)
       \/ GcScan \/ GcLock
       \/ Tick
    /\ UNCHANGED tcpVars

NatGcRemove ==
    /\ GcRemove
    /\ sound' = {c \in sound : \A e \in gc.expired : e[1] # c[1]}
    /\ UNCHANGED <<op, conn, backlog, tcp_tx, rxEnd>>

NatClear ==
    /\ Clear
    /\ sound' = {}
    /\ UNCHANGED <<op, conn, backlog, tcp_tx, rxEnd>>

TcpNext ==
    \/ \E k \in Key : ClientPacket(k)
    \/ \E c \in Conn : ListenerPacket(c) \/ Accept(c) \/ CloseConn(c)
    \/ \E l \in Listener : DropStream(l)
    \/ Forward \/ DropPacket \/ DeliverReply \/ HandOver \/ EndAccept
    \/ ServeDns \/ AppTakes \/ AppCloses
    \/ NatStep
    \/ NatGcRemove
    \/ NatClear

TcpSpec == TcpInit /\ [][TcpNext]_allVars

-----------------------------------------------------------------------------
(* The inductive invariant behind the theorems.                             *)

TcpTypeOK ==
    /\ op \in {"fwd", "reply"}
    /\ conn \in [Conn -> Key \cup {None}]
    /\ backlog \subseteq Conn
    /\ sound \subseteq Conn

\* A call that has found its session knows the flow and the port.
AnswerInv ==
    \A t \in Task : pc[t] \in {"touch", "some"} => key[t] \in Key /\ port[t] \in Port

\* A connection is with the listener its flow is meant for.
ListenerInv == \A c \in Conn : conn[c] # None => c[2] = EffectivePort(conn[c])

\* A connection that waits to be accepted is open.
BacklogInv == \A c \in backlog : conn[c] # None

\* A session that has never been removed is still the one of its connection.
SessionInv == \A c \in sound : conn[c] # None /\ port_map[c[1]] = conn[c]

TcpInv ==
    /\ TypeOK /\ CallInv
    /\ TcpTypeOK /\ AnswerInv /\ ListenerInv /\ BacklogInv /\ SessionInv

-----------------------------------------------------------------------------
(* Properties                                                               *)

\* Only GC and the network reset can part a connection from its session: short
\* of those, no reply of it is dropped or goes to another flow, and the stream
\* accepted for it carries the destination its own client asked for.
SoundConnKeepsSession ==
    [][\A c \in sound :
        /\ ListenerPacket(c) => key'["tun"] = conn[c]
        /\ Accept(c) => key'[c[2]] = conn[c]]_allVars

\* With the DNS listener up, no query connection with a live session is handed
\* to the application as an ordinary stream.
DnsNeverProxied ==
    [][DnsListener => \A c \in sound :
         Accept(c) /\ c[2] = "tcp" => key'["tcp"] \notin DnsKey]_allVars
=============================================================================
