# rs-tun: a verification development

rs-tun turns a TUN device into a stream of TCP connections, UDP packets and DNS
queries that an application handles. Three stacks do the work: *system* rewrites
packets so that the kernel's own TCP terminates the connections, *gvisor* runs a
user-space TCP (smoltcp), *mixed* uses system for TCP and the user-space stack for
UDP. This directory holds TLA+ models of the parts where ordering and concurrency
decide correctness, the TLC configurations that check them, and TLAPS proofs.

All paths below are relative to the repository; `mod.rs` is `src/tun/mod.rs` and
`netstack/` is `src/tun/netstack/`. `PROJECT.json` has the full list of components,
runs, hazards and findings, and maps every definition to the lines it models.

## 1. Inventory

| Component | State | Operations | Correct when |
|---|---|---|---|
| TCP NAT (`mod.rs`, `TcpNat`) | `addr_map`, `port_map` behind separate RwLocks, cursor `port_index`, `last_active` of each session | `lookup_or_insert`, `allocate_port_locked`, `lookup_back`, `gc`, `clear` | the two maps are inverse to each other; a port is never shared; refusal only when full; every call returns |
| System stack, TCP path (`mod.rs`) | kernel listeners and connections, `tcp_tx` channel | `handle_tcp_v4/v6`, `accept_loop`, `tcp_dns_accept_loop` | a connection keeps its own flow; DNS goes to the DNS listener |
| Ring buffer (`netstack/ring_buffer.rs`) | slots, two atomic positions | `enqueue_slice`, `dequeue_slice`, `is_empty`, `is_full` | a bounded byte stream, no data race |
| TCP stream and socket loop (`netstack/tcp_stream.rs`, `tcp_listener.rs`) | two ring buffers, two wakers, five flags, the smoltcp socket | `poll_read`, `poll_write`, `poll_flush`, `poll_shutdown`, `drop`, `poll_sockets` | no lost wake-up, no lost bytes, FIN last, end of stream last |
| Listener, device, demultiplexer (`netstack/tcp_listener.rs`, `device.rs`, `stack.rs`) | SYN tracker, device queues, socket registry, `packet_container` | `poll_packets`, `poll_sockets`, `receive`, `poll_next`, the sink of the stack | a SYN meets its socket, no frame lost to a full queue, no stream forgotten |
| Netstack UDP socket (`netstack/udp_socket.rs`) | channels | `recv`, `send` | every good datagram is served |
| gvisor and mixed stacks (`src/tun/gvisor.rs`) | tasks, channels, session maps | `run_gvisor`, `run_mixed`, `bridge_to_tcpstream` | shutdown ends; a datagram goes to the resolver or to a session |
| UDP sessions and DNS hijack (`mod.rs`) | session table with timestamps, reply channels | `dispatch_udp`, the GC, the inline DNS exchange | replies go to the right client; the loop does not stall |
| Packet processing (`mod.rs`) | none | fragmentation, too-big notices, extension headers, MSS clamping, checksums | see *Not modelled* |
| Configuration arithmetic (`mod.rs`, `platform/linux.rs`, `config.rs`, `options.rs`) | none | UID ranges, difference of prefixes | the results have their set meaning |
| Start-up, run loop, shutdown (`mod.rs`, `src/stack.rs`) | tasks, platform set-up | `TunInbound::run`, `start`, `close` | what was set up is torn down |
| Platform routing (`src/tun/platform/`) | policy rules, routes, filters of the system; `SetupState` | `setup`, `teardown` for each system | packets go where the configuration says; the outbound stays off the TUN |
| Handler bridge (`src/handler.rs`) | channels | `spawn_handler_bridge` | every item reaches the handler once |
| ICMP forwarder (`src/tun/icmp_forwarder.rs`) | flow table, a task for each flow | `forward`, `flow_task`, the GC | replies go to who asked; nothing stays behind |
| Native TUN (`src/tun/native_tun.rs`) | pending GSO segments, staging buffers | `do_batch_read`, `do_batch_write`, `poll_write` | segments in order; a write that returns has happened |
| GSO and GRO (`src/tun/gso.rs`) | coalescing tables | `gso_split`, `handle_gro` | split inverts coalesce |
| Interface monitor (`src/tun/interface_monitor.rs`) | callbacks, `task_running`, last scan | `register`, `unregister`, `monitor_task` | every change reaches every callback |
| Interface finder, Android packages, public types | operating-system queries | | see *Not modelled* |

**Interaction.** The TUN read loop of the system stack calls the NAT for each TCP
packet and the UDP table for each datagram; the kernel's listeners feed the accept
loops, which call the NAT again and send streams to the application over `tcp_tx`.
A GC task and, on Linux and Android, a callback of the interface monitor change the same
NAT. In the gvisor stack one thread runs `poll_packets` and `poll_sockets` over all sockets
while application tasks use the streams; each pair shares only a `TcpStreamHandle`. ICMP
echo requests leave either stack for the ICMP forwarder, which writes replies straight to
the device. `TunInbound::run` creates the device, sets the platform up, runs one of the
stacks, and for the system stack takes the set-up back.

**What is hard.** Two lock-protected maps that are to be one table, with awaits
between their locks; a lock-free buffer; check-then-wait protocols around wakers and
flags that are read one by one; graceful closing in both directions; back-pressure
from bounded channels; resets and garbage collection that run beside everything else;
system settings whose order decides, any of which can fail, and which outlive the process.

## 2. Modules

| Module | Models |
|---|---|
| `PortLease` | what the NAT promises: a table of port leases |
| `TcpNat` | the NAT, one action for what a task does between two awaits; refines `PortLease` |
| `SystemTcp` | TUN loop, kernel connections and accept loops around `TcpNat` (EXTENDS it) |
| `SystemTcpProofs` | theorems about `TcpNat` and `SystemTcp` |
| `SystemUdp` | UDP sessions, DNS hijacking over UDP and TCP, and the handler bridge |
| `SystemUdpProofs` | its theorems |
| `ByteChannel` | what a ring buffer promises: a bounded byte stream |
| `RingBuffer` | the buffer, each call as look, copy, publish; refines `ByteChannel` |
| `RingBufferProofs` | its theorems |
| `NetstackStream` | one stream against the socket loop, every atomic access a step |
| `NetstackStreamProofs` | its theorems |
| `NetstackListener` | `poll_packets`, `poll_sockets` and the acceptor over all sockets |
| `GvisorStack` | the tasks of `run_gvisor` and `run_mixed`, the demultiplexer and the UDP socket |
| `MCNetstack` | the two together, for TLC |
| `NetstackProofs` | theorems about `NetstackListener` and `GvisorStack` |
| `Loops` | a loop over a list, as a recursive function (`InOrder`) |
| `NativeTun` | reader and writer of the Linux TUN device |
| `GroTable` | merging of packets in `handle_gro`, and the split that undoes it |
| `IcmpForwarder` | flow table, GC and flow tasks |
| `InterfaceMonitor` | registry, monitor task, netlink and polling |
| `MCDeviceTasks` | these four, for TLC |
| `DeviceTasksProofs` | theorems about `NativeTun`, `GroTable`, `IcmpForwarder` and `InterfaceMonitor` |
| `PolicyRules` | the rules of Linux and Android, and how the kernel reads them |
| `HostRoutes` | the routes of Android, macOS and Windows, and the WFP filters |
| `TunRun` | the life of an inbound around both (EXTENDS them) |
| `TunRunProofs` | its theorems |
| `RouteSets` | UID ranges and the difference of prefixes |
| `RouteSetsProofs` | its theorems |
| `MCPlatform` | `TunRun` and `RouteSets`, for TLC |

**TcpNat.** `addr_map` and `port_map` are functions into `None` or a value; a session
is its flow plus `last_active`. A task's `pc` says where it is in a call, and since
only the `addr_map` guard is held across an await, the lock state is a function of the
program counters (`AddrReadHeld`, `AddrWriteHeld`). `lookup_or_insert` is
`LookupOrInsert`, `Get`, then `RefreshHit` (fast path, guard held) or `Recheck` and
`Alloc`; `lookup_back` is `LookupBack` (clone under the lock) and `Touch` (on the clone,
which may have left the table: `arc`); `gc` is `GcScan`, `GcLock`, `GcRemove`; `clear`
is `ClearAddr`, `ClearPort`. The cursor is a `u16` that wraps to 0, below the range.

**SystemTcp.** A rewritten packet is one of three things to the kernel: a segment of a
known connection, a SYN, or a stray. `conn` records the flow each kernel connection was
opened for, `sound` the connections whose session nobody has removed. The accept loops
wait for room in `tcp_tx`; when the application drops its end `accept_loop` stops while
the listener stays bound (`EndAccept`), so connections pile up in the backlog. The
family of an address is left out: v4 and v6 have the same control flow.

**SystemUdp.** A session is its reply channel: the queue, the task that writes the replies
to the client it captured, and its senders, which are the table, the packets in
`udp_tx`, the one the handler has and the clones the application keeps. `pc` is where the TUN
loop is in `dispatch_udp`: sending or awaiting a DNS query, at the table, or sending the
packet. `lock().await` of the table is never held across another await, so `Lookup`, `Gc` and
`Reset` are single steps; the GC may run at any time, which includes its `timeout / 2`
ticker. A DNS query is in `dns_tx`, with the handler (`asked`), or answered in its oneshot
(`reply_rx`); the TUN loop and every connection of `tcp_dns_accept_loop` ask the same way.
A `dns_tx` that is `None` and one whose receiver is gone behave alike and are
both `dns_rx = "closed"`. The handler and the application are external: `new_packet` replies
or not and may keep the session.

**RingBuffer.** A byte is named by its position in the stream, so order, loss and
duplication are visible in the contents. The two threads interleave between look, copy
and publish. Acquire/Release pairs are modelled as interleaving: a stale Acquire load is
a load made earlier, and each position has one writer.

**NetstackStream.** Buffers are counts (justified by `RingBuffer`). Each load or store of
a flag, buffer position or waker is its own step. Both directions of the bridge are one
task, woken by either waker. smoltcp is external: its state is what `may_send`,
`may_recv`, `is_active` tell apart, and packets act on it only inside `iface.poll`.

**NetstackListener.** Two loops of one task: `PollPackets` is a batch of `recv_many`,
`PollSockets` a pass of `poll_sockets` up to its wait, and `NotifierEvent`, `PollDelayEnds`
the two ways out of the wait. A socket is a slot that listens for a destination, is in the
handshake or established; `Receive` does what `iface.poll` does with a frame: reserve a
transmit slot, take the frame, give it to a socket. A connection's entry in the SYN tracker
is absent, recent or older than `SYN_TRACK_TTL`. The notifier is a queue of events, where a
repeated `DeviceReady` adds nothing. The loops over a batch, the notifier and the queue are
`InOrder` of module `Loops`, a recursive function and not a fold of the community modules,
because its existence can be proved.

**GvisorStack.** `mode` chooses `run_gvisor` or `run_mixed`. The reader is at the device or
in the sink, the UDP dispatch at one of its awaits, the other tasks run or have
ended. `run_gvisor` is a `select!`: it returns with the first task that ends and the others go
on (`Runs`). A reply channel of a session is in the table or held by a handler. A
bridged connection is its two copying directions. The tail of a fragmented datagram is one
that `UdpPacket::new_checked` refuses: `recv` then returns `None`.

**NativeTun, GroTable.** Segments are numbered in the order of the device, packets to be
written are told apart by their bytes. A failed or abandoned write leaves its packet staged;
`SamePacket` compares bytes. In `GroTable` a packet has its flow, the header fields that
must agree (`hdr`), sequence number, PSH, whether its checksum holds, and its bytes;
sequence numbers wrap at `SeqSpace`. Buffers have room behind the packet or, as in
`do_batch_write`, none. A packet's way through `tcp_gro` is `InOrder` over the items of its
flow: `TryItem` merges the packet, drops the item, refuses the packet or goes on to the next.

**IcmpForwarder.** `Forward` is what happens under the lock, `ForwardSend` the `try_send` on
the clone after it. A flow's task opens a ping or a raw socket, sends, replies and ends when the
socket fails or no sender is left.

**InterfaceMonitor.** `sys` is what the system has, `last_events` the last scan, `view` what
a callback has been told. `NetlinkEvent`, `Debounced` and `NextEmitPasses` are the branches
of the select with its debounce, `Poll` the ticker. The scan and the announcement are two
steps, because the registry's lock is taken in between.

**PolicyRules, HostRoutes, TunRun.** `SetupStep` issues one command, which may fail; a
failure is logged and set-up goes on, as in the code. Rules are a set of records with the
priority setup gives them; `Route` is the kernel's walk through them. The physical interface
is found among the routes at the step where the code looks for it. `Close` is the abort of
the task, `Crash` the end of the process: rules stay, the device and its routes go. A
restart uses the same configuration.

The fwmark rule of `auto_redirect` is added without a priority. The kernel puts it in front
of the rules there are (`KernelPrio`), so it never is the rule of an earlier run, and
teardown deletes the first one of each family (`FirstMark`). The history variable
`abandoned` counts the runs that began to set up and ended without a teardown: as many of
these rules may be left. Android's set-up begins with `AddRoutes`: `ip route add` to the
main table for every family, each of which may fail or be refused. What decides is the
metric: the kernel refuses a second route of a prefix with the same metric, and `ip route
del` without a device takes the one with the lowest (`DeleteMainRoutes`). `metric` is the
metric of the host's route; with 0 for the TUN's over IPv4 and 1 (for 1024) over IPv6, its
values 0, 1 and 2 put the host's route before, beside or after the TUN's. One prefix for
each family stands for those of `route_v4` and `route_v6`: a command
for one prefix leaves the routes of another alone.

**RouteSets.** The functions as operators over a UID space and an address width, a few bits
in the run. The loops of `merge_ranges`, `subtract_ranges` and `complement_ranges` are
`InOrder`; `split_subtract` is a recursive function over the prefixes.

## 3. Runs

| Run | Shows |
|---|---|
| `nat` | two tasks and the GC, three flows for two ports: maps inverse, answers lead back, refusal only when full, the lease table is implemented, every lookup returns |
| `nat_reset` (violation) | `clear` between the maps leaves an `addr_map` entry whose port another flow gets |
| `nat_gc_race` (violation) | a session refreshed while the GC waits for its locks is removed although alive |
| `system_tcp` | short of GC and reset, no connection loses its session or gets another flow's; DNS connections are not proxied |
| `udp` | a session in use keeps its reply task and its client across GC and reset; hijacked queries get no session; each query is in one place; the TUN loop returns |
| `ring` | order, absence of data races, exact flags and the refinement, across two wrap-arounds |
| `stream` | FIN behind all data, no lost read wake-up, the end of the stream is reported only when no more bytes can come or the socket was removed, bytes are read, closed streams get their FIN |
| `stream_eof` (violation) | `poll_read` can report the end of the stream over unread bytes |
| `stream_writer` (violation) | a writer blocked on a full buffer can miss that the socket is gone |
| `netstack` | a SYN meets its socket unless the transmit channel was full or another client took it; frames are processed once and in order; every accepted stream is taken; every datagram is served; `run_gvisor` returns |
| `device_tasks` | GSO segments stay in order and `read_packet` loses none; a staged packet never answers for another; merge and split are inverse; GC loses no echo request and replies go to who asked; flows end; callbacks hear of every change |
| `platform` | teardown takes away what the run has set up, also after failures, an abort or a crash, and no route of the host (on Android when the TUN's routes were added and come first); packets take the configured way; the outbound never binds to the TUN; UID ranges and routes are the sets they should be |

**Bounds.** `nat`: two tasks are what the fast-path/slow-path race and the double lookup
need; two ports and three flows make the table overflow and the cursor wrap; the clock runs
to 2 with `Timeout` and `Throttle` 1, so that sessions expire and refreshes are throttled.
`system_tcp` uses one port and two flows, one of them DNS: the same port is reused at once,
the worst case for mixing flows up. `ring`: five slots and 14 bytes wrap twice with every
slice length. `stream`: one byte in each buffer and two bytes each way make every buffer
full with more to come. `udp`: every channel has one slot, so each is full as soon as it is
used; two flows, one of them DNS, beside one DNS-over-TCP connection compete for `dns_tx`;
two reply channels let a flow lose its session and get another while the application still
holds the first (`Chan` bounds the sessions alive at a time, in the guard of `Datagram`).
`MaxTime`, `MaxBytes`, `MaxIn`, `MaxOut` are the named bounds; none occurs in the code.

`netstack`: two clients of one server and three frames are what it takes for one SYN to take
another's socket; a transmit channel of one slot is full after one answer; the tracker holds
two. Two packets or streams of gvisor (`MaxReads`) let the second meet whatever the first
has left, and one stream is bridged at a time. `device_tasks`: a frame of five segments is
larger than the batch (2) and than the output of a split (4), eight segments make several
such frames; four writes of three contents, one of which the device refuses, repeat, abandon
and mix packets; batches of up to four packets around the wrap of a sequence space of 8,
with room for six more bytes; two ICMP flows of different clients to the same host, queues
of one, three requests; two registrations, two interfaces, two changes. `platform`: every
configuration of every system, on Android with the three places the host's route can have,
two runs, one fault (a failed command, an abort or a crash; two runs and one crash are what
a second fwmark rule takes),
UIDs 0 to 5 (the greatest stands for the end of `u32`), pairs of ranges, addresses of four
bits with one excluded prefix or two.

**Parts.** `MCNetstack`, `MCDeviceTasks` and `MCPlatform` hold components that share no
state. A variable `part`, fixed in the first state, says which of them a behaviour is about:
interleaving independent components would add states and no behaviour of either. In
`MCNetstack`, `poll_packets` runs against the sockets or against the acceptor, since it
hears from neither. Liveness properties name their part through the state they start from or
hold trivially in the others.

**Deadlock** is not checked in `ring` and `stream`: there the bounded stream is over and the
connection gone, and nothing is left to do. Nor in `netstack`, `device_tasks` and
`platform`, where the bounded input is used up, a task has ended or the last run is torn
down. In the others it is checked.

**Fairness.** Weak fairness on every step of a task that has nothing to wait for: tokio
polls every woken task. Strong fairness where a task waits for a tokio `RwLock`, which is a
FIFO queue, so a lock that is released again and again is obtained. In `stream`, the timer
of `poll_sockets`' select fires, and the handshake and the peer's acknowledgements (or
smoltcp's own timeout, `Abort`) eventually happen. In `udp`, strong fairness on sends into a
bounded channel, because tokio's mpsc serves its waiting senders in FIFO order; the handler
is assumed to return from `new_packet` and to answer or drop every query it has taken. A
resolver whose own traffic enters the TUN breaks that assumption. The application of
`stream` is fair only inside a call and in reading; it need not write, shut down or drop. In
`netstack` the acceptor's steps, a send of the sink (its channels are unbounded), the end of
the reader at a closed device and the return of a `select!` that is ready are weakly fair;
the resolver is not, so `GvisorReturns` holds although it never answers. In `device_tasks`
the GC, the clock, the sends and the steps of a flow's task are, and of the interface
monitor the start of the task, the poll and the announcement; netlink is not, since messages
may be lost. `platform` has no liveness.

## 4. Proofs

Proofs are for all values of the constants, given the assumptions that the modules name:
numbers of tasks, slots, ports and runs are natural and where needed positive
(`PortAssumption`, `TimeAssumption`, `TaskAssumption`, `CapacityAssumption`,
`MaxBytesAssumption`, `BufferAssumption`, `UdpAssumption`, `ListenerAssumption`,
`GvisorAssumption`, `NativeTunAssumption`, `IcmpAssumption`, `MonitorAssumption`,
`PolicyAssumption`, `RunAssumption`, `RouteSetsAssumption`), a packet has a sequence number
below `SeqSpace` and a datagram neither that nor a PSH (`GroAssumption`), frames are records
of a connection and a kind, there is a flow, and `None` and `NoPacket` are apart from
everything else. TLC evaluates each of them in a run. `TeardownLeavesNothing` and
`PacketsGoAsAsked` have one hypothesis more, `PrioritiesFree`: the rules of a family fit
between `iproute2_rule_index` and the anchor 100 above, and the anchor is below 32766, the
rule of the system for table main. With the defaults (9000 and 100) the model's
configurations issue at most 23 commands. A configuration with some hundred UID ranges or
interfaces goes past the anchor; the code checks neither.

- `SystemTcpProofs`, the NAT. `TypeCorrect` and `RefusedExactly` hold with the network
  reset. For the second, `ProbesCoverPorts` shows that the probes from any cursor reach
  every port. `Agreement`, `AnswersLeadBack` and `ImplementsLease` hold without the reset
  (`nat_reset` shows that they fail with it) and rest on `NatInv`. `MapsAgree` alone is not
  inductive: `Alloc` must know that its flow still has no port (`GuardInv`), hence that
  nobody else holds the lock (`LockInv`, `GcLockInv`); `GcRemove` must know that what it
  collected earlier is still what the table holds (`CollectedInv`).
- `SystemTcpProofs`, the system. Every step of the system is a step of the NAT or leaves it
  alone (`TcpPathUsesNat`), so the NAT's theorems carry over. `SoundConnKeepsSession` needs
  besides that what the TUN loop and the accept loops have looked up, and not used yet, is
  still in the table.
- `SystemUdpProofs`. `UdpInv` joins the type invariant, `SenderHasTask`,
  `SessionAnswersItsClient` and what the TUN loop and the bridge hold in their hands
  (`HandInv`). The two properties need each other: a channel that `Lookup` takes up must be
  known to have no sender, or its new client would get the replies of an old session.
  `DnsStaysOut` needs that a hijacked query is on the session path only once the resolver is
  gone (`DnsHandInv`). `QueryInOnePlace` needs that a channel holds each query once, and
  that a task waits for an answer exactly while its query is somewhere.
- `RingBufferProofs`. `RingInv` adds to the order of the bytes that the positions count them
  (`CountInv`), that a call under way still has the room or the bytes it saw (`ReservedInv`:
  the other side only makes more), that filled slots hold the next bytes (`ContentInv`) and
  copied slots the ones after (`CopiedInv`). `DeliversInOrder`, `RaceFree`,
  `FlagsTellTheTruth` and `ImplementsChannel` follow.
- `NetstackStreamProofs`. `FinIsLast` needs that nothing is written after a shutdown or a
  drop (`NoMoreWrites`) and that the loop closes only what it has seen shut down or dropped
  (`CloseInv`). `NoLostReadWakeup` needs, for each place the reader can be at, what it has
  seen and whether its waker is registered, and for each place of the loop, that a wake-up
  it still owes is owed to that waker. `EndOfStreamIsTheEnd` needs that `read_closed` is set
  only when the socket can take no more bytes (`ReceiveOver`), that this stays so, and that
  the reader has seen one of the flags when it reports the end (`EofInv`). A removed socket
  (`socket_closed`) is excepted, since it may take received bytes with it; bytes that are
  already in `recv_buffer` are the subject of `stream_eof`.
- `NetstackProofs`. `DatagramsServed` counts the datagrams in the channel and in the hands
  of the dispatch loop. `NoAcceptorSleeps`, the safety half of `StreamsAccepted`, needs that
  an acceptor behind its registration has its waker in place. `SynMeetsListener` and
  `DeviceKeepsFrames` are about loops over whole queues. `OneByOne` shows that such a loop
  is a sequence of states from its start to its result, and `UpTo` is the induction along
  it: after a part of the queue, the processed and the remaining frames make up the queue
  (`PassKeepsFrames`), and every new SYN still has a socket that listens for it or is its
  own (`SegmentStep`). Between the passes `ListenerInv` keeps for every queued SYN a socket
  or the event that will make one. It gives up on this once the channel was full, because
  the pass then drops sockets that only listen.
- `DeviceTasksProofs`. `SegmentsInOrder` and `ReadPacketHoldsNothing` follow from where the
  segments of a frame can be when the reader is at a given place; `WritesAreHonest` needs
  that the writes of a packet that are done and the one still owed, staged or under way, are
  never more than the calls for it. For the forwarder, `GcLosesNoRequest` and
  `RepliesGoToAskers` need that neither an entry nor the clone of a sender outlives its
  task, and that a task keeps the key it was born with. `CallbacksFollowTheScans` is the
  safety half of `CallbacksConverge`: unless the monitor is announcing, every callback has
  been told the last scan.
- `DeviceTasksProofs`, GRO. `RoundTrip` counts what the kernel splits off; the invariant
  (`GroInv`) gives every packet that came in a place of its own there (`Placed`, a
  bijection) and says what an item knows of its buffer (`Describes`): it holds `merged + 1`
  pieces of `gso` bytes, the last perhaps shorter, and they follow the item's sequence
  number. Then the buffer is split into just these pieces (`WrittenItem`). A packet in a
  buffer of its own adds a place (`AddSound`). A merge leaves every piece as it was and adds
  the packet behind (`AppendMerges`) or in front (`PrependMerges`), wrap included
  (`MergeSound`). For this a buffer is written once and has at most one item that says how
  it is split (`Tables`, `Once`). What `tcp_gro` leaves of a flow's items is shown along its
  loop (`GroDoes`): it drops only items that were never merged, whose buffers need no split.
- `TunRunProofs`. `OutboundStaysOutside` needs that the TUN has no route yet when set-up
  looks for the physical interface (`NoRouteYet`) and that the routes of the host survive
  every step (`RoutesInv`). For `TeardownLeavesNothing`, `LinuxRulesInv` says that all rules
  are the system's or of this configuration, and `LinuxRecordedInv` that whatever is there
  from this run or an earlier one will be recorded when set-up ends. A number is shared by
  at most three rules, so that the three deletions of teardown suffice. Of the fwmark rules
  `MarksInv` counts at most one per family for every run without a teardown and one for a run
  under way (`RedirectOnce`: set-up has one); teardown takes the first, which exists because
  priorities are natural numbers (`LeastNumber`, `OneMarkLess`). On Android, where
  all rules share one number, the recorded numbers are at least as many as the rules
  (`AndroidRecordedInv`). Its routes are those of the host and of a TUN, and after a set-up
  without a failure none of the TUN's is missing (`AndroidRoutesInv`); with the lower metric
  they are what `ip route del` finds (`AndroidTeardownOnRoutes`). `HostKeepsItsRoutes` says
  the same of the host's: a teardown deletes none of them, on the other systems without any
  condition. `StrictRouteDecides` is the Windows half of `TrafficAsConfigured`.
  `PacketsGoAsAsked` adds the Linux half. A set-up without a failure has left out no rule
  (`InstalledInv`), so the rules are the system's and those of set-up. `Rank` gives a
  command its place among those of its family; the sequence of commands follows it
  (`LinuxCommandsRanked`), hence so do the numbers (`RulesStandInOrder`). A packet is then
  decided by one rule (`CommandDecides`), by a jump to the anchor (`JumpDecides`) or by the
  anchor itself (`NothingDecides`), and `WithAddress` finds it for every packet and
  configuration.
- `RouteSetsProofs`. Every loop is a sequence of values (`OneByOne`, `UpTo`) and keeps its
  result sorted, apart and with the elements it should have: `Merged`, `Subtracted`,
  `Complemented`. `ExcludedExactly` joins them, with the last UID, behind which there is no
  gap to find, on its own. A prefix is the addresses that have its network (`SameNetwork`),
  and its two halves share them out (`Halves`). The halves are longer than it and none is
  longer than an address, so the recursion of `split_subtract` ends (`SplitRule`) and leaves
  at every level what is not excluded (`SplitExactly`).

The type invariants of `TcpNat`, `RingBuffer`, `SystemUdp`, `NetstackListener` and `TunRun`
are proved and no run repeats them.

Only model-checked: every liveness property (`LookupReturns`, `BytesAreRead`,
`ClosedGetsFin`, `TunLoopReturns`, `StreamsAccepted`, `GvisorReturns`, `FlowsEnd` and
`CallbacksConverge`): fairness and ENABLED are beyond the proof system. Every invariant and
action property of a passing run is proved. The violations are counterexamples found by TLC.

## 5. Findings

1. `clear` is not atomic over the two maps: a flow can keep a port that is given away again
   (`nat_reset`).
2. `gc` removes sessions that were refreshed after it collected them (`nat_gc_race`).
3. `poll_read` can return end of stream with bytes in `recv_buffer` (`stream_eof`): the
   flags are read after the last look at the buffer.
4. `poll_write` can wait for ever on a removed socket (`stream_writer`): `write_closed` is
   not looked at again after the waker is registered.
5. Android's teardown deletes a route by its prefix alone, also one that set-up could not
   add or that comes behind the host's: the host's own route goes, although `SetupState` is
   kept for a precise clean-up. TLC finds it when `RoutesPreferred` is dropped from
   `TeardownSparesHost`.
6. `cleanup_nftables_redirect` is to remove fwmark rules that were left over and removes one
   per family, while a run after an abort or a crash adds a second. TLC finds it when
   `RulesRestored` allows no fwmark rule where it now allows `abandoned`.
7. The others were met while modelling and have no run of their own; a property that would
   fail because of one says so in its comment. In the NAT, the bridge and the handler bridge
   a comment says something else than the code. `run_mixed` does not return when the device
   closes. A packet the device refuses stays staged and blocks the writer. `do_batch_write`
   gives its buffers no room, so GRO never merges. A listening socket can be removed before
   its SYN is looked at. An excluded prefix of length 0 is not subtracted. On Windows
   exclude routes are created on the TUN and the bypass route is not removed. `so_mark` and
   excluded prefixes do not keep the TUN's own traffic out in every case. The nftables
   script fails on its first run.

Smaller observations, which contradict no document: a packet merged in front of another
loses its own PSH (the last one's counts); packets a batch holds are lost when the device
then fails; a single malformed datagram ends `run_gvisor`; gvisor and mixed return ahead of
the platform teardown; the IPv6 rule of Android is not deleted; a session that holds the
writer keeps the old device open after `close`; the acceptor is not woken when its channel
is closed; expired SYN entries count towards `SYN_TRACK_MAX` until the next pruning.

## 6. Plan

The model covers what it is meant to cover, and no proof that the proof system can do is left.
What a change of the code would touch first: the merge conditions (`Appends`, `Prepends` and
with them `MergeChecks`), the commands of `PolicyRules` and with them `Rank`, and the awaits of
`TcpNat`, each of which is a value of `pc` in `NatInv`.

## 7. Not modelled

Packet processing in `mod.rs`: fragmentation, too-big notices, extension headers, MSS
clamping, checksums, and the filters at the head of `process_ipv4/v6` (local subnets,
version, protocol), pure functions on bytes. Parsing and serde defaults (`config.rs`,
`options.rs`), the Android package list, public types and the example: data without control.
Interface finder: operating-system queries. Of the platform code: the nftables script,
systemd-resolved and other DNS settings, teardown of Linux from its state file, the wording
of commands; a host that changes its own routes or rules while a run lasts. ICMP frames in the queue of `tcp_listener.rs`; `scan_and_notify`; the inside of
`scan_interfaces`; the ioctl calls and non-Linux devices of `native_tun.rs`. In the modelled
parts: header rewriting and logging; the inside of a DNS-over-TCP connection where
`SystemTcp` is concerned (one step, `ServeDns`; its inside is in `SystemUdp`);
the 16-bit length of a packet merged in a buffer of more than 64 KB; `ChannelHandler`, which forwards to another channel; accept errors, which the loops retry
after 5 ms.
