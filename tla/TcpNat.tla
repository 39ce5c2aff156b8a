------------------------------ MODULE TcpNat ------------------------------
(***************************************************************************)
(* The TCP NAT of the system and mixed stacks (struct TcpNat in            *)
(* src/src/tun/mod.rs): two maps, addr_map : (src, dst) -> port and        *)
(* port_map : port -> session, each behind its own tokio RwLock, shared by *)
(* the TUN read loop, the accept loops, the GC task and, on Linux and      *)
(* Android, the network-reset tasks.                                       *)
(*                                                                         *)
(* An action is what a task does between two awaits.  Only the addr_map    *)
(* lock is ever held across an await (always while waiting for the         *)
(* port_map lock), so the lock state is read off the program counters; the *)
(* port_map lock is taken and dropped inside one action.                   *)
(***************************************************************************)
EXTENDS Integers

CONSTANTS
    Key,             \* the (src, dst) pairs of the client flows
    Task,            \* tasks that call lookup_or_insert and lookup_back
    Reset,           \* tasks spawned for an interface event, calling clear
    NAT_PORT_START,
    NAT_PORT_END,    \* u16::MAX in the code, so the cursor wraps to 0 after it
    Timeout,         \* GC timeout, in seconds
    Throttle,        \* a session is refreshed at most this often
    MaxTime,         \* bound on the clock
    None

Port  == NAT_PORT_START .. NAT_PORT_END
Total == NAT_PORT_END - NAT_PORT_START + 1

ASSUME PortAssumption ==
    /\ NAT_PORT_START \in Nat \ {0}
    /\ NAT_PORT_END \in Nat
    /\ NAT_PORT_START <= NAT_PORT_END

ASSUME TimeAssumption == Timeout \in Nat /\ Throttle \in Nat /\ MaxTime \in Nat

ASSUME NoneAssumption == None \notin Port /\ None \notin Key

VARIABLES
    now,          \* Instant::now(), in seconds
    port_index,   \* the allocation cursor, an AtomicU16
    addr_map,     \* [Key -> port or None]
    port_map,     \* [Port -> key of the session (source, destination) or None]
    last_active,  \* [Port -> time]: last_active of the session in port_map
    pc,           \* where each task is in its call
    key,          \* the (src, dst) of the call: argument, or answer of lookup_back
    port,         \* the port of the call: answer, or argument of lookup_back
    arc,          \* the port whose table entry lookup_back has cloned, None once
                  \* that entry has left the table
    gc,           \* [pc, expired] of the GC task
    rpc           \* where each reset task is in clear

vars == <<now, port_index, addr_map, port_map, last_active, pc, key, port, arc,
          gc, rpc>>

tables == <<addr_map, port_map, last_active, port_index>>
call   == <<pc, key, port, arc>>

TypeOK ==
    /\ now \in Nat
    /\ port_index \in Port \cup {0}
    /\ addr_map \in [Key -> Port \cup {None}]
    /\ port_map \in [Port -> Key \cup {None}]
    /\ last_active \in [Port -> Nat]
    /\ pc \in [Task -> {"idle", "get", "refresh", "recheck", "alloc", "touch",
                        "some", "none"}]
    /\ key \in [Task -> Key \cup {None}]
    /\ port \in [Task -> Port \cup {None}]
    /\ arc \in [Task -> Port \cup {None}]
    /\ gc \in [pc : {"idle", "wait", "remove"}, expired : SUBSET (Port \X Key)]
    /\ rpc \in [Reset -> {"idle", "port"}]

Init ==
    /\ now = 0
    /\ port_index = NAT_PORT_START
    /\ addr_map = [k \in Key |-> None]
    /\ port_map = [p \in Port |-> None]
    /\ last_active = [p \in Port |-> 0]
    /\ pc = [t \in Task |-> "idle"]
    /\ key = [t \in Task |-> None]
    /\ port = [t \in Task |-> None]
    /\ arc = [t \in Task |-> None]
    /\ gc = [pc |-> "idle", expired |-> {}]
    /\ rpc = [r \in Reset |-> "idle"]

-----------------------------------------------------------------------------
(* The addr_map RwLock, as the program counters show it.                    *)

\* A read guard that outlives the fast path: the upgrade then waits on itself.
AddrReadHeldTooLong == \E t \in Task : pc[t] \in {"refresh", "recheck"}

AddrReadHeld == \E t \in Task : pc[t] = "refresh"

AddrWriteHeld == gc.pc = "remove" \/ \E t \in Task : pc[t] = "alloc"

AddrReadable == ~AddrWriteHeld
AddrWritable == ~AddrWriteHeld /\ ~AddrReadHeld

\* The session of port p, seen at time `now`: its time stamp moves only when
\* it is more than Throttle old.
Refreshed(p) ==
    [last_active EXCEPT ![p] = IF now - @ > Throttle THEN now ELSE @]

\* Sessions of the ports S leave port_map; a clone of one of them goes on
\* living outside the table.
Unlink(S) ==
    /\ port_map' = [p \in Port |-> IF p \in S THEN None ELSE port_map[p]]
    /\ last_active' = [p \in Port |-> IF p \in S THEN 0 ELSE last_active[p]]
    /\ arc' = [t \in Task |-> IF arc[t] \in S THEN None ELSE arc[t]]

-----------------------------------------------------------------------------
(* lookup_or_insert                                                         *)

LookupOrInsert(t, k) ==
    /\ pc[t] = "idle"
    /\ pc' = [pc EXCEPT ![t] = "get"]
    /\ key' = [key EXCEPT ![t] = k]
    /\ UNCHANGED <<now, tables, port, arc, gc, rpc>>

\* Fast path: on a hit the read guard is kept until the call returns.
Get(t) ==
    /\ pc[t] = "get"
    /\ AddrReadable
    /\ LET p == addr_map[key[t]] IN
        /\ pc' = [pc EXCEPT ![t] = IF p # None THEN "refresh" ELSE "recheck"]
        /\ port' = [port EXCEPT ![t] = p]
    /\ UNCHANGED <<now, tables, key, arc, gc, rpc>>

RefreshHit(t) ==
    /\ pc[t] = "refresh"
    /\ last_active' = IF port_map[port[t]] # None THEN Refreshed(port[t])
                      ELSE last_active
    /\ pc' = [pc EXCEPT ![t] = "some"]
    /\ UNCHANGED <<now, addr_map, port_map, port_index, key, port, arc, gc, rpc>>

\* Without the second look at addr_map under the write lock.
RecheckDropped(t) ==
    /\ pc[t] = "recheck"
    /\ AddrWritable
    /\ pc' = [pc EXCEPT ![t] = "alloc"]
    /\ UNCHANGED <<now, tables, key, port, arc, gc, rpc>>

\* Slow path: addr_map write lock, then the second look.
Recheck(t) ==
    /\ pc[t] = "recheck"
    /\ AddrWritable
    /\ LET p == addr_map[key[t]] IN
        /\ pc' = [pc EXCEPT ![t] = IF p # None THEN "some" ELSE "alloc"]
        /\ port' = [port EXCEPT ![t] = p]
    /\ UNCHANGED <<now, tables, key, arc, gc, rpc>>

-----------------------------------------------------------------------------
(* allocate_port_locked: linear probing from the cursor.                    *)

\* The i-th port the loop looks at.  A cursor outside the range (0, after the
\* u16 wrapped) restarts at NAT_PORT_START.
Probe(i) ==
    LET start == IF port_index \in Port THEN port_index ELSE NAT_PORT_START
        q     == start + i
    IN  IF q <= NAT_PORT_END THEN q ELSE q - Total

\* One probe too few.
ProbesShort == 0 .. (Total - 2)

Probes == 0 .. (Total - 1)

FreeProbes == {i \in Probes : port_map[Probe(i)] = None}

\* fetch_add(1) on the u16 cursor after port p was taken from it.
CursorAfter(p) == IF p = NAT_PORT_END THEN 0 ELSE p + 1

\* A session for the flow of task t is put in both maps.
TakePort(t, p) ==
    /\ port_index' = CursorAfter(p)
    /\ port_map' = [port_map EXCEPT ![p] = key[t]]
    /\ last_active' = [last_active EXCEPT ![p] = now]
    /\ addr_map' = [addr_map EXCEPT ![key[t]] = p]
    /\ port' = [port EXCEPT ![t] = p]

\* An allocator that forgets to look at port_map.
AllocUnchecked(t) ==
    /\ pc[t] = "alloc"
    /\ TakePort(t, Probe(0))
    /\ pc' = [pc EXCEPT ![t] = "some"]
    /\ UNCHANGED <<now, key, arc, gc, rpc>>

\* Under both write locks: the first free port is taken, or, when there is none,
\* the new connection is refused and nothing is evicted.
Alloc(t) ==
    /\ pc[t] = "alloc"
    /\ \/ /\ \E i \in FreeProbes : /\ \A j \in FreeProbes : i <= j
                                   /\ TakePort(t, Probe(i))
          /\ pc' = [pc EXCEPT ![t] = "some"]
       \/ /\ FreeProbes = {}
          /\ port_index' = CursorAfter(Probe(Total - 1))
          /\ pc' = [pc EXCEPT ![t] = "none"]
          /\ UNCHANGED <<addr_map, port_map, last_active, port>>
    /\ UNCHANGED <<now, key, arc, gc, rpc>>

-----------------------------------------------------------------------------
(* lookup_back                                                              *)

\* The entry is cloned under the read lock, which is then released.
LookupBack(t, p) ==
    /\ pc[t] = "idle"
    /\ port' = [port EXCEPT ![t] = p]
    /\ \/ /\ port_map[p] = None
          /\ pc' = [pc EXCEPT ![t] = "none"]
          /\ UNCHANGED <<key, arc>>
       \/ /\ port_map[p] # None
          /\ pc' = [pc EXCEPT ![t] = "touch"]
          /\ key' = [key EXCEPT ![t] = port_map[p]]
          /\ arc' = [arc EXCEPT ![t] = p]
    /\ UNCHANGED <<now, tables, gc, rpc>>

\* The clone is refreshed; in the table that shows only while it is there.
Touch(t) ==
    /\ pc[t] = "touch"
    /\ last_active' = IF arc[t] # None THEN Refreshed(arc[t]) ELSE last_active
    /\ pc' = [pc EXCEPT ![t] = "some"]
    /\ arc' = [arc EXCEPT ![t] = None]
    /\ UNCHANGED <<now, addr_map, port_map, port_index, key, port, gc, rpc>>

\* The caller takes the answer; what it does with it is in SystemTcp.
Return(t) ==
    /\ pc[t] \in {"some", "none"}
    /\ pc' = [pc EXCEPT ![t] = "idle"]
    /\ key' = [key EXCEPT ![t] = None]
    /\ port' = [port EXCEPT ![t] = None]
    /\ UNCHANGED <<now, tables, arc, gc, rpc>>

-----------------------------------------------------------------------------
(* gc: one task, woken every Timeout / 2.                                   *)

Expired == {p \in Port : port_map[p] # None /\ now - last_active[p] > Timeout}

\* The expired sessions are collected under the port_map read lock only.
\* With nothing expired the pass ends there.
GcScan ==
    /\ gc.pc = "idle"
    /\ Expired # {}
    /\ gc' = [pc |-> "wait", expired |-> {<<p, port_map[p]>> : p \in Expired}]
    /\ UNCHANGED <<now, tables, call, rpc>>

GcLock ==
    /\ gc.pc = "wait"
    /\ AddrWritable
    /\ gc' = [gc EXCEPT !.pc = "remove"]
    /\ UNCHANGED <<now, tables, call, rpc>>

\* The GC that only cleans port_map.
GcRemoveHalf ==
    /\ gc.pc = "remove"
    /\ Unlink({e[1] : e \in gc.expired})
    /\ gc' = [pc |-> "idle", expired |-> {}]
    /\ UNCHANGED <<now, addr_map, port_index, pc, key, port, rpc>>

\* Everything collected is removed from both maps, without a second look.
GcRemove ==
    /\ gc.pc = "remove"
    /\ Unlink({e[1] : e \in gc.expired})
    /\ addr_map' = [k \in Key |-> IF \E e \in gc.expired : e[2] = k THEN None
                                  ELSE addr_map[k]]
    /\ gc' = [pc |-> "idle", expired |-> {}]
    /\ UNCHANGED <<now, port_index, pc, key, port, rpc>>

-----------------------------------------------------------------------------
(* clear: two statements, each with its own lock.                           *)

ClearAddr(r) ==
    /\ rpc[r] = "idle"
    /\ AddrWritable
    /\ addr_map' = [k \in Key |-> None]
    /\ rpc' = [rpc EXCEPT ![r] = "port"]
    /\ UNCHANGED <<now, port_map, last_active, port_index, call, gc>>

ClearPort(r) ==
    /\ rpc[r] = "port"
    /\ Unlink(Port)
    /\ rpc' = [rpc EXCEPT ![r] = "idle"]
    /\ UNCHANGED <<now, addr_map, port_index, pc, key, port, gc>>

Tick ==
    /\ now < MaxTime
    /\ now' = now + 1
    /\ UNCHANGED <<tables, call, gc, rpc>>

-----------------------------------------------------------------------------

\* One step of a call that is under way.
Step(t) == Get(t) \/ RefreshHit(t) \/ Recheck(t) \/ Alloc(t) \/ Touch(t)

Gc == GcScan \/ GcLock \/ GcRemove

Clear == \E r \in Reset : ClearAddr(r) \/ ClearPort(r)

\* Everything but the network reset: the whole of the NAT on the platforms
\* that do not wire the interface monitor, and in the mixed stack.
NextNoReset ==
    \/ \E t \in Task :
        \/ \E k \in Key : LookupOrInsert(t, k)
        \/ \E p \in Port : LookupBack(t, p)
        \/ Step(t)
        \/ Return(t)
    \/ Gc
    \/ Tick

Next == NextNoReset \/ Clear

SpecNoReset == Init /\ [][NextNoReset]_vars

Spec == Init /\ [][Next]_vars

\* tokio polls every ready task (WF) and its RwLock is a fair queue, so a task
\* waiting for a lock that is released again and again gets it (SF).
Fairness ==
    /\ \A t \in Task :
        /\ SF_vars(Get(t)) /\ SF_vars(Recheck(t))
        /\ WF_vars(RefreshHit(t)) /\ WF_vars(Alloc(t)) /\ WF_vars(Touch(t))
    /\ SF_vars(GcLock) /\ WF_vars(GcRemove)

FairSpecNoReset == SpecNoReset /\ Fairness

-----------------------------------------------------------------------------
(* The inductive invariants behind the theorems.                            *)

\* A call knows its flow, and on the fast path its port.
CallInv ==
    \A t \in Task :
        /\ pc[t] \in {"get", "refresh", "recheck", "alloc"} => key[t] \in Key
        /\ pc[t] = "refresh" => port[t] \in Port

\* The addr_map write guard excludes every other guard.
LockInv ==
    \A t \in Task : pc[t] = "alloc" =>
        /\ gc.pc # "remove"
        /\ \A u \in Task : pc[u] \in {"refresh", "alloc"} => u = t

GcLockInv == gc.pc = "remove" => \A t \in Task : pc[t] \notin {"refresh", "alloc"}

\* What a guard protects stays as it was when the guard was taken.
GuardInv ==
    \A t \in Task :
        /\ pc[t] = "refresh" => addr_map[key[t]] = port[t]
        /\ pc[t] = "alloc" => addr_map[key[t]] = None

\* What GC has collected is still in the table.
CollectedInv == \A e \in gc.expired : port_map[e[1]] = e[2]

-----------------------------------------------------------------------------
(* Properties                                                               *)

\* The two maps are inverse to each other whenever no critical section is
\* half done: what lookup_or_insert answers to a flow is what lookup_back
\* undoes.
MapsAgree ==
    \A k \in Key, p \in Port : addr_map[k] = p <=> port_map[p] = k

\* The inductive invariant: MapsAgree with what protects it.
NatInv ==
    TypeOK /\ CallInv /\ LockInv /\ GcLockInv /\ GuardInv /\ CollectedInv /\ MapsAgree

\* A port given out by lookup_or_insert leads back to the flow it was given to
\* at the moment the call returns, also on the fast path, which reads port_map
\* after addr_map.
AnswerLeadsBack ==
    [][\A t \in Task :
         pc[t] \in {"refresh", "recheck", "alloc"} /\ pc'[t] = "some"
            => addr_map'[key[t]] = port'[t] /\ port_map'[port'[t]] = key[t]]_vars

\* A new connection is refused only when every port carries a session.
RefusedOnlyWhenFull ==
    [][\A t \in Task : pc[t] = "alloc" /\ pc'[t] = "none"
            => \A p \in Port : port_map[p] # None]_vars

\* Two flows never hold the same port: the doc of lookup_or_insert names the
\* mixed-up replies that would follow.
NoSharedPort ==
    \A k1, k2 \in Key : addr_map[k1] # None /\ addr_map[k1] = addr_map[k2] => k1 = k2

\* GC removes timed-out sessions, as its doc says: when a session goes, it has
\* been idle for longer than Timeout.
GcRemovesOnlyExpired ==
    [][GcRemove => \A e \in gc.expired :
                      port_map[e[1]] = e[2] => now - last_active[e[1]] > Timeout]_vars

\* Every call of lookup_or_insert returns: the lock order lets no task wait
\* for ever.
LookupReturns ==
    \A t \in Task : pc[t] = "get" ~> pc[t] \in {"some", "none"}

\* The NAT without the network reset is a table of port leases.
Lease == INSTANCE PortLease WITH
            Flow <- Key, PortSet <- Port, NoLease <- None, lease <- addr_map

LeaseSpec == Lease!Spec
=============================================================================
