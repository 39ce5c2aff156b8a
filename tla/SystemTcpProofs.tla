--------------------------- MODULE SystemTcpProofs ---------------------------
(***************************************************************************)
(* Theorems about the NAT and the TCP path of the system stack around it,  *)
(* for any number of flows and ports, with the network reset and the GC.   *)
(***************************************************************************)
EXTENDS SystemTcp, TLAPS

-----------------------------------------------------------------------------
(* The NAT                                                                  *)

USE PortAssumption, NoneAssumption, TimeAssumption

\* The type invariant with what the calls know of their arguments.
TypeInv == TypeOK /\ CallInv

-----------------------------------------------------------------------------
(* Linear probing                                                           *)

\* Every port the loop of allocate_port_locked looks at is a NAT port.
LEMMA ProbeInPort ==
    ASSUME port_index \in Port \cup {0}, NEW i \in 0 .. (Total - 1)
    PROVE  Probe(i) \in Port
BY DEF Probe, Port, Total

\* The loop of allocate_port_locked looks at every NAT port.
LEMMA ProbesCoverPorts ==
    ASSUME port_index \in Port \cup {0}, NEW p \in Port
    PROVE  \E i \in Probes : Probe(i) = p
<1> DEFINE start == IF port_index \in Port THEN port_index ELSE NAT_PORT_START
<1>1. start \in Port
  BY DEF Port
<1>2. CASE start <= p
  <2>1. p - start \in Probes /\ Probe(p - start) = p
    BY <1>1, <1>2 DEF Probe, Probes, Port, Total
  <2> QED BY <2>1
<1>3. CASE p < start
  <2>1. p - start + Total \in Probes /\ Probe(p - start + Total) = p
    BY <1>1, <1>3 DEF Probe, Probes, Port, Total
  <2> QED BY <2>1
<1> QED BY <1>1, <1>2, <1>3 DEF Port

\* The cursor stays a port or wraps to 0.
LEMMA CursorType == \A p \in Port : CursorAfter(p) \in Port \cup {0}
BY DEF CursorAfter, Port

-----------------------------------------------------------------------------
(* Types                                                                    *)

LEMMA RefreshedType ==
    ASSUME TypeOK, NEW p \in Port
    PROVE  Refreshed(p) \in [Port -> Nat]
BY DEF TypeOK, Refreshed

LEMMA TypeInvInit == Init => TypeInv
BY DEF Init, TypeInv, TypeOK, CallInv, Port

LEMMA TypeInvStep == TypeInv /\ [Next]_vars => TypeInv'
<1> SUFFICES ASSUME TypeInv, [Next]_vars PROVE TypeInv'
  OBVIOUS
<1> USE DEF TypeInv, TypeOK, CallInv
<1>1. ASSUME NEW t \in Task, NEW k \in Key, LookupOrInsert(t, k) PROVE TypeInv'
  BY <1>1 DEF LookupOrInsert, tables
<1>2. ASSUME NEW t \in Task, NEW p \in Port, LookupBack(t, p) PROVE TypeInv'
  BY <1>2 DEF LookupBack, tables
<1>3. ASSUME NEW t \in Task, Get(t) PROVE TypeInv'
  <2>1. addr_map[key[t]] \in Port \cup {None}
    BY <1>3 DEF Get
  <2> QED BY <1>3, <2>1 DEF Get, tables
<1>4. ASSUME NEW t \in Task, RefreshHit(t) PROVE TypeInv'
  <2>1. last_active' \in [Port -> Nat]
    BY <1>4, RefreshedType DEF RefreshHit
  <2> QED BY <1>4, <2>1 DEF RefreshHit
<1>5. ASSUME NEW t \in Task, Recheck(t) PROVE TypeInv'
  <2>1. addr_map[key[t]] \in Port \cup {None}
    BY <1>5 DEF Recheck
  <2> QED BY <1>5, <2>1 DEF Recheck, tables
<1>6. ASSUME NEW t \in Task, Alloc(t) PROVE TypeInv'
  <2>1. key[t] \in Key
    BY <1>6 DEF Alloc
  <2>2. CASE FreeProbes = {} /\ port_index' = CursorAfter(Probe(Total - 1))
             /\ pc' = [pc EXCEPT ![t] = "none"]
             /\ UNCHANGED <<addr_map, port_map, last_active, port>>
    <3>1. Probe(Total - 1) \in Port
      BY ProbeInPort, Total - 1 \in 0 .. (Total - 1) DEF Total
    <3>2. port_index' \in Port \cup {0}
      BY <2>2, <3>1, CursorType
    <3> QED BY <1>6, <2>2, <3>2 DEF Alloc
  <2>3. CASE /\ \E i \in FreeProbes : TakePort(t, Probe(i))
             /\ pc' = [pc EXCEPT ![t] = "some"]
    <3>1. PICK i \in FreeProbes : TakePort(t, Probe(i))
      BY <2>3
    <3>2. Probe(i) \in Port
      BY <3>1, ProbeInPort DEF FreeProbes, Probes
    <3>3. port_index' \in Port \cup {0}
      BY <3>1, <3>2, CursorType DEF TakePort
    <3> QED BY <1>6, <2>1, <2>3, <3>1, <3>2, <3>3 DEF Alloc, TakePort
  <2> QED BY <1>6, <2>2, <2>3 DEF Alloc
<1>7. ASSUME NEW t \in Task, Touch(t) PROVE TypeInv'
  <2>1. last_active' \in [Port -> Nat]
    BY <1>7, RefreshedType DEF Touch
  <2> QED BY <1>7, <2>1 DEF Touch
<1>8. ASSUME NEW t \in Task, Return(t) PROVE TypeInv'
  BY <1>8 DEF Return, tables
<1>9. ASSUME GcScan PROVE TypeInv'
  BY <1>9 DEF GcScan, Expired, tables, call
<1>10. ASSUME GcLock PROVE TypeInv'
  BY <1>10 DEF GcLock, tables, call
<1>11. ASSUME GcRemove PROVE TypeInv'
  BY <1>11 DEF GcRemove, Unlink
<1>12. ASSUME NEW r \in Reset, ClearAddr(r) PROVE TypeInv'
  BY <1>12 DEF ClearAddr, call
<1>13. ASSUME NEW r \in Reset, ClearPort(r) PROVE TypeInv'
  BY <1>13 DEF ClearPort, Unlink
<1>14. ASSUME Tick PROVE TypeInv'
  BY <1>14 DEF Tick, tables, call
<1>15. ASSUME UNCHANGED vars PROVE TypeInv'
  BY <1>15 DEF vars
<1> QED
  BY <1>1, <1>2, <1>3, <1>4, <1>5, <1>6, <1>7, <1>8, <1>9, <1>10, <1>11,
     <1>12, <1>13, <1>14, <1>15 DEF Next, NextNoReset, Step, Gc, Clear

\* Type correctness of the NAT, network reset included: in particular the u16
\* cursor is always a NAT port or has just wrapped to 0.
THEOREM TypeCorrect == Spec => []TypeOK
<1>1. TypeInv => TypeOK
  BY DEF TypeInv
<1> QED BY <1>1, TypeInvInit, TypeInvStep, PTL DEF Spec

-----------------------------------------------------------------------------
(* The two maps agree                                                       *)

LEMMA NatInvInit == Init => NatInv
<1> SUFFICES ASSUME Init PROVE NatInv
  OBVIOUS
<1>1. TypeOK /\ CallInv
  BY TypeInvInit DEF TypeInv
<1>2. LockInv /\ GcLockInv /\ GuardInv /\ CollectedInv /\ MapsAgree
  BY DEF Init, LockInv, GcLockInv, GuardInv, CollectedInv, MapsAgree
<1> QED BY <1>1, <1>2 DEF NatInv

LEMMA NatInvStep == NatInv /\ [NextNoReset]_vars => NatInv'
<1> SUFFICES ASSUME NatInv, [NextNoReset]_vars PROVE NatInv'
  OBVIOUS
<1>0. (TypeOK /\ CallInv)'
  BY TypeInvStep DEF NatInv, TypeInv, Next
<1> USE <1>0 DEF NatInv, TypeOK, CallInv
<1> DEFINE Rest == LockInv /\ GcLockInv /\ GuardInv /\ CollectedInv /\ MapsAgree
<1> SUFFICES Rest'
  OBVIOUS
<1> USE DEF LockInv, GcLockInv, GuardInv, CollectedInv, MapsAgree,
            AddrReadable, AddrWritable, AddrReadHeld, AddrWriteHeld
<1>1. ASSUME NEW t \in Task, NEW k \in Key, LookupOrInsert(t, k) PROVE Rest'
  BY <1>1 DEF LookupOrInsert, tables
<1>2. ASSUME NEW t \in Task, NEW p \in Port, LookupBack(t, p) PROVE Rest'
  BY <1>2 DEF LookupBack, tables
<1>3. ASSUME NEW t \in Task, Get(t) PROVE Rest'
  BY <1>3 DEF Get, tables
<1>4. ASSUME NEW t \in Task, RefreshHit(t) PROVE Rest'
  BY <1>4 DEF RefreshHit
<1>5. ASSUME NEW t \in Task, Recheck(t) PROVE Rest'
  BY <1>5 DEF Recheck, tables
<1>6. ASSUME NEW t \in Task, Alloc(t) PROVE Rest'
  <2>1. CASE FreeProbes = {} /\ pc' = [pc EXCEPT ![t] = "none"]
             /\ UNCHANGED <<addr_map, port_map, last_active, port>>
    BY <1>6, <2>1 DEF Alloc
  <2>2. CASE /\ \E i \in FreeProbes : TakePort(t, Probe(i))
             /\ pc' = [pc EXCEPT ![t] = "some"]
    <3>1. PICK p \in Port : port_map[p] = None /\ TakePort(t, p)
      BY <2>2, ProbeInPort DEF FreeProbes, Probes
    <3>2. key[t] \in Key /\ addr_map[key[t]] = None
      BY <1>6 DEF Alloc
    <3>3. UNCHANGED <<key, gc>>
      BY <1>6 DEF Alloc
    <3>4. MapsAgree'
      BY <3>1, <3>2 DEF TakePort
    <3>5. CollectedInv'
      BY <3>1, <3>3 DEF TakePort
    <3>6. \A u \in Task : pc'[u] \notin {"refresh", "alloc"}
      BY <1>6, <2>2 DEF Alloc
    <3>7. LockInv' /\ GcLockInv' /\ GuardInv'
      BY <3>6
    <3> QED BY <3>4, <3>5, <3>7
  <2> QED BY <1>6, <2>1, <2>2 DEF Alloc
<1>7. ASSUME NEW t \in Task, Touch(t) PROVE Rest'
  BY <1>7 DEF Touch
<1>8. ASSUME NEW t \in Task, Return(t) PROVE Rest'
  BY <1>8 DEF Return, tables
<1>9. ASSUME GcScan PROVE Rest'
  BY <1>9 DEF GcScan, Expired, tables, call
<1>10. ASSUME GcLock PROVE Rest'
  BY <1>10 DEF GcLock, tables, call
<1>11. ASSUME GcRemove PROVE Rest'
  <2>1. \A e \in gc.expired : e[1] \in Port /\ e[2] \in Key /\ port_map[e[1]] = e[2]
                              /\ addr_map[e[2]] = e[1]
    OBVIOUS
  <2>2. MapsAgree'
    <3> SUFFICES ASSUME NEW k \in Key, NEW p \in Port
                 PROVE  addr_map'[k] = p <=> port_map'[p] = k
      OBVIOUS
    <3>1. addr_map'[k] = IF \E e \in gc.expired : e[2] = k THEN None ELSE addr_map[k]
      BY <1>11 DEF GcRemove
    <3>2. port_map'[p] = IF \E e \in gc.expired : e[1] = p THEN None ELSE port_map[p]
      BY <1>11 DEF GcRemove, Unlink
    <3> QED BY <2>1, <3>1, <3>2
  <2>3. LockInv' /\ GcLockInv' /\ GuardInv' /\ CollectedInv'
    BY <1>11 DEF GcRemove, Unlink
  <2> QED BY <2>2, <2>3
<1>12. ASSUME Tick PROVE Rest'
  BY <1>12 DEF Tick, tables, call
<1>13. ASSUME UNCHANGED vars PROVE Rest'
  BY <1>13 DEF vars
<1> QED
  BY <1>1, <1>2, <1>3, <1>4, <1>5, <1>6, <1>7, <1>8, <1>9, <1>10, <1>11,
     <1>12, <1>13 DEF NextNoReset, Step, Gc

LEMMA NatInvariant == SpecNoReset => []NatInv
BY NatInvInit, NatInvStep, PTL DEF SpecNoReset

\* Without a network reset, addr_map and port_map are inverse to each other in
\* every reachable state: what lookup_or_insert gives a flow, lookup_back
\* undoes, whatever GC and the other callers do in between.
THEOREM Agreement == SpecNoReset => []MapsAgree
<1>1. NatInv => MapsAgree
  BY DEF NatInv
<1> QED BY <1>1, NatInvariant, PTL

-----------------------------------------------------------------------------
(* What the calls answer                                                    *)

\* Without a network reset, a port lookup_or_insert returns leads back to its
\* flow at the moment of the return, on the fast and on the slow path.
THEOREM AnswersLeadBack == SpecNoReset => AnswerLeadsBack
<1> DEFINE A == \A t \in Task :
         pc[t] \in {"refresh", "recheck", "alloc"} /\ pc'[t] = "some"
            => addr_map'[key[t]] = port'[t] /\ port_map'[port'[t]] = key[t]
<1>1. NatInv /\ NatInv' /\ [NextNoReset]_vars => [A]_vars
  <2> SUFFICES ASSUME NatInv, NatInv', NextNoReset, NEW t \in Task,
                      pc[t] \in {"refresh", "recheck", "alloc"}, pc'[t] = "some"
               PROVE  addr_map'[key[t]] = port'[t] /\ port_map'[port'[t]] = key[t]
    BY DEF A
  <2> USE DEF NatInv, TypeOK, CallInv
  <2>1. key[t] \in Key
    OBVIOUS
  <2>2. RefreshHit(t) \/ Recheck(t) \/ Alloc(t)
    BY DEF NextNoReset, Step, Gc, LookupOrInsert, LookupBack, Get, Touch, Return,
           RefreshHit, Recheck, Alloc, GcScan, GcLock, GcRemove, Tick, call
  <2>3. port'[t] \in Port /\ addr_map'[key[t]] = port'[t]
    <3>1. CASE RefreshHit(t)
      BY <3>1 DEF RefreshHit, GuardInv
    <3>2. CASE Recheck(t)
      BY <2>1, <3>2 DEF Recheck, tables
    <3>3. CASE Alloc(t)
      <4>1. PICK i \in FreeProbes : TakePort(t, Probe(i))
        BY <3>3 DEF Alloc
      <4>2. Probe(i) \in Port
        BY <4>1, ProbeInPort DEF FreeProbes, Probes
      <4> QED BY <2>1, <4>1, <4>2 DEF TakePort
    <3> QED BY <2>2, <3>1, <3>2, <3>3
  <2> QED BY <2>1, <2>3 DEF MapsAgree
<1> QED BY <1>1, NatInvariant, PTL DEF SpecNoReset, AnswerLeadsBack

\* With the network reset too, allocate_port_locked refuses a connection only
\* when every port carries a session: the probe count is exact.
THEOREM RefusedExactly == Spec => RefusedOnlyWhenFull
<1> DEFINE A == \A t \in Task : pc[t] = "alloc" /\ pc'[t] = "none"
                    => \A p \in Port : port_map[p] # None
<1>1. TypeInv /\ [Next]_vars => [A]_vars
  <2> SUFFICES ASSUME TypeInv, Next, NEW t \in Task, pc[t] = "alloc",
                      pc'[t] = "none", NEW p \in Port
               PROVE  port_map[p] # None
    BY DEF A
  <2> USE DEF TypeInv, TypeOK, CallInv
  <2>1. Alloc(t)
    BY DEF Next, NextNoReset, Step, Gc, Clear, LookupOrInsert, LookupBack, Get,
           Touch, Return, RefreshHit, Recheck, Alloc, GcScan, GcLock, GcRemove,
           ClearAddr, ClearPort, Tick, call
  <2>2. FreeProbes = {}
    BY <2>1 DEF Alloc
  <2>3. PICK i \in Probes : Probe(i) = p
    BY ProbesCoverPorts
  <2> QED BY <2>2, <2>3 DEF FreeProbes
<1>2. Spec => []TypeInv
  BY TypeInvInit, TypeInvStep, PTL DEF Spec
<1> QED BY <1>1, <1>2, PTL DEF Spec, RefusedOnlyWhenFull

-----------------------------------------------------------------------------
(* Refinement                                                               *)

\* Without a network reset the NAT implements the table of port leases: a port
\* is granted only when free, never moved and never taken over.
THEOREM ImplementsLease == SpecNoReset => LeaseSpec
<1>1. Init => Lease!Init
  BY DEF Init, Lease!Init
<1>2. NatInv /\ [NextNoReset]_vars => [Lease!Next]_addr_map
  <2> SUFFICES ASSUME NatInv, [NextNoReset]_vars PROVE [Lease!Next]_addr_map
    OBVIOUS
  <2> USE DEF NatInv, TypeOK, CallInv
  <2>1. ASSUME NEW t \in Task, Alloc(t) PROVE [Lease!Next]_addr_map
    <3>1. CASE UNCHANGED addr_map
      BY <3>1
    <3>2. CASE \E i \in FreeProbes : TakePort(t, Probe(i))
      <4>1. PICK p \in Port : port_map[p] = None /\ TakePort(t, p)
        BY <3>2, ProbeInPort DEF FreeProbes, Probes
      <4>2. key[t] \in Key /\ addr_map[key[t]] = None
        BY <2>1 DEF Alloc, GuardInv
      <4>3. \A g \in Key : addr_map[g] # p
        BY <4>1 DEF MapsAgree
      <4>4. Lease!Grant(key[t], p)
        BY <4>1, <4>2, <4>3 DEF Lease!Grant, TakePort
      <4> QED BY <4>2, <4>4 DEF Lease!Next
    <3> QED BY <2>1, <3>1, <3>2 DEF Alloc
  <2>2. ASSUME GcRemove PROVE [Lease!Next]_addr_map
    <3> DEFINE S == {k \in Key : \E e \in gc.expired : e[2] = k}
    <3>1. Lease!Revoke(S)
      BY <2>2 DEF GcRemove, Lease!Revoke
    <3>2. S \in SUBSET Key
      OBVIOUS
    <3> QED BY <3>1, <3>2 DEF Lease!Next
  <2>3. CASE UNCHANGED addr_map
    BY <2>3
  <2> QED
    BY <2>1, <2>2, <2>3 DEF NextNoReset, Step, Gc, LookupOrInsert, LookupBack, Get,
       Touch, Return, RefreshHit, Recheck, GcScan, GcLock, Tick, tables, vars
<1> QED BY <1>1, <1>2, NatInvariant, PTL DEF SpecNoReset, LeaseSpec, Lease!Spec

-----------------------------------------------------------------------------
USE PortAssumption, NoneAssumption, TaskAssumption, ListenerAssumption

-----------------------------------------------------------------------------
(* The path uses the NAT as the NAT lets itself be used                     *)

\* Every step of the read loop, the accept loops and the application is a step
\* of the NAT or leaves it alone.
LEMMA TcpStepIsNatStep == [TcpNext]_allVars => [Next]_vars
<1> SUFFICES ASSUME [TcpNext]_allVars PROVE [Next]_vars
  OBVIOUS
<1> USE DEF Next, NextNoReset
<1>1. ASSUME NEW t \in Task, Return(t) PROVE Next
  BY <1>1
<1>2. ASSUME NEW k \in Key, ClientPacket(k) PROVE Next
  BY <1>2 DEF ClientPacket
<1>3. ASSUME NEW c \in Conn, ListenerPacket(c) PROVE Next
  BY <1>3 DEF ListenerPacket, Conn
<1>4. ASSUME NEW c \in Conn, Accept(c) PROVE Next
  BY <1>4 DEF Accept, Conn
<1>5. ASSUME Forward \/ DropPacket \/ DeliverReply \/ HandOver \/ EndAccept \/ ServeDns
      PROVE Next
  BY <1>1, <1>5 DEF Forward, DropPacket, DeliverReply, HandOver, EndAccept, ServeDns,
     CloseStream, Done, Listener
<1>6. ASSUME NEW l \in Listener, DropStream(l) PROVE Next
  BY <1>1, <1>6 DEF DropStream, CloseStream, Done
<1>7. ASSUME NatStep \/ NatGcRemove \/ NatClear PROVE Next
  BY <1>7 DEF NatStep, NatGcRemove, NatClear, Gc
<1>8. ASSUME AppTakes \/ AppCloses \/ \E c \in Conn : CloseConn(c)
      PROVE UNCHANGED vars
  BY <1>8 DEF AppTakes, AppCloses, CloseConn
<1>9. ASSUME UNCHANGED allVars PROVE UNCHANGED vars
  BY <1>9 DEF allVars
<1> QED
  BY <1>2, <1>3, <1>4, <1>5, <1>6, <1>7, <1>8, <1>9 DEF TcpNext

\* What is proved of the NAT under Spec holds of the path built on it: the
\* read loop and the accept loops call it only as its module supposes.
THEOREM TcpPathUsesNat == TcpSpec => Spec
BY TcpStepIsNatStep, PTL DEF TcpSpec, TcpInit, Spec

-----------------------------------------------------------------------------
(* The inductive invariant                                                  *)

LEMMA TcpInvInit == TcpInit => TcpInv
<1> SUFFICES ASSUME TcpInit PROVE TcpInv
  OBVIOUS
<1>1. TypeOK /\ CallInv
  BY TypeInvInit DEF TcpInit, TypeInv
<1>2. TcpTypeOK /\ AnswerInv /\ ListenerInv /\ BacklogInv /\ SessionInv
  BY DEF TcpInit, Init, TcpTypeOK, AnswerInv, ListenerInv, BacklogInv, SessionInv
<1> QED BY <1>1, <1>2 DEF TcpInv

\* What a step of the NAT does to the calls: one that finds its session knows
\* flow and port, whoever makes it.
LEMMA AnswerStep ==
    ASSUME TypeInv, TypeInv', AnswerInv, [Next]_vars PROVE AnswerInv'
<1> USE DEF TypeInv, TypeOK, CallInv, AnswerInv
<1>1. ASSUME NEW t \in Task, NEW k \in Key, LookupOrInsert(t, k) PROVE AnswerInv'
  BY <1>1 DEF LookupOrInsert, tables
<1>2. ASSUME NEW t \in Task, NEW p \in Port, LookupBack(t, p) PROVE AnswerInv'
  BY <1>2 DEF LookupBack, tables
<1>3. ASSUME NEW t \in Task, Get(t) \/ RefreshHit(t) \/ Touch(t) \/ Return(t)
      PROVE AnswerInv'
  BY <1>3 DEF Get, RefreshHit, Touch, Return
<1>4. ASSUME NEW t \in Task, Recheck(t) PROVE AnswerInv'
  BY <1>4 DEF Recheck
<1>5. ASSUME NEW t \in Task, Alloc(t) PROVE AnswerInv'
  <2>1. CASE FreeProbes = {} /\ pc' = [pc EXCEPT ![t] = "none"] /\ UNCHANGED port
    BY <1>5, <2>1 DEF Alloc
  <2>2. CASE /\ \E i \in FreeProbes : TakePort(t, Probe(i))
             /\ pc' = [pc EXCEPT ![t] = "some"]
    <3>1. PICK p \in Port : TakePort(t, p)
      BY <2>2, ProbeInPort DEF FreeProbes, Probes
    <3> QED BY <1>5, <2>2, <3>1 DEF Alloc, TakePort
  <2> QED BY <1>5, <2>1, <2>2 DEF Alloc
<1>6. ASSUME UNCHANGED <<pc, key, port>> PROVE AnswerInv'
  BY <1>6
<1> QED
  BY <1>1, <1>2, <1>3, <1>4, <1>5, <1>6 DEF Next, NextNoReset, Step, Gc, Clear,
     GcScan, GcLock, GcRemove, ClearAddr, ClearPort, Tick, call, vars

\* Between GC and reset a session that is in the table stays there.
LEMMA SessionStays ==
    ASSUME TypeInv, NatStep, NEW p \in Port, port_map[p] # None
    PROVE  port_map'[p] = port_map[p]
<1> USE DEF TypeInv, TypeOK
<1>1. ASSUME NEW t \in Task, Alloc(t) PROVE port_map'[p] = port_map[p]
  BY <1>1 DEF Alloc, FreeProbes, TakePort
<1> QED
  BY <1>1 DEF NatStep, Step, Get, RefreshHit, Recheck, Touch, GcScan, GcLock, Tick,
     tables

LEMMA TcpInvStep == TcpInv /\ [TcpNext]_allVars => TcpInv'
<1> SUFFICES ASSUME TcpInv, [TcpNext]_allVars PROVE TcpInv'
  OBVIOUS
<1>0. TypeInv /\ TypeInv' /\ AnswerInv'
  BY TcpStepIsNatStep, TypeInvStep, AnswerStep DEF TcpInv, TypeInv
<1> DEFINE Rest == TcpTypeOK /\ ListenerInv /\ BacklogInv /\ SessionInv
<1> SUFFICES Rest'
  BY <1>0 DEF TcpInv, TypeInv
<1> USE DEF TcpInv, TypeOK, TcpTypeOK, ListenerInv, BacklogInv, SessionInv
<1>1. ASSUME NEW k \in Key, ClientPacket(k) PROVE Rest'
  BY <1>1 DEF ClientPacket, LookupOrInsert, tables, EffectivePort
<1>2. ASSUME NEW c \in Conn, ListenerPacket(c) PROVE Rest'
  BY <1>2 DEF ListenerPacket, LookupBack, tables, EffectivePort
<1>3. ASSUME NEW c \in Conn, Accept(c) PROVE Rest'
  BY <1>3 DEF Accept, LookupBack, tables, EffectivePort
<1>4. ASSUME Forward PROVE Rest'
  <2> DEFINE c == <<port["tun"], EffectivePort(key["tun"])>>
  <2>1. key["tun"] \in Key /\ c \in Conn /\ c[1] = port["tun"]
        /\ c[2] = EffectivePort(key["tun"])
    BY <1>4 DEF Forward, AnswerInv, Conn, EffectivePort, Listener
  <2>2. UNCHANGED port_map /\ op' = "fwd"
    BY <1>4 DEF Forward, Done, Return, tables
  <2>3. CASE UNCHANGED <<conn, backlog, sound>>
    BY <2>2, <2>3 DEF EffectivePort
  <2>4. CASE /\ conn[c] = None
             /\ conn' = [conn EXCEPT ![c] = key["tun"]]
             /\ backlog' = backlog \cup {c}
             /\ sound' = IF port_map[c[1]] = key["tun"] THEN sound \cup {c} ELSE sound
    <3> HIDE DEF c
    <3>1. key["tun"] # None
      BY <2>1
    <3>2. TcpTypeOK'
      BY <2>1, <2>2, <2>4
    <3>3. \A d \in Conn : conn'[d] = IF d = c THEN key["tun"] ELSE conn[d]
      BY <2>1, <2>4
    <3>4. ListenerInv'
      BY <2>1, <3>3 DEF EffectivePort
    <3>5. BacklogInv'
      BY <2>1, <2>4, <3>1, <3>3
    <3>6. SessionInv'
      BY <2>1, <2>2, <2>4, <3>1, <3>3
    <3> QED BY <3>2, <3>4, <3>5, <3>6
  <2> QED BY <1>4, <2>3, <2>4 DEF Forward
<1>5. ASSUME DropPacket \/ DeliverReply \/ HandOver \/ ServeDns PROVE Rest'
  BY <1>5 DEF DropPacket, DeliverReply, HandOver, ServeDns, Done, Return, tables,
     EffectivePort
<1>6. ASSUME NEW l \in Listener, CloseStream(l) PROVE Rest'
  <2>1. UNCHANGED <<port_map, op, backlog>>
    BY <1>6 DEF CloseStream, Done, Return, tables, Listener
  <2> QED BY <1>6, <2>1 DEF CloseStream, EffectivePort
<1>7. ASSUME AppTakes \/ AppCloses PROVE Rest'
  BY <1>7 DEF AppTakes, AppCloses, vars, EffectivePort
<1>8. ASSUME NEW c \in Conn, CloseConn(c) PROVE Rest'
  BY <1>8 DEF CloseConn, vars, EffectivePort
<1>9. ASSUME NatStep PROVE Rest'
  <2>1. UNCHANGED <<op, conn, backlog, sound>>
    BY <1>9 DEF NatStep, tcpVars
  <2>2. SessionInv'
    BY <1>0, <1>9, <2>1, SessionStays DEF Conn
  <2> QED BY <2>1, <2>2 DEF EffectivePort
<1>10. ASSUME NatGcRemove PROVE Rest'
  <2>1. UNCHANGED <<op, conn, backlog>>
    BY <1>10 DEF NatGcRemove
  <2>2. \A c \in sound' : c \in sound /\ port_map'[c[1]] = port_map[c[1]]
    BY <1>10 DEF NatGcRemove, GcRemove, Unlink, Conn
  <2> QED BY <2>1, <2>2 DEF EffectivePort
<1>11. ASSUME NatClear PROVE Rest'
  BY <1>11 DEF NatClear, EffectivePort
<1>12. ASSUME UNCHANGED allVars PROVE Rest'
  BY <1>12 DEF allVars, vars, tcpVars, EffectivePort
<1> QED
  BY <1>1, <1>2, <1>3, <1>4, <1>5, <1>6, <1>7, <1>8, <1>9, <1>10, <1>11, <1>12
     DEF TcpNext, DropStream, EndAccept, Listener

LEMMA TcpInvariant == TcpSpec => []TcpInv
BY TcpInvInit, TcpInvStep, PTL DEF TcpSpec

-----------------------------------------------------------------------------
(* Connections and their sessions                                           *)

\* A connection whose session neither GC nor a reset has removed: a packet of
\* its listener is sent back to its own client, and the stream accepted for it
\* carries the destination that client asked for, however the read loop, the
\* accept loops and the other flows interleave.
THEOREM SoundConnections == TcpSpec => SoundConnKeepsSession
<1> DEFINE A == \A c \in sound :
                  /\ ListenerPacket(c) => key'["tun"] = conn[c]
                  /\ Accept(c) => key'[c[2]] = conn[c]
<1>1. TcpInv /\ [TcpNext]_allVars => [A]_allVars
  <2> SUFFICES ASSUME TcpInv, NEW c \in sound PROVE
                 /\ ListenerPacket(c) => key'["tun"] = conn[c]
                 /\ Accept(c) => key'[c[2]] = conn[c]
    BY DEF A
  <2>1. /\ port_map[c[1]] = conn[c] /\ conn[c] # None /\ c[2] \in Task
        /\ key \in [Task -> Key \cup {None}]
    BY DEF TcpInv, SessionInv, TcpTypeOK, Conn, TypeOK
  <2> QED BY <2>1 DEF ListenerPacket, Accept, LookupBack
<1> QED BY <1>1, TcpInvariant, PTL DEF TcpSpec, SoundConnKeepsSession

\* With the DNS listener up, accept_loop is never given a query connection
\* whose session is alive: effective_tcp_port and the sessions agree.
THEOREM QueriesNotProxied == TcpSpec => DnsNeverProxied
<1> DEFINE A == DnsListener => \A c \in sound :
                  Accept(c) /\ c[2] = "tcp" => key'["tcp"] \notin DnsKey
<1>1. TcpInv /\ [TcpNext]_allVars => [A]_allVars
  <2> SUFFICES ASSUME TcpInv, DnsListener, NEW c \in sound, Accept(c), c[2] = "tcp"
               PROVE  key'["tcp"] \notin DnsKey
    BY DEF A
  <2>1. /\ c \in Conn /\ port_map[c[1]] = conn[c] /\ conn[c] # None
        /\ "tcp" \in Task /\ key \in [Task -> Key \cup {None}]
    BY DEF TcpInv, SessionInv, TcpTypeOK, TypeOK, Listener
  <2>2. key'["tcp"] = conn[c]
    BY <2>1 DEF Accept, LookupBack
  <2>3. EffectivePort(conn[c]) = "tcp" /\ conn[c] \in Key
    BY <2>1 DEF TcpInv, ListenerInv, TcpTypeOK
  <2> QED BY <2>2, <2>3 DEF EffectivePort
<1> QED BY <1>1, TcpInvariant, PTL DEF TcpSpec, DnsNeverProxied

\* On the TCP path too a new connection is refused only when every NAT port
\* carries a session.
THEOREM TcpRefusedExactly == TcpSpec => RefusedOnlyWhenFull
BY TcpPathUsesNat, RefusedExactly, PTL
=============================================================================
