----------------------------- MODULE PolicyRules -----------------------------
(***************************************************************************)
(* The policy rules of Linux and Android (platform/linux.rs, android.rs):  *)
(* the `ip rule add` commands setup issues, in order and with the priority *)
(* each gets, what teardown deletes again, and where the kernel then sends *)
(* a packet.  Rules, selectors and packets are abstracted to what the      *)
(* rules tell apart; one UID range, one listed interface and one TUN       *)
(* prefix per family stand for any number of them.                         *)
(***************************************************************************)
EXTENDS Integers, Sequences, FiniteSets

CONSTANTS
    PrioBase,            \* iproute2_rule_index
    NopOffset            \* 100: nop_prio is that far above

ASSUME PolicyAssumption == PrioBase \in Nat \ {0, 1} /\ NopOffset \in Nat \ {0}

NopPrio == PrioBase + NopOffset

\* A rule without its priority, as a command of setup names it.
Command(f, sel, act) == [fam |-> f, sel |-> sel, act |-> act]

\* The rules every system has.  The local table never matches the packets below.
SystemRules ==
    UNION {{[fam |-> f, sel |-> "any", act |-> "local", prio |-> 0],
            [fam |-> f, sel |-> "any", act |-> "main", prio |-> 32766]} : f \in {"v4", "v6"}}

If(cond, s) == IF cond THEN s ELSE <<>>

\* `ip rule add` (`ip`, `ip6`): the kernel refuses a rule it has, with this priority, and a
\* jump backwards.  Nobody looks at the exit status.
AddRule(rs, r) ==
    IF r.act = "nop" /\ r.prio >= NopPrio THEN rs ELSE rs \cup {r}

\* A rule without a priority is put in front of the second rule there is: one that is
\* already there, from an earlier run, is not the same rule.
KernelPrio(rs, f) ==
    LET prios == {r.prio : r \in {q \in rs : q.fam = f /\ q.act # "local"}}
        second == CHOOSE p \in prios : \A q \in prios : p <= q
    IN  IF second = 0 THEN 0 ELSE second - 1

-----------------------------------------------------------------------------
(* linux.rs setup *)

\* 1. Whatever does not carry the mark of our own sockets goes to the TUN table.
MarkRules(c, f) == If(c.mark # "none", <<Command(f, "not_mark", "tun")>>)

\* 2. Excluded UIDs jump over the rest.
UidRules(c, f) == If(c.uids, <<Command(f, "uid", "nop")>>)

\* 2. include_interface: the listed ones go to the TUN, everything else does not.
InterfaceRules(c, f) ==
    If(c.ifaces = "include", <<Command(f, "listed", "tun"), Command(f, "any", "nop")>>)
      \o If(c.ifaces = "exclude", <<Command(f, "listed", "nop")>>)

\* 3. strict_route: a family without an address is cut off.
StrictRules(c, f) == If(c.strict /\ f \notin c.fams, <<Command(f, "any", "unreachable")>>)

\* 4. The TUN's own prefix.
TunPrefixRules(c, f) == <<Command(f, "to_tun", "tun")>>

\* 5. without suppress_prefixlength.
SuppressNothing(c, f) == <<Command(f, "any", "tun")>>

\* 5. Routes of the TUN table other than the default one.
SuppressRules(c, f) == <<Command(f, "any", "tun_specific")>>

\* 6. Everything but DNS may use the routes of main other than the default one.
DnsRules(c, f) == <<Command(f, "not_dns", "main_specific")>>

\* 7. and 8.  The last three of IPv6: both halves of its addresses share a priority.
CaptureRules(c, f) ==
    IF f = "v4"
    THEN <<Command(f, "iif_tun", "nop"), Command(f, "not_lo", "tun"),
           Command(f, "lo_unspec", "tun"), Command(f, "lo_tun", "tun")>>
    ELSE <<Command(f, "iif_tun", "nop"), Command(f, "lo_low", "nop"),
           Command(f, "lo_high", "nop"), Command(f, "lo_tun", "tun"),
           Command(f, "any", "tun")>>

\* Every group but the third is for the families that have an address, IPv4 first.
Both(c, G(_, _)) ==
    If("v4" \in c.fams, G(c, "v4")) \o If("v6" \in c.fams, G(c, "v6"))

LinuxCommands(c) ==
    Both(c, MarkRules) \o Both(c, UidRules) \o Both(c, InterfaceRules)
      \o StrictRules(c, "v4") \o StrictRules(c, "v6")
      \o Both(c, TunPrefixRules) \o Both(c, SuppressRules) \o Both(c, DnsRules)
      \o Both(c, CaptureRules)

\* p4 and p6: a command gets the number of the earlier ones of its family.
Prio(s, i) ==
    PrioBase + Cardinality({j \in 1 .. i - 1 : s[j].fam = s[i].fam /\ s[j].sel # "lo_low"})

\* 9. The anchor the jumps lead to; without an action it looks up main.
Anchor(f) == [fam |-> f, sel |-> "any", act |-> "main", prio |-> NopPrio]

\* auto_redirect: the mark nftables sets leads to the TUN table.
Redirect(f) == [fam |-> f, sel |-> "in_mark", act |-> "tun", prio |-> -1]

\* The commands of setup, each with what it pushes to rule_priorities: 0 stands for the
\* rule without a priority, and nothing is pushed for the IPv6 one.
LinuxSetup(c) ==
    LET s == LinuxCommands(c)
        fams == If("v4" \in c.fams, <<"v4">>) \o If("v6" \in c.fams, <<"v6">>)
    IN  [i \in 1 .. Len(s) |->
            [rule |-> [fam |-> s[i].fam, sel |-> s[i].sel, act |-> s[i].act, prio |-> Prio(s, i)],
             push |-> If(s[i].sel # "lo_low", <<Prio(s, i)>>)]]
          \o [i \in 1 .. Len(fams) |-> [rule |-> Anchor(fams[i]), push |-> <<NopPrio>>]]
          \o If(c.mark = "redirect",
                [i \in 1 .. Len(fams) |->
                    [rule |-> Redirect(fams[i]), push |-> If(fams[i] = "v4", <<0>>)]])

\* `ip rule del priority` three times: rules the kernel keeps are kept only beyond that.
Delete3(rs, f, prio) ==
    LET at == {r \in rs : r.fam = f /\ r.prio = prio} IN
    IF Cardinality(at) <= 3 THEN rs \ at ELSE rs \ (CHOOSE d \in SUBSET at : Cardinality(d) = 3)

\* The rules auto_redirect adds.
Marks(rs, f) == {r \in rs : r.fam = f /\ r.sel = "in_mark"}

\* `ip rule del fwmark`, once for each family: the first of its rules goes.
FirstMark(rs, f) == {r \in Marks(rs, f) : \A q \in Marks(rs, f) : r.prio <= q.prio}

DeleteMarks(rs) == rs \ (FirstMark(rs, "v4") \cup FirstMark(rs, "v6"))

Undeleted(rs, dels) == {r \in rs : \A p \in dels : r \in Delete3(rs, r.fam, p)}

\* teardown that takes the placeholder 0 for a priority.
LinuxTeardownAll(rs, recorded) ==
    DeleteMarks(Undeleted(rs, {recorded[i] : i \in 1 .. Len(recorded)}))

\* teardown: every recorded priority of both families, then the marks.
LinuxTeardown(rs, recorded) ==
    DeleteMarks(Undeleted(rs, {recorded[i] : i \in 1 .. Len(recorded)} \ {0}))

-----------------------------------------------------------------------------
(* android.rs: every rule has the same priority, and only IPv4 has more than one *)

AndroidSetup(c) ==
    LET v4 == "v4" \in c.fams
        At(f, sel, act) == <<[rule |-> [fam |-> f, sel |-> sel, act |-> act, prio |-> PrioBase],
                              push |-> <<PrioBase>>]>>
    IN  If(c.uids /\ v4, At("v4", "uid", "nop"))
          \o If(c.ifaces = "include" /\ v4, At("v4", "listed", "main"))
          \o If(c.ifaces = "exclude" /\ v4, At("v4", "listed", "nop"))
          \o If(v4, At("v4", "protected", "main"))
          \o If("v6" \in c.fams, At("v6", "protected", "main"))
          \o If(v4, At("v4", "iif_tun", "nop") \o At("v4", "not_lo", "main")
                      \o At("v4", "lo_tun", "main")
                      \o <<[rule |-> Anchor("v4"), push |-> <<>>]>>)

\* One IPv4 rule less for everything recorded, and the anchor.
AndroidTeardown(rs, recorded) ==
    LET at == {r \in rs : r.fam = "v4" /\ r.prio = PrioBase}
        gone == IF Cardinality(at) <= Len(recorded) THEN at
                ELSE CHOOSE d \in SUBSET at : Cardinality(d) = Len(recorded)
    IN  (rs \ gone) \ {Anchor("v4")}

-----------------------------------------------------------------------------
(* The kernel's lookup.  A packet is local ("lo"), forwarded, or read from  *)
(* the TUN; a local one may be of an excluded UID or have a bound source.   *)

Packet ==
    {p \in [fam : {"v4", "v6"}, iif : {"lo", "tun", "listed", "other"}, uid : BOOLEAN,
            src : {"unspec", "tun", "bound"}, dst : {"tunnet", "lan", "far", "excl"},
            dns : BOOLEAN] :
        p.iif # "lo" => ~p.uid /\ p.src = "bound"}

Matches(r, p) ==
    CASE r.sel = "any" -> TRUE
      [] r.sel = "not_mark" -> TRUE
      [] r.sel \in {"in_mark", "protected"} -> FALSE
      [] r.sel = "uid" -> p.uid
      [] r.sel = "listed" -> p.iif = "listed"
      [] r.sel = "to_tun" -> p.dst = "tunnet"
      [] r.sel = "not_dns" -> ~p.dns
      [] r.sel = "iif_tun" -> p.iif = "tun"
      [] r.sel = "not_lo" -> p.iif # "lo"
      [] r.sel = "lo_unspec" -> p.iif = "lo" /\ p.src = "unspec"
      [] r.sel = "lo_tun" -> p.iif = "lo" /\ p.src = "tun"
      \* A source that is not chosen yet matches no prefix; halves are merged.
      [] r.sel \in {"lo_low", "lo_high"} -> p.iif = "lo" /\ p.src # "unspec"

\* add_routes_to_table: a default route, or with route_exclude_address the prefixes that
\* make up the difference.
InTable(c, p) ==
    CASE p.fam \notin c.fams -> "none"
      [] p.fam \in c.fams /\ ~c.excl -> "default"
      [] p.fam \in c.fams /\ c.excl -> IF p.dst = "excl" THEN "none" ELSE "specific"

Hits(c, r, p) ==
    CASE r.act = "tun" -> InTable(c, p) # "none"
      [] r.act = "tun_specific" -> InTable(c, p) = "specific"
      [] r.act = "main_specific" -> p.dst \in {"tunnet", "lan"}
      [] r.act \in {"main", "unreachable"} -> TRUE
      [] r.act \in {"local", "nop"} -> FALSE

\* The first rule that matches, has a route, and is not jumped over.
Route(rs, c, p) ==
    LET mine == {r \in rs : r.fam = p.fam /\ Matches(r, p)}
        Skipped(r) == \E g \in mine : g.act = "nop" /\ g.prio < r.prio /\ r.prio < NopPrio
        deciding == {r \in mine : Hits(c, r, p) /\ ~Skipped(r)}
        first == CHOOSE r \in deciding : \A q \in deciding : r.prio <= q.prio
    IN  CASE first.act \in {"tun", "tun_specific"} -> "tun"
          [] first.act \in {"main", "main_specific"} -> "main"
          [] first.act = "unreachable" -> "unreachable"

-----------------------------------------------------------------------------
(* What a configuration asks for *)

Bypasses(c, p) ==
    \/ c.uids /\ p.uid
    \/ c.ifaces = "exclude" /\ p.iif = "listed"
    \/ c.ifaces = "include" /\ p.iif # "listed"
    \/ c.excl /\ p.dst = "excl"

Captured(c, p) ==
    \/ c.ifaces = "include" /\ p.iif = "listed"
    \/ p.dst = "tunnet" \/ c.excl
    \/ /\ p.dst = "lan" => p.dns
       /\ \/ p.iif \in {"listed", "other"}
          \/ p.iif = "lo" /\ p.src = "unspec"
          \/ p.iif = "lo" /\ p.src = "tun" /\ p.fam = "v4"

Wanted(c, p) ==
    CASE p.fam \notin c.fams -> IF c.strict THEN "unreachable" ELSE "main"
      [] p.fam \in c.fams -> IF ~Bypasses(c, p) /\ Captured(c, p) THEN "tun" ELSE "main"
=============================================================================
