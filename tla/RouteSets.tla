------------------------------ MODULE RouteSets ------------------------------
(***************************************************************************)
(* The set arithmetic of the configuration: the UIDs kept out of the TUN   *)
(* (platform/linux.rs, and the same functions in mod.rs and android.rs)    *)
(* and the routes left of route_address without route_exclude_address      *)
(* (platform/linux.rs).                                                    *)
(***************************************************************************)
EXTENDS Naturals, Sequences, SequencesExt, FiniteSets, Loops

CONSTANTS
    UidTop,              \* u32::MAX
    Width                \* bits of an address: 32, 128

ASSUME RouteSetsAssumption == UidTop \in Nat \ {0} /\ Width \in Nat \ {0}

VARIABLES
    include, exclude,    \* the configured ranges: pairs, in any order
    uid_ranges,          \* what build_excluded_uid_ranges returns
    route, excluded,     \* a route and the excluded prefixes: [net, pl]
    final_route          \* what is left of the route

routeSetVars == <<include, exclude, uid_ranges, route, excluded, final_route>>

-----------------------------------------------------------------------------
PushIf(c, q, r) == IF c THEN Append(q, r) ELSE q

-----------------------------------------------------------------------------
(* UID ranges *)

Uid == 0 .. UidTop
SaturatingInc(x) == IF x = UidTop THEN UidTop ELSE x + 1

\* parse_uid_range refuses a range that is upside down.
Valid(rs) == {r \in rs : r[1] <= r[2]}

Before(r, s) == r[1] < s[1] \/ (r[1] = s[1] /\ r[2] <= s[2])

\* Sorted, each range once: the i-th has i ranges up to itself.
Sorted(rs) ==
    [i \in 1 .. Cardinality(rs) |->
        CHOOSE r \in rs : Cardinality({q \in rs : Before(q, r)}) = i]

Larger(x, y) == IF x > y THEN x ELSE y

\* merge_ranges that takes over the end of the later range.
MergeLast(merged, r) ==
    IF merged # <<>> /\ r[1] <= SaturatingInc(Last(merged)[2])
    THEN ReplaceAt(merged, Len(merged), <<Last(merged)[1], r[2]>>)
    ELSE Append(merged, r)

\* One range of merge_ranges.
MergeRange(merged, r) ==
    IF merged # <<>> /\ r[1] <= SaturatingInc(Last(merged)[2])
    THEN ReplaceAt(merged, Len(merged), <<Last(merged)[1], Larger(Last(merged)[2], r[2])>>)
    ELSE Append(merged, r)

MergeRanges(rs) == InOrder(MergeRange, <<>>, Sorted(rs))

\* What is left of r without s goes to `next`.
Without(next, r, s) ==
    IF s[2] < r[1] \/ s[1] > r[2] THEN Append(next, r)
    ELSE PushIf(r[2] > s[2], PushIf(r[1] < s[1], next, <<r[1], s[1] - 1>>), <<s[2] + 1, r[2]>>)

SubtractRange(rs, s) == InOrder(LAMBDA next, r : Without(next, r, s), <<>>, rs)
SubtractRanges(base, sub) == InOrder(SubtractRange, base, sub)

\* The gap before r, and where the next one starts.
GapBefore(st, r) ==
    [out |-> PushIf(st.cur < r[1], st.out, <<st.cur, r[1] - 1>>), cur |-> SaturatingInc(r[2])]

\* complement_ranges.  The last `cur` is past u32::MAX - 1 even when it saturates.
ComplementRanges(rs, lo, hi) ==
    LET st == InOrder(GapBefore, [out |-> <<>>, cur |-> lo], rs)
    IN  PushIf(st.cur <= hi, st.out, <<st.cur, hi>>)

\* build_excluded_uid_ranges
ExcludedUidRanges(inc, exc) ==
    LET i == MergeRanges(Valid(inc))
        e == MergeRanges(Valid(exc))
    IN  IF i # <<>>
        THEN MergeRanges(ToSet(ComplementRanges(SubtractRanges(i, e), 0, UidTop - 1)))
        ELSE MergeRanges(ToSet(e))

-----------------------------------------------------------------------------
(* Prefixes *)

\* Addresses of a prefix of length pl.
Block[pl \in 0 .. Width] == IF pl = Width THEN 1 ELSE 2 * Block[pl + 1]

Network(net, pl) == net - (net % Block[pl])

\* What the configuration can name, and what is a network: no bit is set past its length.
AnyPrefix == [net : 0 .. Block[0] - 1, pl : 0 .. Width]
Prefix == {p \in AnyPrefix : Network(p.net, p.pl) = p.net}

\* prefix_contains: for length 0 the shift by the whole width wraps to no shift at all,
\* and the mask keeps every bit.
PrefixContains(outer, inner) ==
    /\ outer.pl <= inner.pl
    /\ IF outer.pl = 0 THEN outer.net = inner.net
       ELSE Network(outer.net, outer.pl) = Network(inner.net, outer.pl)

Intersects(p, q) ==
    LET pl == IF p.pl <= q.pl THEN p.pl ELSE q.pl
    IN  Network(p.net, pl) = Network(q.net, pl)

\* fully_excluded that wants the excluded prefix to be shorter.
StrictlyExcluded(p, es) == \E e \in es : e.pl < p.pl /\ PrefixContains(e, p)

FullyExcluded(p, es) == \E e \in es : PrefixContains(e, p)

Left(p) == [net |-> p.net, pl |-> p.pl + 1]
Right(p) == [net |-> p.net + Block[p.pl + 1], pl |-> p.pl + 1]

SplitSubtract(p, es) ==
    LET rest[q \in Prefix] ==
            IF FullyExcluded(q, es) THEN {}
            ELSE IF q.pl >= Width \/ \A e \in es : ~Intersects(e, q) THEN {q}
            ELSE rest[Left(q)] \cup rest[Right(q)]
    IN  rest[p]

-----------------------------------------------------------------------------
Covered(ps) == UNION {LET n == Network(p.net, p.pl) IN n .. n + Block[p.pl] - 1 : p \in ps}
Uids(rs) == UNION {r[1] .. r[2] : r \in rs}

\* The ranges that get a rule are the UIDs to keep out, whatever the order and overlap of
\* the configured ones, up to the ends of u32: all but the included ones that are not
\* excluded, or the excluded ones.  They are sorted and apart, so no UID has two rules.
UidRangesExact ==
    LET wanted == IF Valid(include) = {} THEN Uids(exclude)
                  ELSE (0 .. UidTop - 1) \ (Uids(include) \ Uids(exclude))
    IN  /\ Uids(ToSet(uid_ranges)) = wanted
        /\ \A i \in 1 .. Len(uid_ranges) - 1 : uid_ranges[i][2] + 1 < uid_ranges[i + 1][1]

\* The routes installed for the TUN cover what the configured route covers and no excluded
\* prefix does, also where they only meet in a single address, for every excluded prefix
\* but one of length 0.
RoutesAreTheDifference ==
    (\A e \in excluded : e.pl > 0) => Covered(final_route) = Covered({route}) \ Covered(excluded)

\* The computations, for one input.
ComputeUids(inc, exc) ==
    /\ include' = inc /\ exclude' = exc /\ uid_ranges' = ExcludedUidRanges(inc, exc)
    /\ UNCHANGED <<route, excluded, final_route>>

\* final_route: without an excluded prefix the routes stay as they are.
ComputeRoutes(r, es) ==
    /\ route' = r /\ excluded' = es
    /\ final_route' = IF es = {} THEN {r} ELSE SplitSubtract(r, es)
    /\ UNCHANGED <<include, exclude, uid_ranges>>

-----------------------------------------------------------------------------
SetsInit ==
    /\ include = {} /\ exclude = {} /\ uid_ranges = <<>>
    /\ route = [net |-> 0, pl |-> 0] /\ excluded = {} /\ final_route = {route}

\* Any configuration: the lists of ranges and prefixes as sets, since both are sorted, or
\* looked through, before anything depends on their order.
SetsNext ==
    \/ \E inc, exc \in SUBSET (Uid \X Uid) : ComputeUids(inc, exc)
    \/ \E r \in Prefix, es \in SUBSET AnyPrefix : ComputeRoutes(r, es)

SetsSpec == SetsInit /\ [][SetsNext]_routeSetVars
=============================================================================
