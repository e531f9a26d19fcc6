------------------------------ MODULE OpChains ------------------------------
(***************************************************************************)
(* Per-device op chains, fork evidence and stream digests, crates/         *)
(* sunrise-core/src/engine/chain.rs, under op-log compaction               *)
(* (compaction.rs) and snapshot joins (snapshot.rs), in one stream.        *)
(*                                                                         *)
(* A device forks its own chain when an old copy of its vault is opened    *)
(* beside, or in place of, the vault: two replicas then sign ops under one *)
(* device id.  So an op is a position (device, seq) and the replica that   *)
(* signed it.  Hashes do not collide, so that replica stands for the op's  *)
(* hash at its position, and the sequence of them up to n for the chain    *)
(* root at n.                                                              *)
(***************************************************************************)
EXTENDS Naturals, Sequences, SequencesExt, FiniteSets, FiniteSetsExt

CONSTANTS Replica,    \* the vaults
          DevOf,      \* DevOf[r]: the device id vault r signs under
          Start,      \* the vaults that start with the first op of their device
          None,       \* no hash
          MaxSeq,     \* MaxSeq[d]: bound on the seqs device d signs
          Writers,    \* the vaults whose users write
          Reporters,  \* the vaults whose digests come due
          Compactors, \* the vaults whose maintenance job runs
          MaxOps,     \* bound on the ops signed
          MaxDigests, \* bound on the digests published
          MaxSnaps    \* bound on the snapshot records written

Dev == {DevOf[r] : r \in Replica}
Pos == UNION {{d} \X (1..MaxSeq[d]) : d \in Dev}

ASSUME ReplicaAssumption ==
    /\ DevOf \in [Replica -> Dev] /\ Start \subseteq Replica
    /\ None \notin Replica /\ MaxSeq \in [Dev -> Nat \ {0}]

VARIABLES rep,     \* rep[r]: what vault r holds, see NewVault
          wire,    \* the ops published
          snaps,   \* the frontiers of the snapshot records written
          digests  \* history: how many digests were published

vars == <<rep, wire, snaps, digests>>

(***************************************************************************)
(* rows: `ops`, each row with its op_hash and, once its prefix reached it, *)
(* its chain_root.  floor: the root of `compaction_floor`, whose length is *)
(* its seq and whose last element its op_hash.  expect: `chain_expected`.  *)
(* forks: `fork_evidence`.  claims: `chain_claims`.  div:                  *)
(* `chain_divergence`.  acks: `peer_frontiers`.  sent: `chain_heads_sent`. *)
(*                                                                         *)
(* Every table is kept by device, and what the code does to the devices of *)
(* a digest or a record one after the other touches the rows of one device *)
(* each time.  So the operators below take the set of the devices.         *)
(***************************************************************************)
NoRow == [by |-> None, root |-> <<>>]

NewVault == [rows   |-> [p \in Pos |-> NoRow],
             floor  |-> [d \in Dev |-> <<>>],
             cursor |-> [d \in Dev |-> 0],
             expect |-> {}, forks |-> {}, claims |-> {}, div |-> {},
             acks   |-> [p \in Dev |-> [d \in Dev |-> 0]],
             sent   |-> [d \in Dev |-> 0]]

Holds(s, d, n) == <<d, n>> \in Pos /\ s.rows[<<d, n>>].by # None

\* Mutant of HeldHash: a floor answers for every position it covers.
HeldHashBelowFloor(s, d, n) ==
    IF Holds(s, d, n) THEN s.rows[<<d, n>>].by
    ELSE IF n > 0 /\ Len(s.floor[d]) >= n THEN Last(s.floor[d]) ELSE None

HeldHash(s, d, n) ==
    IF Holds(s, d, n) THEN s.rows[<<d, n>>].by
    ELSE IF n > 0 /\ Len(s.floor[d]) = n THEN Last(s.floor[d]) ELSE None

\* The root at n, or a shorter sequence where this replica has none.
RootAt(s, d, n) ==
    IF Holds(s, d, n) /\ s.rows[<<d, n>>].root # <<>>
    THEN s.rows[<<d, n>>].root
    ELSE IF Len(s.floor[d]) = n THEN s.floor[d] ELSE <<>>

HasRoot(s, d, n) == Len(RootAt(s, d, n)) = n

ForkRow(d, n, kind, held, other) ==
    [dev |-> d, seq |-> n, kind |-> kind, held |-> held, other |-> other]

Claim(d, peer, root) == [dev |-> d, peer |-> peer, root |-> root]

\* A claim and the root held at the same seq.
Against(c, held) ==
    [dev |-> c.dev, peer |-> c.peer, root |-> c.root, held |-> held]

\* `judge`, of claims of different devices or peers.
Judge(s, C) ==
    LET wrong == {c \in C : c.root # c.held}
        settles(c, x) == /\ x.dev = c.dev /\ x.peer = c.peer
                         /\ c \in wrong \/ x.seq <= Len(c.root)
    IN  [s EXCEPT !.div =
            {x \in @ : \A c \in C : ~settles(c, x)}
                \cup {[dev |-> c.dev, peer |-> c.peer, seq |-> Len(c.root)] :
                        c \in wrong}]

(***************************************************************************)
(* fold_chain of each of the devices D, up to its cursor: resume from the  *)
(* latest root, stored or the floor's, extend it over the rows, then judge *)
(* the claims reached.                                                     *)
(***************************************************************************)
Stored(s, d) == {n \in 1..s.cursor[d] : /\ Holds(s, d, n)
                                        /\ s.rows[<<d, n>>].root # <<>>}

Resume(s, d) ==
    Max(Stored(s, d) \cup
          {IF Len(s.floor[d]) <= s.cursor[d] THEN Len(s.floor[d]) ELSE 0})

ChainEnd(s, d) ==
    LET from == Resume(s, d)
    IN  Max({n \in from..s.cursor[d] :
               \A k \in (from + 1)..n : HeldHash(s, d, k) # None})

\* The root at n, of the rows above Resume(s, d).
ChainRoot(s, d, n) ==
    LET from == Resume(s, d)
    IN  RootAt(s, d, from) \o [i \in 1..(n - from) |-> HeldHash(s, d, from + i)]

Extended(s, D) ==
    LET open == {p \in Pos : /\ p[1] \in D /\ p[2] <= s.cursor[p[1]]
                             /\ s.rows[p].by # None /\ s.rows[p].root = <<>>}
        folded == {p \in open : Resume(s, p[1]) < p[2] /\ p[2] <= ChainEnd(s, p[1])}
    IN  [s EXCEPT !.rows = [p \in Pos |->
            IF p \in folded THEN [by |-> s.rows[p].by, root |-> ChainRoot(s, p[1], p[2])]
            ELSE @[p]]]

\* Mutant of JudgeClaims: a claim the prefix reached is settled unread.
JudgeClaimsUnread(s, D) ==
    [s EXCEPT !.claims = {c \in @ : c.dev \in D => Len(c.root) > ChainEnd(s, c.dev)}]

JudgeClaims(s, D) ==
    LET reached == {c \in s.claims : c.dev \in D /\ Len(c.root) <= ChainEnd(s, c.dev)}
        known == {c \in reached : HasRoot(s, c.dev, Len(c.root))}
    IN  Judge([s EXCEPT !.claims = @ \ reached],
              {Against(c, RootAt(s, c.dev, Len(c.root))) : c \in known})

FoldChain(s, D) == JudgeClaims(Extended(s, D), D)

\* ops_run_end from the floor or the cursor.
RunEnd(s, d) ==
    LET start == Max({Len(s.floor[d]), s.cursor[d]})
    IN  Max({n \in start..MaxSeq[d] : \A k \in (start + 1)..n : Holds(s, d, k)})

UpsertCursor(s, D) ==
    FoldChain([s EXCEPT !.cursor = [d \in Dev |-> IF d \in D THEN RunEnd(s, d)
                                                  ELSE @[d]]], D)

(***************************************************************************)
(* check_links, for an op that entered the log from a peer.                *)
(***************************************************************************)
Named(s, d, n) == {x \in s.expect : x.dev = d /\ x.seq = n}

NamerKind(x) ==
    IF x.namer = <<x.dev, x.seq + 1>> THEN "link" ELSE "head"

\* The expectations of other ops that the op at (d, n) contradicts.
Contradicted(s, d, n, hash) ==
    {ForkRow(d, n, NamerKind(x), hash, x.by) :
       x \in {y \in Named(s, d, n) :
                y.by # hash /\ Holds(s, y.namer[1], y.namer[2])}}

\* What an op says of other positions: its predecessor and its heads.
Names(o) ==
    {[dev |-> o.dev, seq |-> o.seq - 1, by |-> h, kind |-> "link"] :
       h \in {o.prev} \ {None}}
    \cup {[dev |-> h.dev, seq |-> h.seq, by |-> h.by, kind |-> "head"] : h \in o.heads}

\* Each of them is held and equal, held and not, covered, or to be expected.
CheckNames(s, o) ==
    LET wrong == {x \in Names(o) : HeldHash(s, x.dev, x.seq) \notin {None, x.by}}
        missing == {x \in Names(o) : /\ HeldHash(s, x.dev, x.seq) = None
                                     /\ x.seq >= Len(s.floor[x.dev])}
    IN  [s EXCEPT
           !.forks = @ \cup {ForkRow(x.dev, x.seq, x.kind,
                                     HeldHash(s, x.dev, x.seq), x.by) : x \in wrong},
           !.expect = @ \cup {[dev |-> x.dev, seq |-> x.seq, by |-> x.by,
                               namer |-> <<o.dev, o.seq>>] : x \in missing}]

\* Mutant of CheckLinks: an arrival is not checked against what named it.
CheckLinksForward(s, o) ==
    CheckNames([s EXCEPT !.expect = @ \ Named(s, o.dev, o.seq)], o)

CheckLinks(s, o) ==
    CheckNames([s EXCEPT !.forks = @ \cup Contradicted(s, o.dev, o.seq, o.by),
                         !.expect = @ \ Named(s, o.dev, o.seq)], o)

\* record_peer_frontier and the comparison of `reconcile`: an entry within
\* this replica's prefix is judged, one above it kept as a claim.
Reconcile(s, peer, front) ==
    LET near == {d \in Dev : Len(front[d]) \in 1..s.cursor[d]}
        told == {c \in s.claims : c.peer = peer}
        far == {d \in Dev : /\ Len(front[d]) > s.cursor[d]
                            /\ \A c \in told : c.dev = d => Len(c.root) < Len(front[d])}
        t == FoldChain(s, {d \in near : ~HasRoot(s, d, Len(front[d]))})
        known == {d \in near : HasRoot(t, d, Len(front[d]))}
    IN  [Judge(t, {Against(Claim(d, peer, front[d]), RootAt(t, d, Len(front[d]))) :
                     d \in known})
           EXCEPT !.claims = {c \in @ : c.peer = peer => c.dev \notin far}
                                \cup {Claim(d, peer, front[d]) : d \in far},
                  !.acks[peer] = [d \in Dev |-> Max({@[d], Len(front[d])})]]

(***************************************************************************)
(* apply_remote_all for an op that opens: covered, duplicate or new.       *)
(***************************************************************************)
Received(s, o) ==
    LET at == <<o.dev, o.seq>>
        held == HeldHash(s, o.dev, o.seq)
        forked == [s EXCEPT !.forks = @ \cup
                     {ForkRow(o.dev, o.seq, "seq", held, o.by)}]
        logged == CheckLinks([s EXCEPT !.rows[at].by = o.by], o)
        read == IF o.front = <<>> THEN logged
                ELSE Reconcile(logged, o.dev, o.front[1])
    IN  IF Holds(s, o.dev, o.seq) \/ o.seq <= Len(s.floor[o.dev])
        THEN IF held \notin {None, o.by} THEN forked ELSE s
        ELSE UpsertCursor(read, {o.dev})

Deliver(r, o) ==
    /\ rep' = [rep EXCEPT ![r] = Received(@, o)]
    /\ UNCHANGED <<wire, snaps, digests>>

\* The entries of this replica's digest: its prefixes and their roots.
Frontier(s) == [d \in Dev |-> RootAt(s, d, s.cursor[d])]

(***************************************************************************)
(* ops_insert_at: the op links its predecessor and the tips that advanced  *)
(* since this device last listed them.                                     *)
(***************************************************************************)
NextSeq(s, d) ==
    Max({0, Len(s.floor[d])} \cup {n \in 1..MaxSeq[d] : Holds(s, d, n)}) + 1

Tips(s, me) == {d \in Dev \ {me} : s.cursor[d] > s.sent[d]
                                   /\ HeldHash(s, d, s.cursor[d]) # None}

Append1(r, front) ==
    LET s == rep[r]
        me == DevOf[r]
        n == NextSeq(s, me)
        op == [dev |-> me, seq |-> n, by |-> r,
               prev |-> IF n > 1 THEN HeldHash(s, me, n - 1) ELSE None,
               heads |-> {[dev |-> d, seq |-> s.cursor[d],
                           by |-> HeldHash(s, d, s.cursor[d])] :
                            d \in Tips(s, me)},
               front |-> front]
        listed == [s EXCEPT !.rows[<<me, n>>].by = r,
                            !.sent = [d \in Dev |-> IF d \in Tips(s, me)
                                                    THEN s.cursor[d] ELSE @[d]]]
    IN  /\ n <= MaxSeq[me] /\ Cardinality(wire) < MaxOps
        /\ rep' = [rep EXCEPT ![r] = UpsertCursor(listed, {me})]
        /\ wire' = wire \cup {op}

Write(r) ==
    r \in Writers /\ Append1(r, <<>>) /\ UNCHANGED <<snaps, digests>>

EmitDigest(r) ==
    /\ r \in Reporters /\ digests < MaxDigests
    /\ \E d \in Dev : rep[r].cursor[d] > 0
    /\ Append1(r, <<Frontier(rep[r])>>)
    /\ digests' = digests + 1
    /\ UNCHANGED snaps

(***************************************************************************)
(* compact_stream for one prefix: below the tip, below what every known    *)
(* device acknowledged, and old enough.  Which other devices are known,    *)
(* and how old an op is, are the clock's to say: any.                      *)
(***************************************************************************)
\* Mutant of Acknowledged: a device without a frontier holds nothing back.
AcknowledgedIfHeard(s, d, known) ==
    Min({s.cursor[d]} \cup ({s.acks[k][d] : k \in known} \ {0}))

Acknowledged(s, d, known) ==
    Min({s.cursor[d]} \cup {s.acks[k][d] : k \in known})

\* Mutant of Compactable: the row above the floor goes too.
CompactableAbove(s, d, target) ==
    {p \in Pos : /\ p[1] = d /\ p[2] <= target + 1
                 /\ \A x \in s.expect : x.namer # p}

Compactable(s, d, target) ==
    {p \in Pos : /\ p[1] = d /\ p[2] <= target
                 /\ \A x \in s.expect : x.namer # p}

Compact(r, d, known) ==
    LET s == rep[r]
    IN  \E target \in (Len(s.floor[d]) + 1)..Acknowledged(s, d, known) :
            /\ target < s.cursor[d] /\ Holds(s, d, target)
            /\ LET t == FoldChain(s, {d})
               IN  rep' = [rep EXCEPT ![r] =
                     [t EXCEPT !.floor[d] = RootAt(t, d, target),
                               !.rows = [p \in Pos |->
                                   IF p \in Compactable(t, d, target)
                                   THEN NoRow ELSE @[p]]]]
            /\ UNCHANGED <<wire, snaps, digests>>

\* snapshot_record: no row above its prefix.
WriteSnapshot(r) ==
    LET s == rep[r]
    IN  /\ Cardinality(snaps) < MaxSnaps
        /\ \A p \in Pos : Holds(s, p[1], p[2]) => p[2] <= s.cursor[p[1]]
        /\ \E d \in Dev : s.cursor[d] > 0
        /\ snaps' = snaps \cup {Frontier(s)}
        /\ UNCHANGED <<rep, wire, digests>>

\* settle_below_floor: what waited at or below the floors of D, just raised.
Settled(s, D) ==
    LET named(d) == Contradicted(s, d, Len(s.floor[d]), Last(s.floor[d]))
        covered == {c \in s.claims : c.dev \in D /\ Len(c.root) <= Len(s.floor[c.dev])}
        met == {c \in covered : Len(c.root) = Len(s.floor[c.dev])}
    IN  Judge([s EXCEPT !.forks = @ \cup UNION {named(d) : d \in D},
                        !.expect = {x \in @ : x.dev \in D =>
                                                x.seq > Len(s.floor[x.dev])},
                        !.claims = @ \ covered],
              {Against(c, s.floor[c.dev]) : c \in met})

\* raise_floor where the record is ahead, then the cursor of every entry.
RaiseTo(s, front) ==
    LET higher == {d \in Dev : Len(s.floor[d]) < Len(front[d])}
        raised == [s EXCEPT !.floor = [d \in Dev |-> IF d \in higher THEN front[d]
                                                     ELSE @[d]]]
    IN  UpsertCursor(Settled(raised, higher), {d \in Dev : front[d] # <<>>})

\* The roots this replica can compare must agree, and something must be new.
Adds(s, front) == \E d \in Dev : s.cursor[d] < Len(front[d])

Agrees(s, front) ==
    \A d \in Dev :
        LET n == Len(front[d])
            t == IF HasRoot(s, d, n) THEN s ELSE FoldChain(s, {d})
        IN  (n > 0 /\ s.cursor[d] >= n /\ HasRoot(t, d, n))
                => RootAt(t, d, n) = front[d]

ApplySnapshot(r, front) ==
    /\ Adds(rep[r], front) /\ Agrees(rep[r], front)
    /\ rep' = [rep EXCEPT ![r] = RaiseTo(@, front)]
    /\ UNCHANGED <<wire, snaps, digests>>

\* The first op of each device, and the vaults that hold it: an old copy of
\* a vault is one that has it and not what came later.
FirstOp(r) == [dev |-> DevOf[r], seq |-> 1, by |-> r, prev |-> None,
               heads |-> {}, front |-> <<>>]

Author(d) == CHOOSE r \in Start : DevOf[r] = d

Init ==
    /\ rep = [r \in Replica |->
                IF r \in Start
                THEN UpsertCursor([NewVault EXCEPT
                        !.rows[<<DevOf[r], 1>>].by = Author(DevOf[r])], {DevOf[r]})
                ELSE NewVault]
    /\ wire = {FirstOp(Author(DevOf[r])) : r \in Start}
    /\ snaps = {} /\ digests = 0

Next ==
    \E r \in Replica :
        \/ Write(r)
        \/ EmitDigest(r)
        \/ \E o \in wire : Deliver(r, o)
        \/ /\ r \in Compactors
           /\ \/ \E d \in Dev, known \in SUBSET (Dev \ {DevOf[r]}) :
                    Compact(r, d, known)
              \/ WriteSnapshot(r)
        \/ \E front \in snaps : ApplySnapshot(r, front)

Spec == Init /\ [][Next]_vars

-----------------------------------------------------------------------------
SignedAt(d, n) == {o.by : o \in {p \in wire : p.dev = d /\ p.seq = n}}

Forked(d, n) == \E a, b \in SignedAt(d, n) : a # b

(***************************************************************************)
(* Evidence is never false: a fork row names two ops its device did sign   *)
(* at that position, and a divergence lies at or above a position its      *)
(* device forked, whatever was compacted, joined or delivered twice.       *)
(***************************************************************************)
EvidenceIsTrue ==
    \A r \in Replica :
        /\ \A x \in rep[r].forks : /\ x.held # x.other
                                   /\ {x.held, x.other} \subseteq SignedAt(x.dev, x.seq)
        /\ \A x \in rep[r].div : \E n \in 1..x.seq : Forked(x.dev, n)

(***************************************************************************)
(* ADR-0043 section 3: two links that do not meet are noticed, in whatever *)
(* order the two ops came: an op of a peer that names another predecessor  *)
(* than the one held beside it has left a fork row.                        *)
(***************************************************************************)
BrokenLinkIsNoticed ==
    \A r \in Replica, o \in wire :
        LET s == rep[r]
        IN  (/\ o.dev # DevOf[r] /\ o.seq > 1 /\ o.prev # None
             /\ Holds(s, o.dev, o.seq) /\ s.rows[<<o.dev, o.seq>>].by = o.by
             /\ Holds(s, o.dev, o.seq - 1)
             /\ s.rows[<<o.dev, o.seq - 1>>].by # o.prev)
            => \E x \in s.forks : x.dev = o.dev /\ x.seq = o.seq - 1

(***************************************************************************)
(* Where a replica can compare everything a peer's digests told it of a    *)
(* device's chain, and all of it differs from the chain held here, there   *)
(* is a divergence row, whether the digests or the prefix came first,      *)
(* whichever digest overtook which, and however the claims that waited     *)
(* were replaced, reached or covered by a floor.  A digest that agrees     *)
(* clears the row by design, one that still waits may, and one below a     *)
(* floor cannot be compared any more.                                      *)
(***************************************************************************)
Told(s, peer) ==
    {o \in wire : /\ o.dev = peer /\ o.front # <<>>
                  /\ Holds(s, peer, o.seq) \/ o.seq <= Len(s.floor[peer])}

Differs(s, d, root) ==
    HasRoot(s, d, Len(root)) /\ RootAt(s, d, Len(root)) # root

DivergenceIsNoticed ==
    \A r \in Replica : \A peer \in Dev \ {DevOf[r]}, d \in Dev :
        LET s == rep[r]
            stated == {o \in Told(s, peer) : o.front[1][d] # <<>>}
        IN  (/\ \E o \in stated : /\ Holds(s, peer, o.seq)
                                  /\ s.rows[<<peer, o.seq>>].by = o.by
             /\ \A o \in stated : Differs(s, d, o.front[1][d]))
            => \E x \in s.div : x.dev = d /\ x.peer = peer

(***************************************************************************)
(* What the next op links and what a snapshot and a digest state are read  *)
(* at the end of a prefix: its hash and its root are there however much    *)
(* was compacted or joined below it, and the root ends in that hash unless *)
(* the device forked there (a floor joined over a row of the other branch  *)
(* does not look at the row).                                              *)
(***************************************************************************)
PrefixEndIsKnown ==
    \A r \in Replica, d \in Dev :
        LET s == rep[r]
            n == s.cursor[d]
        IN  n > 0 => /\ HasRoot(s, d, n)
                     /\ HeldHash(s, d, n) # None
                     /\ HeldHash(s, d, n) = Last(RootAt(s, d, n)) \/ Forked(d, n)

(***************************************************************************)
(* A floor rises only over what every known device holds, though the       *)
(* acknowledgements are old when they are read and came in any order.      *)
(***************************************************************************)
FloorIsHeldByKnown ==
    [][\A r \in Replica, d \in Dev : rep'[r].floor[d] # rep[r].floor[d] =>
        \A known \in SUBSET (Dev \ {DevOf[r]}) : Compact(r, d, known) =>
            \A k \in known : \E q \in Replica :
                DevOf[q] = k /\ rep[q].cursor[d] >= Len(rep'[r].floor[d])]_vars
=============================================================================
