---------------------------- MODULE AccessProofs ----------------------------
(***************************************************************************)
(* What lets a device take part: the keys of the stream it reads           *)
(* (KeyEpochs) and the credential it connects with (Credential).           *)
(***************************************************************************)
EXTENDS KeyEpochs, Credential, TLAPS

-----------------------------------------------------------------------------
(***************************************************************************)
(* For any devices and any number of epochs, pairings and revocations: a   *)
(* recorded recipient was sealed a key of the epoch, and no device that    *)
(* nobody bounds is left with a permanent hole.                            *)
(*                                                                         *)
(* For the first, the invariant adds to RecordsAreTrue only that each log  *)
(* is a sequence.  A record enters the table with the envelope it is       *)
(* about, in the entry the device publishes, or from an envelope in the    *)
(* log of a peer, and logs only grow.                                      *)
(*                                                                         *)
(* For the second it is enough to follow one device of each epoch: its     *)
(* minter, which keeps the key and in the end reads everybody's cert       *)
(* (MintersSeal).  A peer that got the key from an envelope may know a     *)
(* device the minter does not know yet, so the same is not true of every   *)
(* holder.                                                                 *)
(***************************************************************************)

\* The shapes the proof needs of the tables.
Shapes ==
    /\ \E S : log \in [Device -> Seq(S)]
    /\ DOMAIN recipients = Device /\ recipients = [d \in Device |-> recipients[d]]
    /\ read \in [Device -> [Device -> Nat]]

KeyEpochsInv == Shapes /\ RecordsAreTrue

\* Appending to a log keeps its entries and adds the new one.
LEMMA AppendGrows ==
    ASSUME NEW S, NEW s \in Seq(S), NEW x
    PROVE  /\ Append(s, x) \in Seq(S \union {x})
           /\ Range(s) \subseteq Range(Append(s, x))
           /\ x \in Range(Append(s, x))
<1>1. /\ Append(s, x) \in Seq(S \union {x})
      /\ Len(Append(s, x)) = Len(s) + 1
      /\ \A i \in 1..Len(s) : Append(s, x)[i] = s[i]
      /\ Append(s, x)[Len(s) + 1] = x
      /\ Len(s) \in Nat
      /\ DOMAIN s = 1..Len(s)
      /\ DOMAIN Append(s, x) = 1..(Len(s) + 1)
  OBVIOUS
<1> QED
  BY <1>1 DEF Range

\* What publishing does: logs stay sequences, nothing sealed is unsealed, and
\* the records of the entry and the records seen are true.
LEMMA PublishKeepsRecords ==
    ASSUME KeyEpochsInv, NEW d \in Device, NEW x, NEW seen, Publish(d, x, seen),
           x = Entry(FALSE, {}, {}) => x.seals = {},
           \A r \in seen : Sealed(r[1], r[2])
    PROVE  /\ \E S : log' \in [Device -> Seq(S)]
           /\ DOMAIN recipients' = Device /\ recipients' = [e \in Device |-> recipients'[e]]
           /\ RecordsAreTrue'
<1> USE DEF KeyEpochsInv, Shapes
<1>1. PICK S : log \in [Device -> Seq(S)]
  OBVIOUS
<1>2. \A f \in Device : Range(log[f]) \subseteq Range(log'[f])
  BY <1>1, AppendGrows DEF Publish
<1>3. log' \in [Device -> Seq(S \union {x})]
  <2>1. Append(log[d], x) \in Seq(S \union {x})
    BY <1>1, AppendGrows
  <2>2. \A f \in Device : log[f] \in Seq(S \union {x})
    BY <1>1
  <2> QED
    BY <1>1, <2>1, <2>2 DEF Publish
<1>4. x.seals # {} => x \in Range(log'[d])
  BY <1>1, AppendGrows DEF Publish
<1>5. ASSUME NEW e, NEW t, Sealed(e, t) PROVE Sealed(e, t)'
  BY <1>2, <1>5 DEF Sealed
<1>6. \A r \in Recorded(x.seals) : Sealed(r[1], r[2])'
  <2>1. SUFFICES ASSUME NEW s \in x.seals PROVE Sealed(s.key.epoch, s.to)'
    BY DEF Recorded
  <2> QED
    BY <1>4, <2>1 DEF Sealed
<1>7. /\ DOMAIN recipients' = Device
      /\ recipients' = [e \in Device |-> recipients'[e]]
      /\ \A e \in Device : recipients'[e] \subseteq recipients[e] \union seen \union Recorded(x.seals)
  BY DEF Publish
<1>8. RecordsAreTrue'
  <2>1. SUFFICES ASSUME NEW e \in Device, NEW r \in recipients'[e] PROVE Sealed(r[1], r[2])'
    BY DEF RecordsAreTrue
  <2>2. CASE r \in recipients[e]
    BY <1>5, <2>2 DEF RecordsAreTrue
  <2>3. CASE r \in seen
    BY <1>5, <2>3
  <2>4. CASE r \in Recorded(x.seals)
    BY <1>6, <2>4
  <2> QED
    BY <1>7, <2>1, <2>2, <2>3, <2>4
<1> QED
  BY <1>3, <1>7, <1>8

LEMMA InitInv == Init => KeyEpochsInv
<1> SUFFICES ASSUME Init PROVE KeyEpochsInv
  OBVIOUS
<1> DEFINE others == Initial \ {Founder}
           seals == {Seal(r, Key(1, Founder)) : r \in others}
           cert == Entry(TRUE, {}, {})
           mint == Entry(FALSE, {}, seals)
           S == {cert, mint}
<1>1. /\ log = [d \in Device |-> CASE d = Founder -> <<cert, mint>>
                                   [] d \in others -> <<cert>>
                                   [] OTHER -> <<>>]
      /\ recipients = [d \in Device |-> IF d \in Initial THEN Recorded(seals) ELSE {}]
      /\ read = [d \in Device |-> [e \in Device |-> IF d \in Initial THEN Len(log[e]) ELSE 0]]
  BY DEF Init
<1>2. Founder \in Device
  BY KeyEpochsAssumption
<1>3. cert \in S /\ mint \in S /\ mint.seals = seals
  BY DEF Entry
<1> HIDE DEF cert, mint, S
<1>4. <<cert, mint>> \in Seq(S) /\ <<cert>> \in Seq(S) /\ <<>> \in Seq(S)
  BY <1>3
<1>5. log \in [Device -> Seq(S)]
  BY <1>1, <1>4
<1>6. \A e \in Device : Len(log[e]) \in Nat
  BY <1>5
<1>7. log[Founder] = <<cert, mint>>
  BY <1>1, <1>2
<1>8. mint \in Range(log[Founder])
  <2>1. log[Founder][2] = mint /\ 2 \in DOMAIN log[Founder]
    BY <1>7
  <2> QED
    BY <2>1 DEF Range
<1>9. \A r \in Recorded(seals) : Sealed(r[1], r[2])
  <2>1. SUFFICES ASSUME NEW s \in seals PROVE Sealed(s.key.epoch, s.to)
    BY DEF Recorded
  <2> QED
    BY <1>2, <1>3, <1>8, <2>1 DEF Sealed
<1>10. RecordsAreTrue
  BY <1>1, <1>9 DEF RecordsAreTrue
<1>11. Shapes
  BY <1>1, <1>5, <1>6 DEF Shapes
<1> QED
  BY <1>10, <1>11 DEF KeyEpochsInv

LEMMA StepInv == ASSUME KeyEpochsInv, [Next]_vars PROVE KeyEpochsInv'
<1>1. ASSUME NEW d \in Device, Pair(d) PROVE KeyEpochsInv'
  BY <1>1 DEF Pair, KeyEpochsInv, Shapes, RecordsAreTrue, Sealed
<1>2. ASSUME NEW d \in Device, NEW b, NEW R, Mint(d, b, R), UNCHANGED read PROVE KeyEpochsInv'
  <2>1. PICK seals : Publish(d, Entry(FALSE, R, seals), {})
    BY <1>2 DEF Mint
  <2>2. Entry(FALSE, R, seals) = Entry(FALSE, {}, {}) => Entry(FALSE, R, seals).seals = {}
    BY DEF Entry
  <2> QED
    BY <1>2, <2>1, <2>2, PublishKeepsRecords DEF KeyEpochsInv, Shapes
<1>3. ASSUME NEW d \in Device, PublishDeviceCert(d) PROVE KeyEpochsInv'
  <2>1. Entry(TRUE, {}, {}).seals = {}
    BY DEF Entry
  <2> QED
    BY <1>3, <2>1, PublishKeepsRecords DEF PublishDeviceCert, KeyEpochsInv, Shapes
<1>4. ASSUME NEW d \in Device, RotateStreamKey(d) PROVE KeyEpochsInv'
  BY <1>2, <1>4 DEF RotateStreamKey
<1>5. ASSUME NEW d \in Device, NEW t \in Device, RevokeDevice(d, t) PROVE KeyEpochsInv'
  <2>1. ASSUME NEW b, Mint(d, b, {t}), UNCHANGED read PROVE KeyEpochsInv'
    BY <1>2, <2>1
  <2>2. ASSUME Publish(d, Entry(FALSE, {t}, {}), {}), UNCHANGED read PROVE KeyEpochsInv'
    <3>1. Entry(FALSE, {t}, {}).seals = {}
      BY DEF Entry
    <3> QED
      BY <2>2, <3>1, PublishKeepsRecords DEF KeyEpochsInv, Shapes
  <2> QED
    BY <1>5, <2>1, <2>2 DEF RevokeDevice
<1>6. ASSUME NEW d \in Device, NEW e \in Device, Apply(d, e) PROVE KeyEpochsInv'
  <2> DEFINE x == log[e][read[d][e] + 1]
  <2>1. PICK b, seals : Publish(d, Entry(FALSE, {}, seals), Seen(d, b, e, x))
    BY <1>6 DEF Apply
  <2>2. x \in Range(log[e])
    <3>1. PICK S : log \in [Device -> Seq(S)]
      BY DEF KeyEpochsInv, Shapes
    <3>2. read[d][e] \in Nat /\ read[d][e] < Len(log[e]) /\ Len(log[e]) \in Nat
      BY <1>6, <3>1 DEF Apply, KeyEpochsInv, Shapes
    <3>3. read[d][e] + 1 \in DOMAIN log[e]
      BY <3>1, <3>2
    <3> QED
      BY <3>3 DEF Range
  <2>3. \A r \in Seen(d, b, e, x) : Sealed(r[1], r[2])
    BY <2>2 DEF Seen, Recorded, Sealed
  <2>4. Entry(FALSE, {}, seals) = Entry(FALSE, {}, {}) => Entry(FALSE, {}, seals).seals = {}
    BY DEF Entry
  <2>5. read' \in [Device -> [Device -> Nat]]
    BY <1>6 DEF Apply, KeyEpochsInv, Shapes
  <2> QED
    BY <2>1, <2>3, <2>4, <2>5, PublishKeepsRecords DEF KeyEpochsInv, Shapes
<1>7. CASE UNCHANGED vars
  BY <1>7 DEF vars, KeyEpochsInv, Shapes, RecordsAreTrue, Sealed
<1> QED
  BY <1>1, <1>3, <1>4, <1>5, <1>6, <1>7 DEF Next

(***************************************************************************)
(* For any devices and any history, the recipients a device skips when it  *)
(* backfills were sealed a key of the epoch.                               *)
(***************************************************************************)
THEOREM RecipientsWereSealed == Spec => []RecordsAreTrue
<1>1. KeyEpochsInv /\ [Next]_vars => KeyEpochsInv'
  BY StepInv
<1>2. KeyEpochsInv => RecordsAreTrue
  BY DEF KeyEpochsInv
<1> QED
  BY InitInv, <1>1, <1>2, PTL DEF Spec

-----------------------------------------------------------------------------
(* Nobody is left out                                                      *)

Tables ==
    /\ keys = [d \in Device |-> keys[d]] /\ DOMAIN keys = Device
    /\ certs = [d \in Device |-> certs[d]] /\ DOMAIN certs = Device
    /\ bounded = [d \in Device |-> bounded[d]] /\ DOMAIN bounded = Device
    /\ members \subseteq Device

\* A device has nothing before it is paired.
Outsiders ==
    \A d \in Device \ members :
        keys[d] = {} /\ log[d] = <<>> /\ \A e \in Device : read[d][e] = 0

\* A device's first entry is its cert.
CertFirst == \A d \in Device : Opened(d) => log[d][1].cert

NotToSelf == \A d \in Device : \A x \in Range(log[d]) : \A s \in x.seals : s.to # d

\* Keys come from their minters, who keep them.
MinterHolds(k) == k.by \in Device /\ k \in keys[k.by]

Origins ==
    \A d \in Device :
        /\ \A k \in keys[d] : MinterHolds(k)
        /\ \A x \in Range(log[d]) : \A s \in x.seals : MinterHolds(s.key)

\* What a device has read of a peer it has applied.
Absorbed ==
    \A d \in Device : \A e \in Device \ {d} :
        /\ read[d][e] <= Len(log[e])
        /\ \A i \in 1..read[d][e] :
            /\ log[e][i].cert => e \in certs[d]
            /\ \A s \in log[e][i].seals : s.to = d => s.key \in keys[d]

\* The minter of a key has sealed its epoch, or knows that somebody has, to
\* every device whose cert it has and whom it does not bound.
MintersSeal ==
    \A d \in Device : \A k \in keys[d] :
        k.by = d => \A e \in certs[d] \ (bounded[d] \union {d}) : Sealed(k.epoch, e)

HoleInv ==
    /\ KeyEpochsInv
    /\ Tables
    /\ Outsiders
    /\ CertFirst
    /\ NotToSelf
    /\ Origins
    /\ Absorbed
    /\ MintersSeal

\* Publishing leaves the entries there were where they were.
LEMMA PublishExtends ==
    ASSUME Shapes, NEW d \in Device, NEW x, NEW seen, Publish(d, x, seen)
    PROVE  /\ \A f \in Device :
                /\ Len(log[f]) \in Nat /\ Len(log'[f]) \in Nat
                /\ Len(log[f]) <= Len(log'[f])
                /\ \A i \in 1..Len(log[f]) : log'[f][i] = log[f][i]
                /\ Range(log[f]) \subseteq Range(log'[f])
                /\ f # d => log'[f] = log[f]
           /\ Range(log'[d]) \subseteq Range(log[d]) \union {x}
           /\ x = Entry(FALSE, {}, {}) => log'[d] = log[d]
           /\ x # Entry(FALSE, {}, {}) => /\ x \in Range(log'[d]) /\ log'[d] # <<>>
                                          /\ log[d] = <<>> => log'[d][1] = x
<1>1. PICK S : log \in [Device -> Seq(S)]
  BY DEF Shapes
<1>2. \A f \in Device : f # d => log'[f] = log[f]
  BY <1>1 DEF Publish
<1>3. CASE x = Entry(FALSE, {}, {})
  <2>1. log' = log
    BY <1>1, <1>3 DEF Publish
  <2>2. \A f \in Device : Len(log[f]) \in Nat
    BY <1>1
  <2>3. \A f \in Device : Len(log[f]) <= Len(log'[f])
    BY <2>1, <2>2
  <2> QED
    BY <1>3, <2>1, <2>2, <2>3, Zenon
<1>4. CASE x # Entry(FALSE, {}, {})
  <2> DEFINE s == log[d]
  <2>1. log'[d] = Append(s, x) /\ s \in Seq(S)
    BY <1>1, <1>4 DEF Publish
  <2> HIDE DEF s
  <2>2. /\ Len(Append(s, x)) = Len(s) + 1
        /\ \A i \in 1..Len(s) : Append(s, x)[i] = s[i]
        /\ Append(s, x)[Len(s) + 1] = x
        /\ Len(s) \in Nat
        /\ DOMAIN s = 1..Len(s)
        /\ DOMAIN Append(s, x) = 1..(Len(s) + 1)
        /\ s = <<>> => Len(s) = 0
        /\ Append(s, x) # <<>>
    BY <2>1
  <2>3. /\ Range(Append(s, x)) \subseteq Range(s) \union {x}
        /\ Range(s) \subseteq Range(Append(s, x)) /\ x \in Range(Append(s, x))
    BY <2>2 DEF Range
  <2>4. /\ s = log[d] /\ Len(log'[d]) = Len(log[d]) + 1 /\ Len(log[d]) \in Nat
        /\ \A i \in 1..Len(log[d]) : log'[d][i] = log[d][i]
        /\ Range(log[d]) \subseteq Range(log'[d])
    BY <2>1, <2>2, <2>3 DEF s
  <2>5. \A f \in Device : f # d => log'[f] = log[f] /\ Len(log[f]) \in Nat
    BY <1>1, <1>2
  <2>6. \A f \in Device :
                /\ Len(log[f]) \in Nat /\ Len(log'[f]) \in Nat
                /\ Len(log[f]) <= Len(log'[f])
                /\ \A i \in 1..Len(log[f]) : log'[f][i] = log[f][i]
                /\ Range(log[f]) \subseteq Range(log'[f])
    <3> SUFFICES ASSUME NEW f \in Device
                 PROVE  /\ Len(log[f]) \in Nat /\ Len(log'[f]) \in Nat
                        /\ Len(log[f]) <= Len(log'[f])
                        /\ \A i \in 1..Len(log[f]) : log'[f][i] = log[f][i]
                        /\ Range(log[f]) \subseteq Range(log'[f])
      OBVIOUS
    <3>1. CASE f = d
      BY <2>4, <3>1
    <3>2. CASE f # d
      <4>1. log'[f] = log[f] /\ Len(log[f]) \in Nat
        BY <2>5, <3>2
      <4> QED
        BY <4>1
    <3> QED
      BY <3>1, <3>2
  <2>7. log[d] = <<>> => log'[d][1] = x
    BY <2>1, <2>2 DEF s
  <2>8. /\ Range(log'[d]) \subseteq Range(log[d]) \union {x}
        /\ x \in Range(log'[d]) /\ log'[d] # <<>>
    BY <2>1, <2>2, <2>3 DEF s
  <2> QED
    BY <1>2, <1>4, <2>6, <2>7, <2>8
<1> QED
  BY <1>3, <1>4

\* What every publishing step keeps, given that the entry's seals are for
\* others and of keys their minters hold.
LEMMA PublishKeepsLogs ==
    ASSUME HoleInv, NEW d \in Device, NEW x, NEW seen, Publish(d, x, seen),
           Opened(d) \/ (x.cert /\ x # Entry(FALSE, {}, {})),
           \A f \in Device : keys[f] \subseteq keys'[f],
           \A s \in x.seals : s.to # d /\ MinterHolds(s.key)'
    PROVE  /\ CertFirst' /\ NotToSelf'
           /\ \A f \in Device : \A y \in Range(log'[f]) : \A s \in y.seals : MinterHolds(s.key)'
           /\ \A e, t : Sealed(e, t) => Sealed(e, t)'
           /\ x # Entry(FALSE, {}, {}) => \A s \in x.seals : Sealed(s.key.epoch, s.to)'
<1>1. /\ \A f \in Device :
                /\ Len(log[f]) \in Nat /\ Len(log'[f]) \in Nat
                /\ Len(log[f]) <= Len(log'[f])
                /\ \A i \in 1..Len(log[f]) : log'[f][i] = log[f][i]
                /\ Range(log[f]) \subseteq Range(log'[f])
                /\ f # d => log'[f] = log[f]
      /\ Range(log'[d]) \subseteq Range(log[d]) \union {x}
      /\ x = Entry(FALSE, {}, {}) => log'[d] = log[d]
      /\ x # Entry(FALSE, {}, {}) => /\ x \in Range(log'[d]) /\ log'[d] # <<>>
                                     /\ log[d] = <<>> => log'[d][1] = x
  BY PublishExtends DEF HoleInv, KeyEpochsInv
<1>2. CertFirst'
  <2> SUFFICES ASSUME NEW f \in Device, log'[f] # <<>> PROVE log'[f][1].cert
    BY DEF CertFirst, Opened
  <2>1. CASE log[f] # <<>>
    <3>1. 1 \in 1..Len(log[f])
      <4>1. PICK S : log \in [Device -> Seq(S)]
        BY DEF HoleInv, KeyEpochsInv, Shapes
      <4> QED
        BY <2>1, <4>1
    <3> QED
      BY <1>1, <2>1, <3>1 DEF HoleInv, CertFirst, Opened
  <2>2. CASE log[f] = <<>>
    <3>1. f = d
      BY <1>1, <2>2, Zenon
    <3>2. x # Entry(FALSE, {}, {})
      BY <1>1, <2>2, <3>1, Zenon
    <3>3. log'[d][1] = x
      BY <1>1, <2>2, <3>1, <3>2, Zenon
    <3>4. x.cert
      BY <2>2, <3>1, Zenon DEF Opened
    <3> QED
      BY <3>1, <3>3, <3>4
  <2> QED
    BY <2>1, <2>2
<1>3. NotToSelf'
  BY <1>1 DEF NotToSelf, HoleInv
<1>4. \A k : MinterHolds(k) => MinterHolds(k)'
  BY DEF MinterHolds
<1>5. \A f \in Device : \A y \in Range(log'[f]) : \A s \in y.seals : MinterHolds(s.key)'
  BY <1>1, <1>4 DEF HoleInv, Origins
<1>6. \A e, t : Sealed(e, t) => Sealed(e, t)'
  BY <1>1 DEF Sealed
<1>7. x # Entry(FALSE, {}, {}) => \A s \in x.seals : Sealed(s.key.epoch, s.to)'
  BY <1>1 DEF Sealed
<1> QED
  BY <1>2, <1>3, <1>5, <1>6, <1>7

LEMMA InitHoleInv == Init => HoleInv
<1> SUFFICES ASSUME Init PROVE HoleInv
  OBVIOUS
<1> DEFINE others == Initial \ {Founder}
           k == Key(1, Founder)
           seals == {Seal(r, k) : r \in others}
           cert == Entry(TRUE, {}, {})
           mint == Entry(FALSE, {}, seals)
<1>1. /\ members = Initial
      /\ log = [d \in Device |-> CASE d = Founder -> <<cert, mint>>
                                   [] d \in others -> <<cert>>
                                   [] OTHER -> <<>>]
      /\ read = [d \in Device |-> [e \in Device |-> IF d \in Initial THEN Len(log[e]) ELSE 0]]
      /\ keys = [d \in Device |-> IF d \in Initial THEN {k} ELSE {}]
      /\ certs = [d \in Device |-> IF d \in Initial THEN Initial ELSE {}]
      /\ bounded = [d \in Device |-> {}]
  BY DEF Init
<1>2. KeyEpochsInv
  BY InitInv
<1>3. Founder \in Device /\ Founder \in Initial /\ Initial \subseteq Device
  BY KeyEpochsAssumption
<1>4. /\ cert.cert /\ cert.seals = {}
      /\ ~mint.cert /\ mint.seals = seals
      /\ k.by = Founder /\ k.epoch = 1
      /\ \A s \in seals : s.key = k /\ s.to \in others
      /\ \A r \in others : Seal(r, k) \in seals /\ Seal(r, k).to = r /\ Seal(r, k).key = k
  BY DEF Entry, Key, Seal
<1> HIDE DEF cert, mint, seals, k
<1>5. /\ log[Founder] = <<cert, mint>>
      /\ \A d \in others : log[d] = <<cert>>
      /\ \A d \in Device \ Initial : log[d] = <<>>
  BY <1>1, <1>3
<1>6. /\ Len(log[Founder]) = 2 /\ log[Founder][1] = cert /\ log[Founder][2] = mint
      /\ \A d \in others : Len(log[d]) = 1 /\ log[d][1] = cert
      /\ \A d \in Device \ Initial : Len(log[d]) = 0
  <2>1. Len(<<cert, mint>>) = 2 /\ <<cert, mint>>[1] = cert /\ <<cert, mint>>[2] = mint
    OBVIOUS
  <2>2. Len(<<cert>>) = 1 /\ <<cert>>[1] = cert /\ Len(<<>>) = 0
    OBVIOUS
  <2> QED
    BY <1>5, <2>1, <2>2, Zenon
<1>7. /\ Range(log[Founder]) = {cert, mint}
      /\ \A d \in others : Range(log[d]) = {cert}
      /\ \A d \in Device \ Initial : Range(log[d]) = {}
  BY <1>5 DEF Range
<1>8. \A d \in Device : d = Founder \/ d \in others \/ d \in Device \ Initial
  BY <1>3
<1>9. Tables
  BY <1>1, <1>3 DEF Tables
<1>10. Outsiders
  BY <1>1, <1>5 DEF Outsiders
<1>11. CertFirst
  BY <1>4, <1>5, <1>6, <1>8 DEF CertFirst, Opened
<1>12. NotToSelf
  BY <1>4, <1>7, <1>8 DEF NotToSelf
<1>13. Origins
  <2>1. MinterHolds(k)
    BY <1>1, <1>3, <1>4 DEF MinterHolds
  <2>2. \A d \in Device : \A j \in keys[d] : MinterHolds(j)
    BY <1>1, <2>1
  <2>3. \A d \in Device : \A x \in Range(log[d]) : x = cert \/ x = mint
    BY <1>7, <1>8
  <2>4. \A d \in Device : \A x \in Range(log[d]) : \A s \in x.seals : MinterHolds(s.key)
    BY <1>4, <2>1, <2>3
  <2> QED
    BY <2>2, <2>4 DEF Origins
<1>15. Absorbed
  <2> SUFFICES ASSUME NEW d \in Device, NEW e \in Device \ {d}
               PROVE  /\ read[d][e] <= Len(log[e])
                      /\ \A i \in 1..read[d][e] :
                           /\ log[e][i].cert => e \in certs[d]
                           /\ \A s \in log[e][i].seals : s.to = d => s.key \in keys[d]
    BY DEF Absorbed
  <2>1. CASE d \notin Initial
    <3>1. read[d][e] = 0
      BY <1>1, <2>1
    <3> QED
      BY <1>6, <1>8, <3>1
  <2>2. CASE d \in Initial
    <3>1. read[d][e] = Len(log[e]) /\ certs[d] = Initial /\ keys[d] = {k}
      BY <1>1, <2>2
    <3>2. CASE e = Founder
      BY <1>3, <1>4, <1>6, <3>1, <3>2
    <3>3. CASE e \in others
      BY <1>3, <1>4, <1>6, <3>1, <3>3
    <3>4. CASE e \in Device \ Initial
      BY <1>6, <3>1, <3>4
    <3> QED
      BY <1>8, <3>2, <3>3, <3>4
  <2> QED
    BY <2>1, <2>2
<1>16. MintersSeal
  <2> SUFFICES ASSUME NEW d \in Device, NEW j \in keys[d], j.by = d,
                      NEW e \in certs[d] \ (bounded[d] \union {d})
               PROVE  Sealed(j.epoch, e)
    BY DEF MintersSeal
  <2>1. j = k /\ d = Founder /\ e \in others
    BY <1>1, <1>4
  <2>2. Seal(e, k) \in mint.seals /\ Seal(e, k).to = e /\ Seal(e, k).key = k /\ mint \in Range(log[Founder])
    BY <1>4, <1>7, <2>1
  <2> QED
    BY <1>3, <2>1, <2>2 DEF Sealed
<1> QED
  BY <1>2, <1>9, <1>10, <1>11, <1>12, <1>13, <1>15, <1>16 DEF HoleInv

\* issue_pairing_grant: the joiner had nothing and knows no other device.
LEMMA PairKeepsHoleInv ==
    ASSUME HoleInv, NEW d \in Device, Pair(d), KeyEpochsInv'
    PROVE  HoleInv'
<1> USE DEF HoleInv
<1>1. PICK F \in Firsts(keys[Founder]) : keys' = [keys EXCEPT ![d] = F]
  BY DEF Pair
<1>2. /\ d \notin members /\ members' = members \union {d}
      /\ bounded' = [bounded EXCEPT ![d] = bounded[Founder]]
      /\ certs' = [certs EXCEPT ![d] = {d}]
      /\ log' = log /\ read' = read /\ recipients' = recipients
  BY DEF Pair
<1>3. F \subseteq keys[Founder] /\ Founder \in Device
  BY KeyEpochsAssumption DEF Firsts
<1>4. /\ keys[d] = {} /\ keys'[d] = F
      /\ \A f \in Device : keys[f] \subseteq keys'[f] /\ (f # d => keys'[f] = keys[f])
  BY <1>1, <1>2 DEF Tables, Outsiders
<1>5. \A k : MinterHolds(k) => k.by # d /\ MinterHolds(k)'
  BY <1>4 DEF MinterHolds
<1>6. \A e, t : Sealed(e, t)' <=> Sealed(e, t)
  BY <1>2 DEF Sealed
<1>8. Tables'
  BY <1>1, <1>2 DEF Tables
<1>9. Outsiders'
  BY <1>2, <1>4 DEF Outsiders
<1>10. CertFirst' /\ NotToSelf'
  BY <1>2 DEF CertFirst, NotToSelf, Opened
<1>11. Origins'
  BY <1>2, <1>3, <1>4, <1>5 DEF Origins
<1>13. Absorbed'
  <2> SUFFICES ASSUME NEW f \in Device, NEW e \in Device \ {f}
               PROVE  /\ read[f][e] <= Len(log[e])
                      /\ \A i \in 1..read[f][e] :
                           /\ log[e][i].cert => e \in certs'[f]
                           /\ \A s \in log[e][i].seals : s.to = f => s.key \in keys'[f]
    BY <1>2 DEF Absorbed
  <2>1. read[f][e] <= Len(log[e])
    BY DEF Absorbed
  <2>2. CASE f = d
    <3>1. read[f][e] = 0
      BY <1>2, <2>2 DEF Outsiders
    <3> QED
      BY <2>1, <3>1
  <2>3. CASE f # d
    <3>1. certs'[f] = certs[f]
      BY <1>2, <2>3 DEF Tables
    <3> QED
      BY <1>4, <2>1, <2>3, <3>1 DEF Absorbed
  <2> QED
    BY <2>2, <2>3
<1>14. MintersSeal'
  <2> SUFFICES ASSUME NEW f \in Device, NEW k \in keys'[f], k.by = f,
                      NEW e \in certs'[f] \ (bounded'[f] \union {f})
               PROVE  Sealed(k.epoch, e)
    BY <1>6 DEF MintersSeal
  <2>1. f # d
    BY <1>2 DEF Tables
  <2> QED
    BY <1>2, <1>4, <2>1 DEF Tables, MintersSeal
<1> QED
  BY <1>8, <1>9, <1>10, <1>11, <1>13, <1>14

\* An entry without envelopes, of a device that may bound others with it.
LEMMA NoteKeepsHoleInv ==
    ASSUME HoleInv, NEW d \in members, NEW x, Publish(d, x, {}), x.seals = {},
           Opened(d) \/ (x.cert /\ x # Entry(FALSE, {}, {})),
           NEW B, bounded' = [bounded EXCEPT ![d] = @ \union B],
           UNCHANGED <<members, read, keys, certs>>, KeyEpochsInv'
    PROVE  HoleInv'
<1> USE DEF HoleInv
<1>1. /\ d \in Device /\ d \in members /\ Publish(d, x, {}) /\ x.seals = {}
      /\ members' = members /\ read' = read /\ keys' = keys /\ certs' = certs
  BY DEF Tables
<1>2. \A f \in Device : bounded[f] \subseteq bounded'[f]
  BY DEF Tables
<1>3. /\ CertFirst' /\ NotToSelf'
      /\ \A f \in Device : \A y \in Range(log'[f]) : \A s \in y.seals : MinterHolds(s.key)'
      /\ \A e, t : Sealed(e, t) => Sealed(e, t)'
  BY <1>1, PublishKeepsLogs
<1>4. /\ \A f \in Device : \A i \in 1..Len(log[f]) : log'[f][i] = log[f][i]
      /\ \A f \in Device : Len(log[f]) \in Nat /\ Len(log'[f]) \in Nat /\ Len(log[f]) <= Len(log'[f])
      /\ \A f \in Device : f # d => log'[f] = log[f]
  BY <1>1, PublishExtends DEF KeyEpochsInv
<1>5. \A k : MinterHolds(k) => MinterHolds(k)'
  BY <1>1 DEF MinterHolds
<1>6. Tables' /\ Outsiders'
  <2>1. Tables'
    BY <1>1 DEF Tables
  <2>2. Outsiders'
    BY <1>1, <1>4 DEF Outsiders
  <2> QED
    BY <2>1, <2>2
<1>7. Origins'
  BY <1>1, <1>3, <1>5 DEF Origins
<1>9. Absorbed'
  <2>1. \A f, e \in Device : read[f][e] \in Nat
    BY DEF KeyEpochsInv, Shapes
  <2> SUFFICES ASSUME NEW f \in Device, NEW g \in Device \ {f}
               PROVE  /\ read'[f][g] <= Len(log'[g])
                      /\ \A i \in 1..read'[f][g] :
                           /\ log'[g][i].cert => g \in certs'[f]
                           /\ \A s \in log'[g][i].seals : s.to = f => s.key \in keys'[f]
    BY DEF Absorbed
  <2>2. /\ read[f][g] \in Nat /\ read[f][g] <= Len(log[g])
        /\ \A i \in 1..read[f][g] :
              /\ log[g][i].cert => g \in certs[f]
              /\ \A s \in log[g][i].seals : s.to = f => s.key \in keys[f]
    BY <2>1 DEF Absorbed
  <2>3. Len(log[g]) \in Nat /\ Len(log'[g]) \in Nat /\ Len(log[g]) <= Len(log'[g])
    BY <1>4
  <2>4. \A i \in 1..Len(log[g]) : log'[g][i] = log[g][i]
    BY <1>4
  <2>5. \A i \in 1..read[f][g] : log'[g][i] = log[g][i]
    BY <2>2, <2>3, <2>4
  <2>6. read[f][g] <= Len(log'[g])
    BY <2>2, <2>3
  <2>7. read'[f][g] = read[f][g] /\ certs'[f] = certs[f] /\ keys[f] \subseteq keys'[f]
    BY <1>1
  <2> QED
    BY <2>2, <2>5, <2>6, <2>7
<1>10. MintersSeal'
  BY <1>1, <1>2, <1>3 DEF MintersSeal
<1> QED
  BY <1>3, <1>6, <1>7, <1>9, <1>10

\* publish_device_cert: nobody has read the cert yet.
LEMMA CertKeepsHoleInv ==
    ASSUME HoleInv, NEW d \in Device, PublishDeviceCert(d), KeyEpochsInv'
    PROVE  HoleInv'
<1>1. PICK x : x = Entry(TRUE, {}, {})
  OBVIOUS
<1>2. x.cert /\ x.seals = {} /\ x # Entry(FALSE, {}, {})
  BY <1>1 DEF Entry
<1>3. bounded' = [bounded EXCEPT ![d] = @ \union {}]
  BY DEF PublishDeviceCert, HoleInv, Tables
<1>4. d \in members /\ Publish(d, x, {}) /\ UNCHANGED <<members, read, keys, certs>>
  BY <1>1 DEF PublishDeviceCert
<1> QED
  BY <1>2, <1>3, <1>4, NoteKeepsHoleInv

\* rotate_stream_key and revoke_device: the new key is sealed to every device
\* the minter knows and does not bound.
LEMMA MintKeepsHoleInv ==
    ASSUME HoleInv, NEW d \in Device, NEW R, NEW B, Opened(d),
           Mint(d, bounded[d] \union B, R),
           bounded' = [bounded EXCEPT ![d] = @ \union B],
           UNCHANGED <<members, read, certs>>, KeyEpochsInv'
    PROVE  HoleInv'
<1> USE DEF HoleInv
<1> DEFINE to == certs[d] \ ((bounded[d] \union B) \union {d})
<1>0. PICK k, seals, x : /\ k = Key(MaxEpoch(keys[d]) + 1, d)
                         /\ seals = {Seal(r, k) : r \in to}
                         /\ x = Entry(FALSE, R, seals)
  OBVIOUS
<1>1. /\ keys' = [keys EXCEPT ![d] = @ \union {k}] /\ Publish(d, x, {})
      /\ members' = members /\ read' = read /\ certs' = certs
  BY <1>0 DEF Mint
<1>2. /\ k.by = d
      /\ \A s \in seals : s.key = k /\ s.to # d
      /\ \A r \in to : \E s \in seals : s.to = r /\ s.key = k
  <2>1. k.by = d
    BY <1>0 DEF Key
  <2>2. \A r : Seal(r, k).to = r /\ Seal(r, k).key = k
    BY DEF Seal
  <2>3. \A r \in to : r # d
    OBVIOUS
  <2> HIDE DEF to
  <2> QED
    BY <1>0, <2>1, <2>2, <2>3
<1>3. /\ x.seals = seals
      /\ (seals # {} => x # Entry(FALSE, {}, {}))
  BY <1>0 DEF Entry
<1>4. /\ keys'[d] = keys[d] \union {k}
      /\ \A f \in Device : f # d => keys'[f] = keys[f]
      /\ bounded'[d] = bounded[d] \union B
      /\ \A f \in Device : f # d => bounded'[f] = bounded[f]
  BY <1>1 DEF Tables
<1>5. \A f \in Device : keys[f] \subseteq keys'[f]
  BY <1>4
<1>6. MinterHolds(k)' /\ \A j : MinterHolds(j) => MinterHolds(j)'
  BY <1>2, <1>4, <1>5 DEF MinterHolds
<1>7. /\ CertFirst' /\ NotToSelf'
      /\ \A f \in Device : \A y \in Range(log'[f]) : \A s \in y.seals : MinterHolds(s.key)'
      /\ \A e, t : Sealed(e, t) => Sealed(e, t)'
      /\ x # Entry(FALSE, {}, {}) => \A s \in x.seals : Sealed(s.key.epoch, s.to)'
  <2>1. \A s \in x.seals : s.to # d /\ MinterHolds(s.key)'
    BY <1>2, <1>3, <1>6
  <2> QED
    BY <1>1, <1>5, <2>1, PublishKeepsLogs
<1>8. /\ \A f \in Device : \A i \in 1..Len(log[f]) : log'[f][i] = log[f][i]
      /\ \A f \in Device : Len(log[f]) \in Nat /\ Len(log'[f]) \in Nat /\ Len(log[f]) <= Len(log'[f])
      /\ \A f \in Device : f # d => log'[f] = log[f]
  BY <1>1, PublishExtends DEF KeyEpochsInv
<1>9. Tables'
  BY <1>1 DEF Tables
<1>10. d \in members
  BY DEF Outsiders, Opened
<1>11. Outsiders'
  BY <1>1, <1>4, <1>8, <1>10 DEF Outsiders
<1>12. Origins'
  BY <1>4, <1>6, <1>7 DEF Origins
<1>15. Absorbed'
  <2>1. \A f, e \in Device : read[f][e] \in Nat
    BY DEF KeyEpochsInv, Shapes
  <2> SUFFICES ASSUME NEW f \in Device, NEW g \in Device \ {f}
               PROVE  /\ read'[f][g] <= Len(log'[g])
                      /\ \A i \in 1..read'[f][g] :
                           /\ log'[g][i].cert => g \in certs'[f]
                           /\ \A s \in log'[g][i].seals : s.to = f => s.key \in keys'[f]
    BY DEF Absorbed
  <2>2. /\ read[f][g] \in Nat /\ read[f][g] <= Len(log[g])
        /\ \A i \in 1..read[f][g] :
              /\ log[g][i].cert => g \in certs[f]
              /\ \A s \in log[g][i].seals : s.to = f => s.key \in keys[f]
    BY <2>1 DEF Absorbed
  <2>3. Len(log[g]) \in Nat /\ Len(log'[g]) \in Nat /\ Len(log[g]) <= Len(log'[g])
    BY <1>8
  <2>4. \A i \in 1..Len(log[g]) : log'[g][i] = log[g][i]
    BY <1>8
  <2>5. \A i \in 1..read[f][g] : log'[g][i] = log[g][i]
    BY <2>2, <2>3, <2>4
  <2>6. read[f][g] <= Len(log'[g])
    BY <2>2, <2>3
  <2>7. read'[f][g] = read[f][g] /\ certs'[f] = certs[f] /\ keys[f] \subseteq keys'[f]
    BY <1>1, <1>5
  <2> QED
    BY <2>2, <2>5, <2>6, <2>7
<1>16. MintersSeal'
  <2> SUFFICES ASSUME NEW f \in Device, NEW j \in keys'[f], j.by = f,
                      NEW e \in certs'[f] \ (bounded'[f] \union {f})
               PROVE  Sealed(j.epoch, e)'
    BY DEF MintersSeal
  <2>1. CASE j \in keys[f]
    BY <1>1, <1>4, <1>7, <2>1 DEF MintersSeal
  <2>2. CASE j \notin keys[f]
    <3>1. f = d /\ j = k /\ e \in to
      BY <1>1, <1>4, <2>2
    <3>2. PICK s \in seals : s.to = e /\ s.key = k
      BY <1>2, <3>1
    <3> QED
      BY <1>3, <1>7, <3>1, <3>2
  <2> QED
    BY <2>1, <2>2
<1> QED
  BY <1>7, <1>9, <1>11, <1>12, <1>15, <1>16

\* backfill_key_envelopes: keys of this device, sealed to the new one, and of
\* every epoch that is not recorded.
LEMMA BackfillSeals ==
    ASSUME NEW d, NEW e, NEW seals \in Backfill(d, e)
    PROVE  /\ \A s \in seals : s.to = e /\ s.to # d /\ s.key \in keys[d]
           /\ e # d /\ e \notin bounded[d] =>
                \A k \in keys[d] : \/ <<k.epoch, e>> \in recipients[d]
                                   \/ \E s \in seals : s.to = e /\ s.key.epoch = k.epoch
<1> DEFINE K == {k \in keys[d] : <<k.epoch, e>> \notin recipients[d]}
<1>1. CASE e = d \/ e \in bounded[d]
  BY <1>1 DEF Backfill
<1>2. CASE e # d /\ e \notin bounded[d]
  <2>1. PICK F \in Firsts(K) : seals = {Seal(e, k) : k \in F}
    BY <1>2 DEF Backfill
  <2>2. F \subseteq K /\ EpochsOf(F) = EpochsOf(K)
    BY <2>1 DEF Firsts
  <2>3. \A k : Seal(e, k).to = e /\ Seal(e, k).key = k
    BY DEF Seal
  <2>4. ASSUME NEW s \in seals PROVE s.to = e /\ s.to # d /\ s.key \in keys[d]
    <3>1. PICK k \in F : s = Seal(e, k)
      BY <2>1
    <3>2. k \in keys[d]
      BY <2>2, <3>1
    <3> QED
      BY <1>2, <2>3, <3>1, <3>2
  <2>5. ASSUME NEW k \in keys[d], <<k.epoch, e>> \notin recipients[d]
        PROVE  \E s \in seals : s.to = e /\ s.key.epoch = k.epoch
    <3>1. PICK j \in F : j.epoch = k.epoch
      BY <2>2, <2>5 DEF EpochsOf
    <3> QED
      BY <2>1, <2>3, <3>1
  <2> QED
    BY <2>4, <2>5
<1> QED
  BY <1>1, <1>2

\* apply_control_op: a device that learns of another seals it what it holds.
LEMMA ApplyKeepsHoleInv ==
    ASSUME HoleInv, NEW d \in Device, NEW e \in Device, Apply(d, e), KeyEpochsInv'
    PROVE  HoleInv'
<1> USE DEF HoleInv
<1>1. PICK y : y = log[e][read[d][e] + 1]
  OBVIOUS
<1>0. PICK B : B = Register(ledger[d] \union {Row(e, t) : t \in y.revokes})
  OBVIOUS
<1>2. PICK seals, seen : /\ seals \in IF y.cert THEN Backfill(d, e) ELSE {{}}
                         /\ Publish(d, Entry(FALSE, {}, seals), seen)
  BY <1>1 DEF Apply
<1>3. PICK z : z = Entry(FALSE, {}, seals)
  OBVIOUS
<1>4. /\ z.seals = seals
      /\ (seals # {} => z # Entry(FALSE, {}, {}))
  BY <1>3 DEF Entry
<1>5. /\ Opened(d) /\ e # d /\ read[d][e] < Len(log[e]) /\ members' = members
      /\ read' = [read EXCEPT ![d][e] = @ + 1]
      /\ bounded' = [bounded EXCEPT ![d] = @ \union B]
      /\ keys' = [keys EXCEPT ![d] = @ \union {s.key : s \in {w \in y.seals : w.to = d}}]
      /\ certs' = [certs EXCEPT ![d] = IF y.cert THEN @ \union {e} ELSE @]
  BY <1>0, <1>1 DEF Apply
<1>6. /\ keys'[d] = keys[d] \union {s.key : s \in {w \in y.seals : w.to = d}}
      /\ bounded'[d] = bounded[d] \union B
      /\ certs'[d] = IF y.cert THEN certs[d] \union {e} ELSE certs[d]
      /\ \A f \in Device : f # d =>
            keys'[f] = keys[f] /\ bounded'[f] = bounded[f] /\ certs'[f] = certs[f]
  BY <1>5 DEF Tables
<1>7. \A f \in Device : keys[f] \subseteq keys'[f] /\ certs[f] \subseteq certs'[f]
  BY <1>6
<1>8. /\ read \in [Device -> [Device -> Nat]]
      /\ \A f \in Device : Len(log[f]) \in Nat /\ DOMAIN log[f] = 1..Len(log[f])
  BY DEF KeyEpochsInv, Shapes
<1>9. y \in Range(log[e])
  <2>1. read[d][e] + 1 \in DOMAIN log[e]
    BY <1>5, <1>8
  <2> QED
    BY <1>1, <2>1 DEF Range
<1>10. \A j : MinterHolds(j) => MinterHolds(j)'
  BY <1>7 DEF MinterHolds
<1>11. \A k \in keys'[d] : MinterHolds(k)
  BY <1>6, <1>9 DEF Origins
<1>12. /\ \A s \in seals : s.to # d /\ s.key \in keys[d]
       /\ y.cert /\ e \notin bounded[d] =>
            \A k \in keys[d] : \/ <<k.epoch, e>> \in recipients[d]
                               \/ \E s \in seals : s.to = e /\ s.key.epoch = k.epoch
  <2>1. CASE y.cert
    BY <1>2, <1>5, <2>1, BackfillSeals
  <2>2. CASE ~y.cert
    BY <1>2, <2>2
  <2> QED
    BY <2>1, <2>2
<1>13. \A s \in z.seals : s.to # d /\ MinterHolds(s.key)'
  BY <1>4, <1>10, <1>12 DEF Origins
<1>14. /\ CertFirst' /\ NotToSelf'
       /\ \A f \in Device : \A w \in Range(log'[f]) : \A s \in w.seals : MinterHolds(s.key)'
       /\ \A i, t : Sealed(i, t) => Sealed(i, t)'
       /\ z # Entry(FALSE, {}, {}) => \A s \in z.seals : Sealed(s.key.epoch, s.to)'
  <2>2. Publish(d, z, seen)
    BY <1>2, <1>3
  <2> QED
    BY <1>5, <1>7, <1>13, <2>2, PublishKeepsLogs
<1>15. /\ \A f \in Device : \A i \in 1..Len(log[f]) : log'[f][i] = log[f][i]
       /\ \A f \in Device : Len(log'[f]) \in Nat /\ Len(log[f]) <= Len(log'[f])
       /\ \A f \in Device : f # d => log'[f] = log[f]
  <2>2. Publish(d, z, seen)
    BY <1>2, <1>3
  <2> QED
    BY <2>2, PublishExtends DEF KeyEpochsInv
<1>16. Tables'
  BY <1>5 DEF Tables
<1>17. d \in members
  BY <1>5 DEF Outsiders, Opened
<1>18. Outsiders'
  <2>1. \A f \in Device : f # d => read'[f] = read[f]
    BY <1>5, <1>8
  <2> QED
    BY <1>5, <1>6, <1>15, <1>17, <2>1 DEF Outsiders
<1>19. Origins'
  BY <1>6, <1>10, <1>11, <1>14 DEF Origins
<1>21. Absorbed'
  <2> SUFFICES ASSUME NEW f \in Device, NEW g \in Device \ {f}
               PROVE  /\ read'[f][g] <= Len(log'[g])
                      /\ \A i \in 1..read'[f][g] :
                           /\ log'[g][i].cert => g \in certs'[f]
                           /\ \A s \in log'[g][i].seals : s.to = f => s.key \in keys'[f]
    BY DEF Absorbed
  <2>0. /\ read[f][g] \in Nat /\ read[f][g] <= Len(log[g])
        /\ \A i \in 1..read[f][g] :
              /\ log[g][i].cert => g \in certs[f]
              /\ \A s \in log[g][i].seals : s.to = f => s.key \in keys[f]
    BY <1>8 DEF Absorbed
  <2>1. CASE f = d /\ g = e
    <3>1. read'[f][g] = read[f][g] + 1 /\ log'[g] = log[g]
      BY <1>5, <1>8, <1>15, <2>1
    <3>2. \A i \in 1..(read[f][g] + 1) : i \in 1..read[f][g] \/ i = read[f][g] + 1
      BY <2>0
    <3>3. /\ log[g][read[f][g] + 1] = y
          /\ y.cert => g \in certs'[f]
          /\ \A s \in y.seals : s.to = f => s.key \in keys'[f]
      BY <1>1, <1>6, <2>1
    <3>4. ASSUME NEW i \in 1..(read[f][g] + 1)
          PROVE  /\ log[g][i].cert => g \in certs'[f]
                 /\ \A s \in log[g][i].seals : s.to = f => s.key \in keys'[f]
      <4>1. CASE i \in 1..read[f][g]
        BY <1>7, <2>0, <4>1
      <4>2. CASE i = read[f][g] + 1
        BY <3>3, <4>2
      <4> QED
        BY <3>2, <4>1, <4>2
    <3>5. read[f][g] + 1 <= Len(log[g])
      BY <1>5, <1>8, <2>0, <2>1
    <3> QED
      BY <3>1, <3>4, <3>5
  <2>2. CASE ~(f = d /\ g = e)
    <3>1. read'[f][g] = read[f][g]
      BY <1>5, <1>8, <2>2
    <3>4. Len(log[g]) \in Nat /\ Len(log'[g]) \in Nat /\ Len(log[g]) <= Len(log'[g])
      BY <1>8, <1>15, Zenon
    <3>5. \A i \in 1..Len(log[g]) : log'[g][i] = log[g][i]
      BY <1>15, Zenon
    <3>2. \A i \in 1..read[f][g] : log'[g][i] = log[g][i]
      BY <2>0, <3>4, <3>5
    <3>3. read[f][g] <= Len(log'[g])
      BY <2>0, <3>4
    <3> QED
      BY <1>7, <2>0, <3>1, <3>2, <3>3
  <2> QED
    BY <2>1, <2>2
<1>22. MintersSeal'
  <2> SUFFICES ASSUME NEW f \in Device, NEW k \in keys'[f], k.by = f,
                      NEW t \in certs'[f] \ (bounded'[f] \union {f})
               PROVE  Sealed(k.epoch, t)'
    BY DEF MintersSeal
  <2>1. CASE f # d
    BY <1>6, <1>14, <2>1 DEF MintersSeal
  <2>2. CASE f = d
    <3>1. k \in keys[d] /\ t \notin bounded[d]
      BY <1>6, <1>11, <2>2 DEF MinterHolds
    <3>2. CASE t \in certs[d]
      BY <1>14, <2>2, <3>1, <3>2 DEF MintersSeal
    <3>3. CASE t \notin certs[d]
      <4>1. y.cert /\ t = e
        BY <1>6, <2>2, <3>3
      <4>2. CASE <<k.epoch, e>> \in recipients[d]
        <5>1. Sealed(<<k.epoch, e>>[1], <<k.epoch, e>>[2])
          BY <4>2 DEF KeyEpochsInv, RecordsAreTrue
        <5> QED
          BY <1>14, <4>1, <5>1
      <4>3. CASE \E s \in seals : s.to = e /\ s.key.epoch = k.epoch
        BY <1>4, <1>14, <4>1, <4>3
      <4> QED
        BY <1>12, <3>1, <4>1, <4>2, <4>3
    <3> QED
      BY <3>2, <3>3
  <2> QED
    BY <2>1, <2>2
<1> QED
  BY <1>14, <1>16, <1>18, <1>19, <1>21, <1>22

LEMMA StepHoleInv == ASSUME HoleInv, [Next]_vars PROVE HoleInv'
<1>0. KeyEpochsInv'
  BY StepInv DEF HoleInv
<1>1. ASSUME NEW d \in Device, Pair(d) PROVE HoleInv'
  BY <1>0, <1>1, PairKeepsHoleInv
<1>2. ASSUME NEW d \in Device, PublishDeviceCert(d) PROVE HoleInv'
  BY <1>0, <1>2, CertKeepsHoleInv
<1>3. ASSUME NEW d \in Device, RotateStreamKey(d) PROVE HoleInv'
  <2>1. /\ Opened(d) /\ Mint(d, bounded[d] \union {}, {})
        /\ UNCHANGED <<members, read, certs>>
        /\ bounded' = [bounded EXCEPT ![d] = @ \union {}]
    <3>1. bounded[d] \union {} = bounded[d]
      OBVIOUS
    <3>2. bounded = [bounded EXCEPT ![d] = @ \union {}]
      BY <3>1 DEF HoleInv, Tables
    <3> QED
      BY <1>3, <3>1, <3>2 DEF RotateStreamKey
  <2> QED
    BY <1>0, <2>1, MintKeepsHoleInv
<1>4. ASSUME NEW d \in Device, NEW t \in Device, RevokeDevice(d, t) PROVE HoleInv'
  <2>1. PICK B : B = Register(ledger[d] \union {Row(d, t)})
    OBVIOUS
  <2>2. /\ Opened(d) /\ bounded' = [bounded EXCEPT ![d] = @ \union B]
        /\ UNCHANGED <<members, read, certs>>
        /\ \/ Mint(d, bounded[d] \union B, {t})
           \/ Publish(d, Entry(FALSE, {t}, {}), {}) /\ keys' = keys
    BY <1>4, <2>1 DEF RevokeDevice
  <2>3. CASE Mint(d, bounded[d] \union B, {t})
    BY <1>0, <2>2, <2>3, MintKeepsHoleInv
  <2>4. CASE Publish(d, Entry(FALSE, {t}, {}), {}) /\ keys' = keys
    <3>1. d \in members
      BY <2>2 DEF HoleInv, Outsiders, Opened
    <3>2. Entry(FALSE, {t}, {}).seals = {}
      BY DEF Entry
    <3> QED
      BY <1>0, <2>2, <2>4, <3>1, <3>2, NoteKeepsHoleInv
  <2> QED
    BY <2>2, <2>3, <2>4
<1>5. ASSUME NEW d \in Device, NEW e \in Device, Apply(d, e) PROVE HoleInv'
  BY <1>0, <1>5, ApplyKeepsHoleInv
<1>6. CASE UNCHANGED vars
  BY <1>0, <1>6 DEF vars, HoleInv, Tables, Outsiders, CertFirst, NotToSelf, Origins, MinterHolds,
     Absorbed, MintersSeal, Opened, Sealed
<1> QED
  BY <1>1, <1>2, <1>3, <1>4, <1>5, <1>6 DEF Next

(***************************************************************************)
(* For any devices and any history of rotations, pairings, revocations and *)
(* deliveries: once every op has reached every device, a device that no    *)
(* device bounds holds a key of every epoch ever minted.                   *)
(***************************************************************************)
THEOREM NobodyIsLeftOut == Spec => []NoPermanentHole
<1>1. ASSUME HoleInv PROVE NoPermanentHole
  <2> USE <1>1 DEF HoleInv
  <2> SUFFICES ASSUME Quiet, NEW d \in members, \A m \in members : d \notin bounded[m],
                      NEW g \in Device, NEW k \in keys[g]
               PROVE  \E j \in keys[d] : j.epoch = k.epoch
    BY DEF NoPermanentHole, EpochsOf, Minted
  <2> DEFINE m == k.by
  <2>1. m \in Device /\ k \in keys[m] /\ d \in Device /\ m \in members
    BY DEF Origins, MinterHolds, Tables, Outsiders
  <2>2. CASE m = d
    BY <2>1, <2>2
  <2>3. CASE m # d
    <3>1. PICK S : log \in [Device -> Seq(S)]
      BY DEF KeyEpochsInv, Shapes
    <3>2. log[d] # <<>> /\ log[d] \in Seq(S) /\ read[m][d] = Len(log[d])
      BY <2>1, <2>3, <3>1 DEF Quiet, Opened
    <3>3. 1 \in 1..read[m][d]
      BY <3>2
    <3>4. d \in certs[m]
      BY <2>1, <2>3, <3>2, <3>3 DEF CertFirst, Opened, Absorbed
    <3>5. Sealed(k.epoch, d)
      BY <2>1, <2>3, <3>4 DEF MintersSeal
    <3>6. PICK f \in Device : \E x \in Range(log[f]) : \E s \in x.seals :
              s.to = d /\ s.key.epoch = k.epoch
      BY <3>5 DEF Sealed
    <3>7. PICK x \in Range(log[f]) : \E s \in x.seals : s.to = d /\ s.key.epoch = k.epoch
      BY <3>6
    <3>8. PICK s \in x.seals : s.to = d /\ s.key.epoch = k.epoch
      BY <3>7
    <3>9. f # d
      BY <3>8 DEF NotToSelf
    <3>10. PICK i \in 1..Len(log[f]) : x = log[f][i]
      <4>1. log[f] \in Seq(S) /\ DOMAIN log[f] = 1..Len(log[f])
        BY <3>1
      <4> QED
        BY <4>1 DEF Range
    <3>11. read[d][f] = Len(log[f])
      BY <2>1, <3>9 DEF Quiet
    <3>12. s.key \in keys[d]
      BY <2>1, <3>8, <3>9, <3>10, <3>11 DEF Absorbed
    <3> QED
      BY <3>8, <3>12
  <2> QED
    BY <2>2, <2>3
<1>2. HoleInv /\ [Next]_vars => HoleInv'
  BY StepHoleInv
<1>3. HoleInv => NoPermanentHole
  BY <1>1
<1> QED
  BY InitHoleInv, <1>2, <1>3, PTL DEF Spec

-----------------------------------------------------------------------------
(***************************************************************************)
(* No renewal of the credential is swallowed, whatever the number of       *)
(* renewals and faults.                                                    *)
(*                                                                         *)
(* NothingSwallowed is about a session that is live or closed for good.    *)
(* What makes it true is decided earlier, between the read of the token    *)
(* and the handshake, and has to be carried through the whole dial: an     *)
(* attempt with nothing unseen carries the token of now, a change that was *)
(* consumed and not yet reported is the marked one, and a queued refresh   *)
(* is the token of now unless there is a newer change to look at.          *)
(***************************************************************************)
Phase == {"read", "mark", "dial", "live", "renewing", "stopped", "done"}

CredentialTypeOK ==
    /\ ver \in Version /\ pending \in BOOLEAN /\ phase \in Phase
    /\ carried \in Version /\ consumed \in Version /\ reported \in Version
    /\ marked \in Version \cup {None} /\ queue \in Version \cup {None}

\* What the watch has not handed out is pending.
NothingUnseen == ~pending => consumed = ver

\* The attempt, once marked, carries the credential of now.
AttemptIsCurrent == phase = "dial" /\ ~pending => carried = ver

\* marked_at_connect is taken by the handshake, and names the last change.
MarkedIsConsumed ==
    /\ marked # None => marked = consumed
    /\ phase \in {"live", "renewing", "stopped"} => marked = None

\* A refresh is queued by a live session, with the credential it was for.
QueuedIsCurrent ==
    queue # None => phase = "live" /\ (pending \/ queue = ver)

\* The relay has seen it, or it is a sign-out.
ShownOrCleared ==
    (phase \in {"live", "stopped"} /\ ~pending /\ queue = None /\ neg)
        => presented = ver \/ ver \in cleared

\* A change nobody has reported is marked for the handshake to report,
\* about to be reported by the renewal arm, or a sign-out.
ReportedOrMarked ==
    (phase \notin {"renewing", "done"} /\ ~pending /\ marked = None)
        => consumed = reported \/ ver \in cleared

CredentialInv ==
    /\ CredentialTypeOK
    /\ NothingUnseen
    /\ AttemptIsCurrent
    /\ MarkedIsConsumed
    /\ QueuedIsCurrent
    /\ ShownOrCleared
    /\ ReportedOrMarked

-----------------------------------------------------------------------------
(* None is no version. *)

LEMMA NoneIsNoVersion == None \notin Version /\ Version \subseteq Nat
  BY CredentialAssumption DEF None, Version

-----------------------------------------------------------------------------
(***************************************************************************)
(* The watch starts with nothing unseen, and the driver with nothing       *)
(* marked, queued or shown.                                                *)
(***************************************************************************)
LEMMA InitCredential == CredentialInit => CredentialInv
  <1> SUFFICES ASSUME CredentialInit PROVE CredentialInv
    OBVIOUS
  <1>1. 0 \in Version
    BY CredentialAssumption DEF Version
  <1>2. CredentialTypeOK
    BY <1>1 DEF CredentialInit, CredentialTypeOK, Phase
  <1>3. /\ NothingUnseen /\ AttemptIsCurrent /\ MarkedIsConsumed
        /\ QueuedIsCurrent /\ ShownOrCleared /\ ReportedOrMarked
    BY DEF CredentialInit, NothingUnseen, AttemptIsCurrent, MarkedIsConsumed,
           QueuedIsCurrent, ShownOrCleared, ReportedOrMarked
  <1> QED
    BY <1>2, <1>3 DEF CredentialInv

(***************************************************************************)
(* Every step of the app, the driver and the relay keeps it.               *)
(***************************************************************************)
LEMMA NextCredential == CredentialInv /\ [CredentialNext]_credentialVars => CredentialInv'
  <1> SUFFICES ASSUME CredentialInv, [CredentialNext]_credentialVars
               PROVE  CredentialInv'
    OBVIOUS
  <1> USE NoneIsNoVersion
      DEF CredentialInv, CredentialTypeOK, Phase, NothingUnseen,
          AttemptIsCurrent, MarkedIsConsumed, QueuedIsCurrent, ShownOrCleared,
          ReportedOrMarked
  <1>1. CASE Read
    BY <1>1 DEF Read, tokenVars, watchVars, relayVars
  <1>2. CASE Mark
    BY <1>2 DEF Mark, tokenVars, watchVars, relayVars
  <1>3. CASE HandshakeOk
    BY <1>3 DEF HandshakeOk, tokenVars, watchVars, relayVars, Authorised, Verifies
  <1>4. CASE HandshakeRefused
    BY <1>4 DEF HandshakeRefused, tokenVars, watchVars, relayVars, EndSession
  <1>5. CASE Renewed
    BY <1>5 DEF Renewed, tokenVars, watchVars, relayVars
  <1>6. CASE QueueRefresh
    BY <1>6 DEF QueueRefresh, tokenVars, watchVars, relayVars
  <1>7. CASE SendRefresh
    BY <1>7 DEF SendRefresh, tokenVars, watchVars, relayVars, EndSession
  <1>8. CASE RecvClosed
    BY <1>8 DEF RecvClosed, tokenVars, watchVars, relayVars, EndSession
  <1>9. CASE Unpark
    BY <1>9 DEF Unpark, tokenVars, watchVars, relayVars
  <1>10. CASE PostRefused
    BY <1>10 DEF PostRefused, tokenVars, watchVars, relayVars, EndSession
  <1>11. CASE LinkFails
    BY <1>11 DEF LinkFails, tokenVars, watchVars, relayVars, EndSession
  <1>12. CASE Shutdown
    BY <1>12 DEF Shutdown, tokenVars, watchVars, relayVars, EndSession
  <1>13. CASE Frame \/ Handed \/ Recheck \/ RecheckFails
    BY <1>13 DEF Frame, Handed, Recheck, RecheckFails, tokenVars, watchVars,
                 relayVars
  <1>14. CASE Collect
    BY <1>14 DEF Collect, tokenVars, watchVars, relayVars
  <1>15. ASSUME NEW clear \in BOOLEAN, Set(clear)
        PROVE  CredentialInv'
    BY <1>15, CredentialAssumption DEF Set, relayVars, Version
  <1>16. ASSUME NEW v \in Version, Expire(v)
        PROVE  CredentialInv'
    BY <1>16 DEF Expire, watchVars, relayVars
  <1>17. CASE Revoke
    BY <1>17 DEF Revoke, watchVars, relayVars
  <1>18. CASE UNCHANGED credentialVars
    BY <1>18 DEF credentialVars
  <1> QED
    BY <1>1, <1>2, <1>3, <1>4, <1>5, <1>6, <1>7, <1>8, <1>9, <1>10, <1>11,
       <1>12, <1>13, <1>14, <1>15, <1>16, <1>17, <1>18
       DEF CredentialNext, Driver

(***************************************************************************)
(* credential.rs and sync_driver.rs lose no renewal: a change is consumed  *)
(* only by what carries it to the relay, or by what keeps it to be         *)
(* reported by the session that does, however the app's writes fall        *)
(* between the read, the mark, the handshake, the refresh and the park.    *)
(***************************************************************************)
THEOREM NoRenewalIsSwallowed == CredentialSpec => []NothingSwallowed
  <1>1. CredentialInv => NothingSwallowed
    BY DEF CredentialInv, CredentialTypeOK, NothingUnseen, MarkedIsConsumed,
           ShownOrCleared, ReportedOrMarked, NothingSwallowed
  <1> QED
    BY <1>1, InitCredential, NextCredential, PTL DEF CredentialSpec
=============================================================================
