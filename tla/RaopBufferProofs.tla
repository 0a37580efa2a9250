-------------------------- MODULE RaopBufferProofs --------------------------
(***************************************************************************)
(* The jitter buffer's invariants for every ring length, every number of   *)
(* sequence numbers and every order of arrivals, flushes and dequeues.     *)
(***************************************************************************)
EXTENDS RaopBuffer, TLAPS, WellFoundedInduction

L == RAOP_BUFFER_LENGTH

(* Linear facts about the constants; 2^16 and 32 satisfy them.             *)
LEMMA ConstantFacts ==
  /\ SeqMod \in Nat \ {0} /\ L \in Nat \ {0}
  /\ HalfMod \in Nat /\ 2 * HalfMod = SeqMod /\ L < HalfMod
<1>1. SeqMod \in Nat \ {0} /\ SeqMod % 2 = 0
  BY SeqModAssumption
<1>2. L \in Nat \ {0} /\ 2 * L < SeqMod
  BY BufferAssumption DEF L
<1>3. HalfMod \in Nat /\ 2 * HalfMod = SeqMod
  BY <1>1, Z3 DEF HalfMod
<1>4. QED
  BY <1>1, <1>2, <1>3

(* Euclidean division, the only nonlinear facts the proofs use.            *)
LEMMA Division ==
  ASSUME NEW a \in Nat, NEW n \in Nat \ {0}
  PROVE  /\ a % n \in 0 .. n - 1
         /\ a \div n \in Nat
         /\ a = n * (a \div n) + (a % n)
BY Z3

LEMMA Multiples ==
  ASSUME NEW n \in Nat \ {0}, NEW p \in Int, NEW q \in Int, p > q
  PROVE  n * p >= n * q + n
<1>1. n * (p - q) >= n
  BY Z3
<1>2. n * (p - q) = n * p - n * q
  BY Z3
<1>3. QED
  <2>1. n * p \in Int /\ n * q \in Int
    OBVIOUS
  <2>2. QED
    BY <1>1, <1>2, <2>1

LEMMA SlotInRing ==
  ASSUME NEW s \in Seqnums
  PROVE  Slot(s) \in Slots
<1>1. s \in Nat
  BY ConstantFacts DEF Seqnums
<1>2. QED
  BY <1>1, ConstantFacts, Division DEF Slot, Slots, L

(* Two numbers that share a slot are at least a ring apart, both ways      *)
(* round, because the ring length divides the number of sequence numbers.  *)
LEMMA SlotsApart ==
  ASSUME NEW a \in Seqnums, NEW b \in Seqnums, a > b, Slot(a) = Slot(b)
  PROVE  a - b >= L /\ a - b <= SeqMod - L
<1> DEFINE qa == a \div L
           qb == b \div L
<1>1. a \in Nat /\ b \in Nat /\ a < SeqMod /\ L \in Nat \ {0}
  BY ConstantFacts DEF Seqnums
<1>2. PICK k \in 1 .. SeqMod : SeqMod = k * L
  BY BufferAssumption DEF L
<1>3. /\ qa \in Nat /\ qb \in Nat
      /\ a = L * qa + (a % L) /\ b = L * qb + (b % L)
      /\ a % L \in 0 .. L - 1 /\ b % L \in 0 .. L - 1
  BY <1>1, Division
<1>4. a % L = b % L
  BY DEF Slot, L
<1> HIDE DEF qa, qb
<1>5. k \in Int /\ L * k = SeqMod
  BY <1>1, <1>2, Z3
<1>6. L * qa \in Int /\ L * qb \in Int /\ L * k \in Int
  BY <1>1, <1>3, <1>5
<1>7. a - b = L * qa - L * qb
  BY <1>1, <1>3, <1>4, <1>6
<1>8. qa > qb
  <2>1. CASE qa = qb
    BY <2>1, <1>7, <1>6, <1>1
  <2>2. CASE qa < qb
    <3>1. L * qb >= L * qa + L
      BY <2>2, <1>1, <1>3, Multiples
    <3>2. QED
      BY <3>1, <1>1, <1>6, <1>7
  <2>3. QED
    BY <1>3, <2>1, <2>2
<1>9. a - b >= L
  <2>1. L * qa >= L * qb + L
    BY <1>1, <1>3, <1>8, Multiples
  <2>2. QED
    BY <2>1, <1>1, <1>6, <1>7
<1>10. k > qa
  <2>1. CASE k = qa
    BY <2>1, <1>1, <1>3, <1>5, <1>6
  <2>2. CASE qa > k
    <3>1. L * qa >= L * k + L
      BY <2>2, <1>1, <1>3, <1>5, Multiples
    <3>2. QED
      BY <3>1, <1>1, <1>3, <1>5, <1>6
  <2>3. QED
    BY <1>3, <1>5, <2>1, <2>2
<1>11. L * k >= L * qa + L
  BY <1>1, <1>3, <1>5, <1>10, Multiples
<1>12. L * qb >= 0
  BY <1>1, <1>3, Z3
<1>13. QED
  BY <1>1, <1>5, <1>6, <1>7, <1>9, <1>11, <1>12

(* So a slot tells apart the numbers of one window.                        *)
LEMMA SlotUnique ==
  ASSUME NEW a \in Seqnums, NEW b \in Seqnums, Slot(a) = Slot(b),
         seqnum_cmp(a, b) > -L, seqnum_cmp(a, b) < L
  PROVE  a = b
<1>1. a \in Int /\ b \in Int
  BY DEF Seqnums
<1>2. CASE a > b
  BY <1>1, <1>2, SlotsApart, ConstantFacts DEF seqnum_cmp, Seqnums
<1>3. CASE b > a
  BY <1>1, <1>3, SlotsApart, ConstantFacts DEF seqnum_cmp, Seqnums
<1>4. QED
  BY <1>1, <1>2, <1>3
-----------------------------------------------------------------------------
(* Not behind the window and no flush needed: the packet falls within a    *)
(* ring's length of first_seqnum.                                          *)
LEMMA AcceptedDistance ==
  ASSUME BufTypeOK, NEW seq \in Seqnums,
         seqnum_cmp(seq, first_seqnum) >= 0, ~Overruns(seq)
  PROVE  seqnum_cmp(seq, first_seqnum) \in 0 .. L - 1
BY ConstantFacts DEF BufTypeOK, Overruns, seqnum_cmp, Wrap, Seqnums, L

LEMMA FlushedFacts ==
  ASSUME BufTypeOK
  PROVE  /\ FlushedEntries \in [Slots -> Entry]
         /\ \A i \in Slots : /\ ~FlushedEntries[i].filled
                            /\ FlushedEntries[i].payload_data \notin Data
BY BufferAssumption DEF BufTypeOK, FlushedEntries, Cleared, Entry

LEMMA InitInv == BufInit => BufInv
<1> SUFFICES ASSUME BufInit PROVE BufInv
  OBVIOUS
<1>1. 0 \in Seqnums
  BY ConstantFacts DEF Seqnums
<1>2. NewEntry \in Entry /\ ~NewEntry.filled /\ NewEntry.payload_data \notin Data
  BY <1>1, BufferAssumption DEF NewEntry, Entry
<1>3. QED
  BY <1>1, <1>2 DEF BufInit, BufInv, BufTypeOK, RingMatchesWindow, LastIsHeld,
       UnfilledOwnsNothing

LEMMA FlushInv ==
  ASSUME BufInv, NEW next_seq \in Seqnums \cup {-1}, FlushBuffer(next_seq)
  PROVE  BufInv'
<1>1. BufTypeOK /\ next_seq \in Int
  BY DEF BufInv, Seqnums
<1>2. /\ entries' \in [Slots -> Entry]
      /\ \A i \in Slots : ~entries'[i].filled /\ entries'[i].payload_data \notin Data
  BY <1>1, FlushedFacts DEF FlushBuffer
<1>3. CASE next_seq < 0
  BY <1>1, <1>2, <1>3 DEF FlushBuffer, BufInv, BufTypeOK, RingMatchesWindow, LastIsHeld,
       UnfilledOwnsNothing
<1>4. CASE next_seq >= 0
  <2>1. next_seq \in Seqnums
    BY <1>4 DEF Seqnums
  <2>2. /\ first_seqnum' = next_seq /\ last_seqnum' = Wrap(next_seq - 1)
        /\ is_empty' = is_empty /\ out' = NULL
    BY <1>1, <1>4 DEF FlushBuffer, LastAfterFlush
  <2>3. last_seqnum' \in Seqnums /\ seqnum_cmp(last_seqnum', first_seqnum') = -1
    BY <2>1, <2>2, ConstantFacts DEF Wrap, Seqnums, seqnum_cmp
  <2>4. BufTypeOK'
    BY <1>1, <1>2, <2>1, <2>2, <2>3 DEF BufTypeOK
  <2>5. entry_count' = 0
    BY <2>3 DEF entry_count
  <2>6. QED
    BY <1>2, <2>4, <2>5, ConstantFacts DEF BufInv, RingMatchesWindow, LastIsHeld,
         UnfilledOwnsNothing, L
<1>5. QED
  BY <1>1, <1>3, <1>4

LEMMA RecreateInv == ASSUME BufInv, Recreate PROVE BufInv'
<1>1. 0 \in Seqnums
  BY ConstantFacts DEF Seqnums
<1>2. NewEntry \in Entry /\ ~NewEntry.filled /\ NewEntry.payload_data \notin Data
  BY <1>1, BufferAssumption DEF NewEntry, Entry
<1>3. QED
  BY <1>1, <1>2 DEF Recreate, BufInv, BufTypeOK, RingMatchesWindow, LastIsHeld,
       UnfilledOwnsNothing

(* The packet that opens the window, or moves it: it is alone in the ring. *)
LEMMA StoreAloneInv ==
  ASSUME BufInv, NEW seq \in Seqnums, NEW data \in Data, Store(seq, data),
         is_empty \/ Overruns(seq)
  PROVE  BufInv'
<1> DEFINE e == [filled |-> TRUE, seqnum |-> seq, payload_data |-> data]
<1>1. BufTypeOK /\ Slot(seq) \in Slots /\ e \in Entry
  BY SlotInRing DEF BufInv, Entry
<1>2. /\ EntriesFor(seq) \in [Slots -> Entry]
      /\ \A i \in Slots : /\ ~EntriesFor(seq)[i].filled
                         /\ EntriesFor(seq)[i].payload_data \notin Data
  BY <1>1, FlushedFacts DEF EntriesFor, BufInv, RingMatchesWindow, UnfilledOwnsNothing,
       BufTypeOK
<1>3. entries' = [EntriesFor(seq) EXCEPT ![Slot(seq)] = e]
  BY DEF Store
<1>4. first_seqnum' = seq /\ last_seqnum' = seq /\ ~is_empty' /\ out' = NULL
  BY ConstantFacts DEF Store, LastAfterFlush, seqnum_cmp, Wrap, Seqnums
<1>5. /\ entries' \in [Slots -> Entry]
      /\ entries'[Slot(seq)] = e
      /\ \A i \in Slots : i # Slot(seq) => entries'[i] = EntriesFor(seq)[i]
  BY <1>1, <1>2, <1>3
<1>6. BufTypeOK'
  BY <1>4, <1>5 DEF BufTypeOK, Store
<1>7. seqnum_cmp(seq, seq) = 0
  BY ConstantFacts DEF seqnum_cmp, Seqnums
<1>8. entry_count' = 1
  BY <1>4, <1>7 DEF entry_count
<1>9. RingMatchesWindow'
  <2>1. entry_count' \in 0 .. RAOP_BUFFER_LENGTH
    BY <1>8, ConstantFacts DEF L
  <2>2. ASSUME NEW i \in Slots, entries'[i].filled
        PROVE  /\ Slot(entries'[i].seqnum) = i
               /\ seqnum_cmp(entries'[i].seqnum, first_seqnum') >= 0
               /\ seqnum_cmp(last_seqnum', entries'[i].seqnum) >= 0
               /\ entries'[i].payload_data \in Data
    <3>1. i = Slot(seq) /\ entries'[i] = e
      BY <1>2, <1>5, <2>2
    <3>2. QED
      BY <1>4, <1>7, <3>1
  <2>3. QED
    BY <1>4, <2>1, <2>2 DEF RingMatchesWindow, InWindow
<1>10. LastIsHeld'
  BY <1>4, <1>5 DEF LastIsHeld, HeldAt
<1>11. UnfilledOwnsNothing'
  BY <1>2, <1>5 DEF UnfilledOwnsNothing
<1>12. QED
  BY <1>6, <1>9, <1>10, <1>11 DEF BufInv

(* A packet that joins the window: nothing moves but possibly last_seqnum. *)
LEMMA StoreInWindowInv ==
  ASSUME BufInv, NEW seq \in Seqnums, NEW data \in Data, Store(seq, data),
         ~is_empty, ~Overruns(seq)
  PROVE  BufInv'
<1> DEFINE e == [filled |-> TRUE, seqnum |-> seq, payload_data |-> data]
<1>1. BufTypeOK /\ Slot(seq) \in Slots /\ e \in Entry
  BY SlotInRing DEF BufInv, Entry
<1>2. entries' = [entries EXCEPT ![Slot(seq)] = e]
  BY DEF Store, EntriesFor
<1>3. /\ first_seqnum' = first_seqnum /\ ~is_empty' /\ is_empty' \in BOOLEAN /\ out' = NULL
      /\ last_seqnum' = IF seqnum_cmp(seq, last_seqnum) > 0 THEN seq ELSE last_seqnum
  BY DEF Store
<1>4. /\ entries' \in [Slots -> Entry]
      /\ entries'[Slot(seq)] = e
      /\ \A i \in Slots : i # Slot(seq) => entries'[i] = entries[i]
  BY <1>1, <1>2 DEF BufTypeOK
<1>5. BufTypeOK'
  BY <1>1, <1>3, <1>4 DEF BufTypeOK
<1>6. seqnum_cmp(seq, first_seqnum) \in 0 .. L - 1
  <2>1. seqnum_cmp(seq, first_seqnum) >= 0
    BY <1>1, ConstantFacts DEF Store, Accepts, TooLate, seqnum_cmp, BufTypeOK, Seqnums
  <2>2. QED
    BY <1>1, <2>1, AcceptedDistance
<1>7. seqnum_cmp(last_seqnum, first_seqnum) \in -1 .. L - 1
  BY <1>1, ConstantFacts DEF BufInv, RingMatchesWindow, entry_count, L, BufTypeOK,
       seqnum_cmp, Seqnums
<1>8. /\ seqnum_cmp(last_seqnum', first_seqnum) \in 0 .. L - 1
      /\ seqnum_cmp(last_seqnum', seq) >= 0
      /\ \A s \in Seqnums : InWindow(s) => seqnum_cmp(last_seqnum', s) >= 0
  BY <1>1, <1>3, <1>6, <1>7, ConstantFacts
     DEF seqnum_cmp, BufTypeOK, Seqnums, InWindow
<1>9. RingMatchesWindow'
  <2>1. entry_count' \in 0 .. RAOP_BUFFER_LENGTH
    BY <1>3, <1>8, ConstantFacts DEF L, entry_count
  <2>2. ASSUME NEW i \in Slots, entries'[i].filled
        PROVE  /\ Slot(entries'[i].seqnum) = i
               /\ seqnum_cmp(entries'[i].seqnum, first_seqnum') >= 0
               /\ seqnum_cmp(last_seqnum', entries'[i].seqnum) >= 0
               /\ entries'[i].payload_data \in Data
    <3>1. CASE i = Slot(seq)
      BY <1>3, <1>4, <1>6, <1>8, <3>1
    <3>2. CASE i # Slot(seq)
      <4>1. entries'[i] = entries[i]
        BY <1>4, <3>2
      <4>2. /\ Slot(entries[i].seqnum) = i /\ InWindow(entries[i].seqnum)
            /\ entries[i].payload_data \in Data /\ entries[i].seqnum \in Seqnums
        BY <1>1, <2>2, <4>1 DEF BufInv, RingMatchesWindow, BufTypeOK, Entry
      <4>3. QED
        BY <1>3, <1>8, <4>1, <4>2 DEF InWindow
    <3>3. QED
      BY <3>1, <3>2
  <2>3. QED
    BY <1>3, <2>1, <2>2 DEF RingMatchesWindow, InWindow
<1>10. LastIsHeld'
  <2>1. CASE seqnum_cmp(seq, last_seqnum) > 0
    BY <1>3, <1>4, <2>1 DEF LastIsHeld, HeldAt
  <2>2. CASE ~(seqnum_cmp(seq, last_seqnum) > 0)
    <3>1. last_seqnum' = last_seqnum
      BY <1>3, <2>2
    <3>2. entry_count > 0
      BY <1>1, <1>6, <1>7, <2>2, ConstantFacts
         DEF entry_count, seqnum_cmp, BufTypeOK, Seqnums
    <3>3. HeldAt(last_seqnum)
      BY <3>2 DEF BufInv, LastIsHeld
    <3>4. CASE Slot(last_seqnum) = Slot(seq)
      <4>1. last_seqnum = seq
        <5>1. /\ seqnum_cmp(last_seqnum, seq) > -L
              /\ seqnum_cmp(last_seqnum, seq) < L
          BY <1>1, <1>6, <1>7, <2>2, ConstantFacts DEF seqnum_cmp, BufTypeOK, Seqnums
        <5>2. QED
          BY <1>1, <3>4, <5>1, SlotUnique DEF BufTypeOK
      <4>2. QED
        BY <1>4, <3>1, <4>1 DEF LastIsHeld, HeldAt
    <3>5. CASE Slot(last_seqnum) # Slot(seq)
      <4>1. Slot(last_seqnum) \in Slots
        BY <1>1, SlotInRing DEF BufTypeOK
      <4>2. QED
        BY <1>4, <3>1, <3>3, <3>5, <4>1 DEF LastIsHeld, HeldAt
    <3>6. QED
      BY <3>4, <3>5
  <2>3. QED
    BY <2>1, <2>2
<1>11. UnfilledOwnsNothing'
  BY <1>4 DEF UnfilledOwnsNothing, BufInv
<1>12. QED
  BY <1>5, <1>9, <1>10, <1>11 DEF BufInv

(* The window moves past a packet that is not there.                       *)
LEMMA SkipInv ==
  ASSUME BufInv, NEW no_resend \in BOOLEAN, SkipFirst(no_resend)
  PROVE  BufInv'
<1>1. BufTypeOK /\ ~is_empty /\ seqnum_cmp(last_seqnum, first_seqnum) \in 0 .. L - 1
  BY ConstantFacts DEF BufInv, SkipFirst, MustWait, RingMatchesWindow, entry_count, L,
       BufTypeOK, seqnum_cmp, Seqnums
<1>2. /\ first_seqnum' = Wrap(first_seqnum + 1) /\ out' = NULL
      /\ UNCHANGED <<is_empty, last_seqnum, entries>>
  BY DEF SkipFirst
<1>3. first_seqnum' \in Seqnums
  BY <1>1, <1>2, ConstantFacts DEF Wrap, Seqnums, BufTypeOK
<1>4. seqnum_cmp(last_seqnum, first_seqnum') \in -1 .. L - 2
  BY <1>1, <1>2, ConstantFacts DEF Wrap, Seqnums, BufTypeOK, seqnum_cmp
<1>5. BufTypeOK'
  BY <1>1, <1>2, <1>3 DEF BufTypeOK
<1>6. RingMatchesWindow'
  <2>1. entry_count' \in 0 .. RAOP_BUFFER_LENGTH
    BY <1>2, <1>4, ConstantFacts DEF L, entry_count
  <2>2. ASSUME NEW i \in Slots, entries[i].filled
        PROVE  /\ Slot(entries[i].seqnum) = i /\ entries[i].payload_data \in Data
               /\ seqnum_cmp(entries[i].seqnum, first_seqnum') >= 0
               /\ seqnum_cmp(last_seqnum, entries[i].seqnum) >= 0
    <3>1. /\ Slot(entries[i].seqnum) = i /\ entries[i].payload_data \in Data
          /\ entries[i].seqnum \in Seqnums
          /\ seqnum_cmp(entries[i].seqnum, first_seqnum) >= 0
          /\ seqnum_cmp(last_seqnum, entries[i].seqnum) >= 0
      BY <1>1, <2>2 DEF BufInv, RingMatchesWindow, BufTypeOK, Entry, InWindow
    <3>2. entries[i].seqnum # first_seqnum
      BY <2>2, <3>1 DEF SkipFirst, First
    <3>3. QED
      BY <1>1, <1>2, <3>1, <3>2, ConstantFacts DEF Wrap, Seqnums, BufTypeOK, seqnum_cmp
  <2>3. QED
    BY <1>1, <1>2, <2>1, <2>2 DEF RingMatchesWindow, InWindow
<1>7. LastIsHeld'
  BY <1>1, <1>2, ConstantFacts DEF BufInv, LastIsHeld, HeldAt, entry_count
<1>8. UnfilledOwnsNothing'
  BY <1>2 DEF BufInv, UnfilledOwnsNothing
<1>9. QED
  BY <1>5, <1>6, <1>7, <1>8 DEF BufInv

(* The first packet of the window is handed to the player.                 *)
LEMMA TakeInv ==
  ASSUME BufInv, NEW no_resend \in BOOLEAN, TakeFirst(no_resend)
  PROVE  BufInv'
<1> DEFINE f == Slot(first_seqnum)
<1>1. /\ BufTypeOK /\ ~is_empty /\ f \in Slots /\ entries[f].filled
      /\ seqnum_cmp(last_seqnum, first_seqnum) \in 0 .. L - 1
  BY SlotInRing, ConstantFacts DEF BufInv, TakeFirst, MustWait, RingMatchesWindow, First,
       entry_count, L, BufTypeOK, seqnum_cmp, Seqnums
<1>2. /\ first_seqnum' = Wrap(first_seqnum + 1) /\ out' = entries[f].payload_data
      /\ UNCHANGED <<is_empty, last_seqnum>>
      /\ entries' = [entries EXCEPT ![f].filled = FALSE, ![f].payload_data = NULL]
  BY DEF TakeFirst, First
<1>3. first_seqnum' \in Seqnums
  BY <1>1, <1>2, ConstantFacts DEF Wrap, Seqnums, BufTypeOK
<1>4. seqnum_cmp(last_seqnum, first_seqnum') \in -1 .. L - 2
  BY <1>1, <1>2, ConstantFacts DEF Wrap, Seqnums, BufTypeOK, seqnum_cmp
<1>5. /\ entries' \in [Slots -> Entry]
      /\ ~entries'[f].filled /\ entries'[f].payload_data = NULL
      /\ \A i \in Slots : i # f => entries'[i] = entries[i]
  BY <1>1, <1>2 DEF BufTypeOK, Entry
<1>6. entries[f].payload_data \in Data
  BY <1>1 DEF BufInv, RingMatchesWindow
<1>7. BufTypeOK'
  BY <1>1, <1>2, <1>3, <1>5, <1>6 DEF BufTypeOK
<1>8. ASSUME NEW i \in Slots, entries'[i].filled
      PROVE  /\ Slot(entries'[i].seqnum) = i /\ entries'[i].payload_data \in Data
             /\ seqnum_cmp(entries'[i].seqnum, first_seqnum') >= 0
             /\ seqnum_cmp(last_seqnum, entries'[i].seqnum) >= 0
  <2>1. i # f /\ entries'[i] = entries[i]
    BY <1>5, <1>8
  <2>2. /\ Slot(entries[i].seqnum) = i /\ entries[i].payload_data \in Data
        /\ entries[i].seqnum \in Seqnums
        /\ seqnum_cmp(entries[i].seqnum, first_seqnum) >= 0
        /\ seqnum_cmp(last_seqnum, entries[i].seqnum) >= 0
    BY <1>1, <1>8, <2>1 DEF BufInv, RingMatchesWindow, BufTypeOK, Entry, InWindow
  <2>3. entries[i].seqnum # first_seqnum
    BY <2>1, <2>2
  <2>4. seqnum_cmp(entries[i].seqnum, first_seqnum') >= 0
    BY <1>1, <1>2, <2>2, <2>3, ConstantFacts DEF Wrap, Seqnums, BufTypeOK, seqnum_cmp
  <2>5. QED
    BY <2>1, <2>2, <2>4
<1>9. RingMatchesWindow'
  <2>1. entry_count' \in 0 .. RAOP_BUFFER_LENGTH
    BY <1>2, <1>4, ConstantFacts DEF L, entry_count
  <2>2. QED
    BY <1>1, <1>2, <1>8, <2>1 DEF RingMatchesWindow, InWindow
<1>10. LastIsHeld'
  <2>1. SUFFICES ASSUME entry_count' > 0
                 PROVE  HeldAt(last_seqnum)'
    BY DEF LastIsHeld
  <2>2. seqnum_cmp(last_seqnum, first_seqnum) \in 1 .. L - 1
    BY <1>1, <1>2, <2>1, ConstantFacts DEF entry_count, Wrap, Seqnums, BufTypeOK, seqnum_cmp
  <2>3. HeldAt(last_seqnum)
    BY <1>1, <2>2, ConstantFacts DEF BufInv, LastIsHeld, entry_count
  <2>4. last_seqnum # first_seqnum
    BY <1>1, <2>2, ConstantFacts DEF seqnum_cmp, BufTypeOK, Seqnums
  <2>5. seqnum_cmp(last_seqnum, first_seqnum) > -L /\ seqnum_cmp(last_seqnum, first_seqnum) < L
    BY <1>1, ConstantFacts
  <2>6. Slot(last_seqnum) # f /\ Slot(last_seqnum) \in Slots
    BY <1>1, <2>4, <2>5, SlotUnique, SlotInRing DEF BufTypeOK
  <2>7. QED
    BY <1>2, <1>5, <2>3, <2>6 DEF HeldAt
<1>11. UnfilledOwnsNothing'
  BY <1>5, BufferAssumption DEF BufInv, UnfilledOwnsNothing
<1>12. QED
  BY <1>7, <1>9, <1>10, <1>11 DEF BufInv

LEMMA UnchangedInv ==
  ASSUME BufInv, UNCHANGED <<is_empty, first_seqnum, last_seqnum, entries>>,
         out' \in Data \cup {NULL}
  PROVE  BufInv'
BY DEF BufInv, BufTypeOK, RingMatchesWindow, LastIsHeld, UnfilledOwnsNothing, InWindow,
     HeldAt, entry_count

(* Every call of the buffer's interface keeps the invariant.               *)
LEMMA StepInv == BufInv /\ [BufNext]_bufvars => BufInv'
<1> SUFFICES ASSUME BufInv, [BufNext]_bufvars
             PROVE  BufInv'
  OBVIOUS
<1>1. ASSUME NEW seq \in Seqnums, NEW data \in Data, Enqueue(seq, data)
      PROVE  BufInv'
  <2>1. CASE Ignore(seq)
    BY <2>1, UnchangedInv DEF Ignore
  <2>2. CASE Store(seq, data)
    BY <2>2, StoreAloneInv, StoreInWindowInv
  <2>3. QED
    BY <1>1, <2>1, <2>2 DEF Enqueue
<1>2. ASSUME NEW no_resend \in BOOLEAN, Dequeue(no_resend)
      PROVE  BufInv'
  <2>1. CASE DequeueNothing(no_resend)
    BY <2>1, UnchangedInv DEF DequeueNothing
  <2>2. QED
    BY <1>2, <2>1, SkipInv, TakeInv DEF Dequeue
<1>3. ASSUME NEW next_seq \in Seqnums \cup {-1}, FlushBuffer(next_seq)
      PROVE  BufInv'
  BY <1>3, FlushInv
<1>4. CASE UNCHANGED bufvars
  BY <1>4, UnchangedInv DEF bufvars, BufInv, BufTypeOK
<1>5. QED
  BY <1>1, <1>2, <1>3, <1>4, RecreateInv DEF BufNext
-----------------------------------------------------------------------------
(* The invariant holds in every reachable state of the buffer.             *)
THEOREM BufferInvariant == BufSpec => []BufInv
<1>1. QED
  BY InitInv, StepInv, PTL DEF BufSpec

(* Every field keeps its range: no call writes outside the ring, and a     *)
(* sequence number that wraps stays an unsigned short.                     *)
THEOREM BufferTypeCorrect == BufSpec => []BufTypeOK
<1>1. BufInv => BufTypeOK
  BY DEF BufInv
<1>2. QED
  BY <1>1, BufferInvariant, PTL

(* Each filled slot holds the live payload of the packet its place stands  *)
(* for, and the window never outgrows the ring.                            *)
THEOREM RingAlwaysMatchesWindow == BufSpec => []RingMatchesWindow
<1>1. BufInv => RingMatchesWindow
  BY DEF BufInv
<1>2. QED
  BY <1>1, BufferInvariant, PTL

(* The end of a window that is not used up is always held.                 *)
THEOREM LastAlwaysHeld == BufSpec => []LastIsHeld
<1>1. BufInv => LastIsHeld
  BY DEF BufInv
<1>2. QED
  BY <1>1, BufferInvariant, PTL

(* No packet raop_buffer_enqueue accepts overwrites a live payload: what   *)
(* the late check and the duplicate check buy, by SlotUnique.              *)
LEMMA RingLosesNothing == BufInv => NoPayloadLost
<1> SUFFICES ASSUME BufInv, NEW seq \in Seqnums, Accepts(seq),
                    EntriesFor(seq)[Slot(seq)].payload_data \in Data
             PROVE  FALSE
  BY DEF NoPayloadLost, BufInv
<1>1. BufTypeOK /\ Slot(seq) \in Slots
  BY SlotInRing DEF BufInv
<1>2. ~Overruns(seq)
  BY <1>1, FlushedFacts DEF EntriesFor
<1> DEFINE e == entries[Slot(seq)]
<1>3. e.payload_data \in Data /\ e.filled
  BY <1>1, <1>2 DEF EntriesFor, BufInv, UnfilledOwnsNothing
<1>4. ~is_empty /\ Slot(e.seqnum) = Slot(seq) /\ InWindow(e.seqnum) /\ e.seqnum \in Seqnums
  BY <1>1, <1>3 DEF BufInv, RingMatchesWindow, BufTypeOK, Entry
<1>5. seqnum_cmp(seq, first_seqnum) \in 0 .. L - 1
  <2>1. seqnum_cmp(seq, first_seqnum) >= 0
    BY <1>1, <1>4, ConstantFacts DEF Accepts, TooLate, seqnum_cmp, BufTypeOK, Seqnums
  <2>2. QED
    BY <1>1, <1>2, <2>1, AcceptedDistance
<1>6. seqnum_cmp(last_seqnum, first_seqnum) \in -1 .. L - 1
  BY <1>1, <1>4, ConstantFacts DEF BufInv, RingMatchesWindow, entry_count, L, BufTypeOK,
       seqnum_cmp, Seqnums
<1> HIDE DEF e
<1>7. seqnum_cmp(e.seqnum, seq) > -L /\ seqnum_cmp(e.seqnum, seq) < L
  BY <1>1, <1>4, <1>5, <1>6, ConstantFacts
     DEF InWindow, seqnum_cmp, BufTypeOK, Seqnums
<1>8. e.seqnum = seq
  BY <1>4, <1>7, SlotUnique
<1>9. QED
  BY <1>2, <1>3, <1>8 DEF e, Accepts, Duplicate, EntriesFor

(* No packet that enqueue accepts, of any number, lands on a slot that     *)
(* still owns a payload, which enqueue would overwrite without freeing.    *)
THEOREM NeverLosesPayload == BufSpec => []NoPayloadLost
<1>1. QED
  BY RingLosesNothing, BufferInvariant, PTL
-----------------------------------------------------------------------------
(* The least-number principle, from the well-foundedness of < on Nat.      *)
LEMMA NatOrder ==
  \E R : /\ IsWellFoundedOn(R, Nat)
         /\ \A x \in Nat : \A y \in Nat : y < x => <<y, x>> \in R
<1>1. IsWellFoundedOn(OpToRel(<, Nat), Nat)
  BY NatLessThanWellFounded, Zenon
<1>2. \A x \in Nat : \A y \in Nat : y < x => <<y, x>> \in OpToRel(<, Nat)
  BY Zenon DEF OpToRel
<1>3. QED
  BY <1>1, <1>2, Zenon

LEMMA LeastNat ==
  ASSUME NEW T \in SUBSET Nat, T # {}
  PROVE  \E x \in T : \A y \in T : x <= y
<1>1. PICK R : /\ IsWellFoundedOn(R, Nat)
               /\ \A x \in Nat : \A y \in Nat : y < x => <<y, x>> \in R
  BY NatOrder, Zenon
<1>2. \E x \in T : \A y \in T : ~ (<<y, x>> \in R)
  BY <1>1, WFMin, Zenon
<1>3. \E x \in T : \A y \in T : ~ (y < x)
  BY <1>1, <1>2
<1>4. QED
  BY <1>3

(* A slot in use holds the number the window has for that slot.            *)
LEMMA FilledIsHeld ==
  ASSUME BufInv, NEW k \in 0 .. L - 1, entries[Slot(At(k))].filled
  PROVE  HeldAt(At(k))
<1> DEFINE s == At(k)
           e == entries[Slot(s)]
<1>1. BufTypeOK
  BY DEF BufInv
<1>2. s \in Seqnums /\ seqnum_cmp(s, first_seqnum) = k
  BY <1>1, ConstantFacts DEF At, Wrap, Seqnums, BufTypeOK, seqnum_cmp
<1>3. Slot(s) \in Slots
  BY <1>2, SlotInRing
<1> HIDE DEF s
<1>4. ~is_empty /\ Slot(e.seqnum) = Slot(s) /\ InWindow(e.seqnum) /\ e.seqnum \in Seqnums
  BY <1>1, <1>3 DEF s, BufInv, RingMatchesWindow, BufTypeOK, Entry
<1>5. seqnum_cmp(last_seqnum, first_seqnum) \in -1 .. L - 1
  BY <1>1, <1>4, ConstantFacts DEF BufInv, RingMatchesWindow, entry_count, L, BufTypeOK,
       seqnum_cmp, Seqnums
<1> HIDE DEF e
<1>6. seqnum_cmp(e.seqnum, s) > -L /\ seqnum_cmp(e.seqnum, s) < L
  BY <1>1, <1>2, <1>4, <1>5, ConstantFacts DEF InWindow, seqnum_cmp, BufTypeOK, Seqnums
<1>7. e.seqnum = s
  BY <1>2, <1>4, <1>6, SlotUnique
<1>8. QED
  BY <1>7 DEF HeldAt, e, s

(* handle_resends stops at the first packet of the window that is held.    *)
LEMMA ResendCountIsFirstHeld ==
  ASSUME BufInv, ~is_empty, seqnum_cmp(last_seqnum, first_seqnum) > 0
  PROVE  /\ ResendCount \in Offsets
         /\ entries[Slot(At(ResendCount))].filled \/ At(ResendCount) = last_seqnum
         /\ \A j \in 0 .. ResendCount - 1 : ~entries[Slot(At(j))].filled
<1> DEFINE D == seqnum_cmp(last_seqnum, first_seqnum)
           Stops(k) == entries[Slot(At(k))].filled \/ At(k) = last_seqnum
           Missing(k) == \A j \in 0 .. k - 1 : ~entries[Slot(At(j))].filled
           T == {k \in Offsets : Stops(k)}
<1>1. BufTypeOK
  BY DEF BufInv
<1>2. /\ D \in Nat /\ Offsets = 0 .. D /\ At(D) = last_seqnum
      /\ ~(seqnum_cmp(first_seqnum, last_seqnum) >= 0)
  BY <1>1, ConstantFacts DEF Offsets, At, Wrap, Seqnums, BufTypeOK, seqnum_cmp
<1> HIDE DEF D
<1>3. T \in SUBSET Nat /\ D \in T
  BY <1>2
<1>4. PICK m \in T : \A y \in T : m <= y
  BY <1>3, LeastNat
<1>5. m \in Offsets /\ Stops(m) /\ Missing(m)
  <2>1. ASSUME NEW j \in 0 .. m - 1 PROVE j \in Offsets /\ j \notin T
    BY <1>2, <1>4
  <2>2. QED
    BY <1>4, <2>1
<1>6. ResendCount = CHOOSE k \in Offsets : Stops(k) /\ Missing(k)
  BY <1>2, Zenon DEF ResendCount
<1>7. ResendCount \in Offsets /\ Stops(ResendCount) /\ Missing(ResendCount)
  <2> HIDE DEF Stops, Missing
  <2>1. QED
    BY <1>5, <1>6, Zenon
<1>8. QED
  BY <1>7

(* A resend request covers exactly the run of missing packets at the front *)
(* of the window, for every ring: none of them is held, the next one is.   *)
THEOREM ResendsAskWhatIsMissing == BufSpec => []ResendAsksWhatIsMissing
<1>1. BufInv => ResendAsksWhatIsMissing
  <2> SUFFICES ASSUME BufInv, ~is_empty, entry_count > 0
               PROVE  /\ \A k \in 0 .. ResendCount - 1 : ~HeldAt(At(k))
                      /\ HeldAt(At(ResendCount))
    BY DEF ResendAsksWhatIsMissing
  <2>1. BufTypeOK /\ seqnum_cmp(last_seqnum, first_seqnum) \in 0 .. L - 1
    BY ConstantFacts DEF BufInv, RingMatchesWindow, entry_count, L, BufTypeOK, seqnum_cmp,
         Seqnums
  <2>2. HeldAt(last_seqnum)
    BY DEF BufInv, LastIsHeld
  <2>3. CASE seqnum_cmp(last_seqnum, first_seqnum) = 0
    <3>1. seqnum_cmp(first_seqnum, last_seqnum) >= 0 /\ At(0) = last_seqnum
      BY <2>1, <2>3, ConstantFacts DEF At, Wrap, Seqnums, BufTypeOK, seqnum_cmp
    <3>2. ResendCount = 0
      BY <3>1, Zenon DEF ResendCount
    <3>3. QED
      BY <2>2, <3>1, <3>2
  <2>4. CASE seqnum_cmp(last_seqnum, first_seqnum) > 0
    <3>1. /\ ResendCount \in Offsets
          /\ entries[Slot(At(ResendCount))].filled \/ At(ResendCount) = last_seqnum
          /\ \A j \in 0 .. ResendCount - 1 : ~entries[Slot(At(j))].filled
      BY <2>4, ResendCountIsFirstHeld
    <3>2. ResendCount \in 0 .. L - 1
      BY <2>1, <3>1, ConstantFacts DEF Offsets
    <3>3. HeldAt(At(ResendCount))
      BY <2>2, <3>1, <3>2, FilledIsHeld
    <3>4. ASSUME NEW k \in 0 .. ResendCount - 1 PROVE ~HeldAt(At(k))
      BY <3>1 DEF HeldAt
    <3>5. QED
      BY <3>3, <3>4
  <2>5. QED
    BY <2>1, <2>3, <2>4
<1>2. QED
  BY <1>1, BufferInvariant, PTL
-----------------------------------------------------------------------------
(* The ring and the abstract window: the window holds packet s exactly     *)
(* when slot s of the ring does.                                           *)
Holds(ring, s) == ring[Slot(s)].filled /\ ring[Slot(s)].seqnum = s
Placed(ring) ==
  /\ ring \in [Slots -> Entry]
  /\ \A i \in Slots : ring[i].filled => Slot(ring[i].seqnum) = i

LEMMA NumbersAreHeld ==
  ASSUME NEW ring, Placed(ring)
  PROVE  Numbers(ring) = {s \in Seqnums : Holds(ring, s)}
<1>1. ASSUME NEW s \in Numbers(ring) PROVE s \in Seqnums /\ Holds(ring, s)
  <2>1. PICK i \in Slots : ring[i].filled /\ s = ring[i].seqnum
    BY DEF Numbers
  <2>2. s \in Seqnums /\ Slot(s) = i
    BY <2>1 DEF Placed, Entry
  <2>3. QED
    BY <2>1, <2>2 DEF Holds
<1>2. ASSUME NEW s \in Seqnums, Holds(ring, s) PROVE s \in Numbers(ring)
  <2>1. Slot(s) \in Slots
    BY SlotInRing
  <2>2. QED
    BY <1>2, <2>1 DEF Holds, Numbers
<1>3. QED
  BY <1>1, <1>2

(* With every slot empty the window holds nothing.                         *)
LEMMA NothingHeld ==
  ASSUME NEW ring, \A i \in Slots : ~ring[i].filled
  PROVE  HeldPackets(ring) = [s \in {} |-> NULL]
<1>1. Numbers(ring) = {}
  BY DEF Numbers
<1>2. QED
  BY <1>1 DEF HeldPackets

OneMore(ring, seq, data) ==
  [s \in Numbers(ring) \cup {seq} |-> IF s = seq THEN data ELSE HeldPackets(ring)[s]]

(* A packet put into a slot that was not in use joins what is held.        *)
LEMMA StoreHoldsOneMore ==
  ASSUME NEW old, Placed(old), NEW new, Placed(new), NEW seq \in Seqnums, NEW data \in Data,
         ~old[Slot(seq)].filled,
         new = [old EXCEPT ![Slot(seq)] =
                  [filled |-> TRUE, seqnum |-> seq, payload_data |-> data]]
  PROVE  HeldPackets(new) = OneMore(old, seq, data)
<1>1. Slot(seq) \in Slots /\ old \in [Slots -> Entry]
  BY SlotInRing DEF Placed
<1>2. /\ Numbers(old) = {s \in Seqnums : Holds(old, s)}
      /\ Numbers(new) = {s \in Seqnums : Holds(new, s)}
  BY NumbersAreHeld
<1>3. ASSUME NEW s \in Seqnums PROVE Holds(new, s) <=> Holds(old, s) \/ s = seq
  <2>1. Slot(s) \in Slots
    BY SlotInRing
  <2>2. QED
    BY <1>1, <2>1 DEF Holds
<1>4. Numbers(new) = Numbers(old) \cup {seq}
  BY <1>2, <1>3
<1>5. ASSUME NEW s \in Numbers(new)
      PROVE  new[Slot(s)].payload_data = IF s = seq THEN data ELSE HeldPackets(old)[s]
  <2>1. s \in Seqnums /\ Slot(s) \in Slots
    BY <1>2, SlotInRing
  <2>2. CASE s = seq
    BY <1>1, <2>2
  <2>3. CASE s # seq
    <3>1. s \in Numbers(old) /\ Slot(s) # Slot(seq)
      BY <1>2, <1>4, <2>3 DEF Holds
    <3>2. QED
      BY <1>1, <2>1, <2>3, <3>1 DEF HeldPackets
  <2>4. QED
    BY <2>2, <2>3
<1>6. QED
  BY <1>4, <1>5 DEF HeldPackets, OneMore

(* A packet taken out of its slot leaves the others held.                  *)
LEMMA TakeHoldsOneLess ==
  ASSUME NEW old, Placed(old), NEW new, Placed(new), NEW seq \in Seqnums, Holds(old, seq),
         new = [old EXCEPT ![Slot(seq)].filled = FALSE, ![Slot(seq)].payload_data = NULL]
  PROVE  HeldPackets(new) = [s \in Numbers(old) \ {seq} |-> HeldPackets(old)[s]]
<1>1. Slot(seq) \in Slots /\ old \in [Slots -> Entry]
  BY SlotInRing DEF Placed
<1>2. /\ Numbers(old) = {s \in Seqnums : Holds(old, s)}
      /\ Numbers(new) = {s \in Seqnums : Holds(new, s)}
  BY NumbersAreHeld
<1>3. /\ ~new[Slot(seq)].filled
      /\ \A i \in Slots : i # Slot(seq) => new[i] = old[i]
  BY <1>1 DEF Entry
<1>4. ASSUME NEW s \in Seqnums PROVE Holds(new, s) <=> Holds(old, s) /\ s # seq
  <2>1. Slot(s) \in Slots
    BY SlotInRing
  <2>2. CASE Slot(s) = Slot(seq)
    BY <1>1, <1>3, <2>2 DEF Holds
  <2>3. CASE Slot(s) # Slot(seq)
    BY <1>3, <2>1, <2>3 DEF Holds
  <2>4. QED
    BY <2>2, <2>3
<1>5. Numbers(new) = Numbers(old) \ {seq}
  BY <1>2, <1>4
<1>6. ASSUME NEW s \in Numbers(new)
      PROVE  new[Slot(s)].payload_data = HeldPackets(old)[s]
  <2>1. s \in Numbers(old) /\ Slot(s) \in Slots /\ Holds(new, s)
    BY <1>2, <1>5, SlotInRing
  <2>2. Slot(s) # Slot(seq)
    BY <1>3, <2>1 DEF Holds
  <2>3. new[Slot(s)] = old[Slot(s)]
    BY <1>3, <2>1, <2>2
  <2>4. HeldPackets(old)[s] = old[Slot(s)].payload_data
    BY <2>1 DEF HeldPackets
  <2>5. QED
    BY <2>3, <2>4
<1>7. QED
  BY <1>5, <1>6 DEF HeldPackets

LEMMA RingIsPlaced == ASSUME BufInv PROVE Placed(entries)
BY DEF BufInv, BufTypeOK, RingMatchesWindow, Placed

(* The first slot of the window, when in use, holds the first number.      *)
LEMMA FirstIsHeld ==
  ASSUME BufInv, First.filled
  PROVE  Holds(entries, first_seqnum)
<1>1. At(0) = first_seqnum
  BY ConstantFacts DEF BufInv, BufTypeOK, At, Wrap, Seqnums
<1>2. QED
  BY <1>1, FilledIsHeld, ConstantFacts DEF First, HeldAt, Holds
-----------------------------------------------------------------------------
LEMMA SameSeqnums == Window!Seqnums = Seqnums
BY DEF Window!Seqnums, Seqnums

(* The operations of the ring are those of the window.                     *)
LEMMA DiscardRefines ==
  ASSUME BufInv, BufInv', \A i \in Slots : ~entries'[i].filled, out' = NULL,
         is_empty' \in {is_empty, TRUE}
  PROVE  Window!Discard
<1>1. HeldPackets(entries') = [s \in {} |-> NULL]
  BY NothingHeld
<1>2. first_seqnum' \in Seqnums
  BY DEF BufInv, BufTypeOK
<1>3. (~is_empty)' \in {~is_empty, FALSE}
  BY Zenon DEF BufInv, BufTypeOK
<1>4. QED
  BY <1>1, <1>2, <1>3, SameSeqnums DEF Window!Discard

LEMMA StoreRefines ==
  ASSUME BufInv, BufInv', NEW seq \in Seqnums, NEW data \in Data, Store(seq, data)
  PROVE  \/ Window!ArriveFirst(seq, data)
         \/ Window!ArriveInWindow(seq, data)
         \/ Window!ArriveBeyondWindow(seq, data)
<1> DEFINE old == EntriesFor(seq)
<1>1. BufTypeOK /\ Slot(seq) \in Slots
  BY SlotInRing DEF BufInv
<1>2. old[Slot(seq)].payload_data \notin Data
  BY RingLosesNothing DEF Store, NoPayloadLost
<1>3. Placed(old) /\ Placed(entries')
  <2>1. Placed(entries) /\ Placed(entries')
    BY RingIsPlaced DEF Placed, BufInv, BufTypeOK, RingMatchesWindow
  <2>2. Placed(FlushedEntries)
    BY <1>1, FlushedFacts DEF Placed
  <2>3. QED
    BY <2>1, <2>2 DEF EntriesFor
<1>4. ~old[Slot(seq)].filled
  <2>1. CASE Overruns(seq)
    BY <1>1, <2>1, FlushedFacts DEF EntriesFor
  <2>2. CASE ~Overruns(seq)
    BY <1>1, <1>2, <2>2 DEF EntriesFor, BufInv, RingMatchesWindow
  <2>3. QED
    BY <2>1, <2>2
<1>5. /\ entries' = [old EXCEPT ![Slot(seq)] =
                       [filled |-> TRUE, seqnum |-> seq, payload_data |-> data]]
      /\ is_empty' = FALSE /\ out' = NULL
  BY DEF Store
<1> HIDE DEF old
<1>6. HeldPackets(entries') = [s \in Numbers(old) \cup {seq} |->
                                 IF s = seq THEN data ELSE HeldPackets(old)[s]]
  <2>1. HeldPackets(entries') = OneMore(old, seq, data)
    BY <1>3, <1>4, <1>5, StoreHoldsOneMore
  <2>2. QED
    BY <2>1 DEF OneMore
<1>7. CASE is_empty \/ Overruns(seq)
  <2>1. \A i \in Slots : ~old[i].filled
    BY <1>1, <1>7, FlushedFacts DEF old, EntriesFor, BufInv, RingMatchesWindow
  <2>2. Numbers(old) = {}
    BY <2>1 DEF Numbers
  <2>3. HeldPackets(entries') = [s \in {} \cup {seq} |->
                                   IF s = seq THEN data ELSE HeldPackets(entries)[s]]
    BY <1>6, <2>2
  <2>4. first_seqnum' = seq
    BY <1>7 DEF Store
  <2>5. CASE is_empty
    BY <1>5, <2>3, <2>4, <2>5
       DEF Window!ArriveFirst, Window!Hold, HeldPackets, Numbers
  <2>6. CASE ~is_empty
    <3>1. seqnum_cmp(seq, first_seqnum) >= L
      BY <1>1, <1>7, <2>6, ConstantFacts
         DEF Store, Accepts, TooLate, Overruns, seqnum_cmp, Wrap, BufTypeOK, Seqnums, L
    <3>2. Window!Ahead(seq) >= RAOP_BUFFER_LENGTH
      BY <3>1 DEF Window!Ahead, Window!seqnum_cmp, Window!HalfMod, seqnum_cmp, HalfMod, L
    <3>3. QED
      BY <1>5, <2>3, <2>4, <2>6, <3>2
         DEF Window!ArriveBeyondWindow, Window!Hold, HeldPackets, Numbers
  <2>7. QED
    BY <2>5, <2>6
<1>8. CASE ~is_empty /\ ~Overruns(seq)
  <2>1. old = entries /\ first_seqnum' = first_seqnum
    BY <1>8 DEF old, EntriesFor, Store
  <2>2. seqnum_cmp(seq, first_seqnum) \in 0 .. L - 1
    <3>1. seqnum_cmp(seq, first_seqnum) >= 0
      BY <1>1, <1>8, ConstantFacts DEF Store, Accepts, TooLate, seqnum_cmp, BufTypeOK, Seqnums
    <3>2. QED
      BY <1>1, <1>8, <3>1, AcceptedDistance
  <2>3. Window!Ahead(seq) \in 0 .. RAOP_BUFFER_LENGTH - 1
    BY <2>2 DEF Window!Ahead, Window!seqnum_cmp, Window!HalfMod, seqnum_cmp, HalfMod, L
  <2>4. seq \notin Numbers(entries)
    BY <1>3, <1>4, <2>1, NumbersAreHeld DEF Holds
  <2>5. QED
    BY <1>5, <1>6, <1>8, <2>1, <2>3, <2>4
       DEF Window!ArriveInWindow, Window!Hold, HeldPackets
<1>9. QED
  BY <1>7, <1>8

LEMMA SkipRefines ==
  ASSUME BufInv, NEW no_resend \in BOOLEAN, SkipFirst(no_resend)
  PROVE  Window!GiveUp
<1>1. /\ BufTypeOK /\ Placed(entries) /\ ~is_empty /\ entry_count > 0
      /\ first_seqnum \in Seqnums /\ last_seqnum \in Seqnums
  BY RingIsPlaced, ConstantFacts
     DEF BufInv, BufTypeOK, SkipFirst, MustWait, entry_count, seqnum_cmp, Seqnums
<1>2. Numbers(entries) = {s \in Seqnums : Holds(entries, s)}
  BY <1>1, NumbersAreHeld
<1>3. first_seqnum \notin Numbers(entries)
  BY <1>2 DEF Holds, SkipFirst, First
<1>4. last_seqnum \in Numbers(entries)
  BY <1>1, <1>2 DEF BufInv, LastIsHeld, HeldAt, Holds
<1>5. /\ first_seqnum' = Wrap(first_seqnum + 1) /\ out' = NULL
      /\ UNCHANGED <<is_empty, entries>>
  BY DEF SkipFirst
<1>6. QED
  BY <1>3, <1>4, <1>5
     DEF Window!GiveUp, Window!Wrap, Wrap, HeldPackets, Numbers

LEMMA TakeRefines ==
  ASSUME BufInv, BufInv', NEW no_resend \in BOOLEAN, TakeFirst(no_resend)
  PROVE  Window!Play
<1>1. Placed(entries) /\ Placed(entries') /\ first_seqnum \in Seqnums
  BY RingIsPlaced DEF Placed, BufInv, BufTypeOK, RingMatchesWindow
<1>2. Holds(entries, first_seqnum)
  BY FirstIsHeld DEF TakeFirst
<1>3. entries' = [entries EXCEPT ![Slot(first_seqnum)].filled = FALSE,
                                 ![Slot(first_seqnum)].payload_data = NULL]
  BY DEF TakeFirst
<1>4. HeldPackets(entries') =
        [s \in Numbers(entries) \ {first_seqnum} |-> HeldPackets(entries)[s]]
  BY <1>1, <1>2, <1>3, TakeHoldsOneLess
<1>5. first_seqnum \in Numbers(entries)
  BY <1>1, <1>2, NumbersAreHeld
<1>6. /\ first_seqnum' = Wrap(first_seqnum + 1) /\ UNCHANGED is_empty
      /\ out' = HeldPackets(entries)[first_seqnum]
  BY <1>5 DEF TakeFirst, First, HeldPackets
<1>7. QED
  BY <1>4, <1>5, <1>6 DEF Window!Play, Window!Wrap, Wrap, HeldPackets, Numbers

(* The ring implements the abstract playout window, for every ring length: *)
(* wherever numbers wrap and slots are reused, packets leave in order and  *)
(* with the content they arrived with, and none is given up unless a later *)
(* one is waiting.                                                         *)
THEOREM RingImplementsWindow == BufSpec => ImplementsWindow
<1>1. BufInit => Window!Init
  <2> SUFFICES ASSUME BufInit PROVE Window!Init
    OBVIOUS
  <2>1. \A i \in Slots : ~entries[i].filled
    BY DEF BufInit, NewEntry
  <2>2. HeldPackets(entries) = [s \in {} |-> NULL]
    BY <2>1, NothingHeld
  <2>3. QED
    BY <2>2 DEF BufInit, Window!Init, HeldPackets, Numbers
<1>2. BufInv /\ BufInv' /\ [BufNext]_bufvars => [Window!Next]_Window!wvars
  <2> SUFFICES ASSUME BufInv, BufInv', [BufNext]_bufvars
               PROVE  Window!Next \/ UNCHANGED Window!wvars
    OBVIOUS
  <2>1. ASSUME UNCHANGED <<is_empty, first_seqnum, entries>>, out' = NULL
        PROVE  Window!Quiet
    BY <2>1 DEF Window!Quiet
  <2>2. ASSUME NEW seq \in Seqnums, NEW data \in Data, Enqueue(seq, data)
        PROVE  Window!Next
    <3>1. CASE Ignore(seq)
      BY <2>1, <3>1 DEF Ignore, Window!Next
    <3>2. CASE Store(seq, data)
      BY <3>2, StoreRefines DEF Window!Next, Window!Seqnums, Seqnums
    <3>3. QED
      BY <2>2, <3>1, <3>2 DEF Enqueue
  <2>3. ASSUME NEW no_resend \in BOOLEAN, Dequeue(no_resend)
        PROVE  Window!Next
    <3>1. CASE DequeueNothing(no_resend)
      BY <2>1, <3>1 DEF DequeueNothing, Window!Next
    <3>2. QED
      BY <2>3, <3>1, SkipRefines, TakeRefines DEF Dequeue, Window!Next
  <2>4. ASSUME NEW next_seq \in Seqnums \cup {-1}, FlushBuffer(next_seq)
        PROVE  Window!Next
    <3>1. \A i \in Slots : ~entries'[i].filled
      BY <2>4, FlushedFacts DEF FlushBuffer, BufInv
    <3>2. out' = NULL /\ is_empty' \in {is_empty, TRUE}
      BY <2>4 DEF FlushBuffer
    <3>3. QED
      BY <3>1, <3>2, DiscardRefines DEF Window!Next
  <2>5. CASE Recreate
    <3>1. \A i \in Slots : ~entries'[i].filled
      BY <2>5 DEF Recreate, NewEntry
    <3>2. QED
      BY <2>5, <3>1, DiscardRefines DEF Recreate, Window!Next
  <2>6. CASE UNCHANGED bufvars
    BY <2>6 DEF bufvars, Window!wvars
  <2>7. QED
    BY <2>2, <2>3, <2>4, <2>5, <2>6 DEF BufNext
<1>3. QED
  BY <1>1, <1>2, BufferInvariant, PTL DEF BufSpec, ImplementsWindow, Window!Spec
=============================================================================
