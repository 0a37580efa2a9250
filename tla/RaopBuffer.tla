----------------------------- MODULE RaopBuffer -----------------------------
(***************************************************************************)
(* The audio jitter buffer, lib/raop_buffer.cpp: a ring of                 *)
(* RAOP_BUFFER_LENGTH slots, indexed by sequence number, that the RTP      *)
(* thread fills in arrival order (Enqueue) and empties in sequence order   *)
(* (Dequeue).  A packet's timestamp, size and decrypted bytes are one      *)
(* member of Data.  A payload_data field is a heap pointer: a member of    *)
(* Data while it points to a live block with that content, FREED once the  *)
(* block was freed and the field still holds its address.                  *)
(***************************************************************************)
EXTENDS SeqNum

CONSTANTS
  RAOP_BUFFER_LENGTH,  \* slots of the ring, 32 in the code
  Data,                \* what a packet carries
  NULL, FREED          \* the null pointer, a dangling pointer

ASSUME BufferAssumption ==
  /\ RAOP_BUFFER_LENGTH \in Nat \ {0}
  /\ 2 * RAOP_BUFFER_LENGTH < SeqMod
  /\ \E k \in 1 .. SeqMod : SeqMod = k * RAOP_BUFFER_LENGTH
  /\ Data # {}
  /\ NULL \notin Data /\ FREED \notin Data /\ NULL # FREED

VARIABLES
  is_empty, first_seqnum, last_seqnum,
  entries,   \* the ring
  out        \* what the last call of raop_buffer_dequeue returned

bufvars == <<is_empty, first_seqnum, last_seqnum, entries, out>>

Slots == 0 .. RAOP_BUFFER_LENGTH - 1
Slot(seq) == seq % RAOP_BUFFER_LENGTH

Entry == [filled : BOOLEAN, seqnum : Seqnums, payload_data : Data \cup {NULL, FREED}]
NewEntry == [filled |-> FALSE, seqnum |-> 0, payload_data |-> NULL]

BufInit ==
  /\ is_empty = TRUE
  /\ first_seqnum = 0
  /\ last_seqnum = 0
  /\ entries = [i \in Slots |-> NewEntry]
  /\ out = NULL
-----------------------------------------------------------------------------
(* raop_buffer_flush clears every slot; the pointer it frees stays in it. *)
Cleared(e) ==
  [e EXCEPT !.filled = FALSE,
            !.payload_data = IF e.payload_data = NULL THEN NULL ELSE FREED]

FlushedEntries == [i \in Slots |-> Cleared(entries[i])]

LastAfterFlush(next_seq) == Wrap(next_seq - 1)

(* next_seq is a sequence number, or -1 for "the next packet decides". *)
FlushBuffer(next_seq) ==
  /\ entries' = FlushedEntries
  /\ IF next_seq < 0
       THEN is_empty' = TRUE /\ UNCHANGED <<first_seqnum, last_seqnum>>
       ELSE /\ first_seqnum' = next_seq
            /\ last_seqnum' = LastAfterFlush(next_seq)
            /\ UNCHANGED is_empty
  /\ out' = NULL
-----------------------------------------------------------------------------
TooLate_Never(seq) == FALSE                      \* mutation: no late check
TooLate(seq) == ~is_empty /\ seqnum_cmp(seq, first_seqnum) < 0

Overruns_OffByOne(seq) ==                        \* mutation: > for >=
  seqnum_cmp(seq, Wrap(first_seqnum + RAOP_BUFFER_LENGTH)) > 0
Overruns(seq) ==
  seqnum_cmp(seq, Wrap(first_seqnum + RAOP_BUFFER_LENGTH)) >= 0

(* The ring once space was made for seq. *)
EntriesFor(seq) == IF Overruns(seq) THEN FlushedEntries ELSE entries

Duplicate_Never(seq) == FALSE                    \* mutation: no resend check
Duplicate(seq) ==
  LET e == EntriesFor(seq)[Slot(seq)] IN e.filled /\ e.seqnum = seq

Accepts(seq) == ~TooLate(seq) /\ ~Duplicate(seq)

(* raop_buffer_enqueue returns 0: too late, or a copy of what is held. *)
Ignore(seq) ==
  /\ ~Accepts(seq)
  /\ out' = NULL
  /\ UNCHANGED <<is_empty, first_seqnum, last_seqnum, entries>>

(* raop_buffer_enqueue returns 1. *)
Store(seq, data) ==
  LET first == IF is_empty \/ Overruns(seq) THEN seq ELSE first_seqnum
      last  == IF is_empty THEN seq
               ELSE IF Overruns(seq) THEN LastAfterFlush(seq) ELSE last_seqnum
  IN /\ Accepts(seq)
     /\ is_empty' = FALSE
     /\ first_seqnum' = first
     /\ last_seqnum' = IF seqnum_cmp(seq, last) > 0 THEN seq ELSE last
     /\ entries' = [EntriesFor(seq) EXCEPT ![Slot(seq)] =
                      [filled |-> TRUE, seqnum |-> seq, payload_data |-> data]]
     /\ out' = NULL

Enqueue(seq, data) == Ignore(seq) \/ Store(seq, data)
-----------------------------------------------------------------------------
entry_count == seqnum_cmp(last_seqnum, first_seqnum) + 1

First == entries[Slot(first_seqnum)]

(* Nothing to take, or the first packet is missing and a resend may come. *)
MustWait(no_resend) ==
  \/ is_empty \/ entry_count <= 0
  \/ ~no_resend /\ ~First.filled /\ entry_count < RAOP_BUFFER_LENGTH

DequeueNothing(no_resend) ==
  /\ MustWait(no_resend)
  /\ out' = NULL
  /\ UNCHANGED <<is_empty, first_seqnum, last_seqnum, entries>>

(* The first packet is given up: the window moves past it. *)
SkipFirst(no_resend) ==
  /\ ~MustWait(no_resend)
  /\ ~First.filled
  /\ first_seqnum' = Wrap(first_seqnum + 1)
  /\ out' = NULL
  /\ UNCHANGED <<is_empty, last_seqnum, entries>>

TakeFirst(no_resend) ==
  /\ ~MustWait(no_resend)
  /\ First.filled
  /\ first_seqnum' = Wrap(first_seqnum + 1)
  /\ entries' = [entries EXCEPT ![Slot(first_seqnum)].filled = FALSE,
                                ![Slot(first_seqnum)].payload_data = NULL]
  /\ out' = First.payload_data
  /\ UNCHANGED <<is_empty, last_seqnum>>

Dequeue(no_resend) ==
  DequeueNothing(no_resend) \/ SkipFirst(no_resend) \/ TakeFirst(no_resend)
-----------------------------------------------------------------------------
(* raop_buffer_handle_resends: the run of missing packets at the front of  *)
(* the window.  The loop stops at last_seqnum without looking at its slot. *)
Offsets == 0 .. seqnum_cmp(last_seqnum, first_seqnum)
At(k) == Wrap(first_seqnum + k)

ResendCount_NoBreak ==                           \* mutation: the break is lost
  IF seqnum_cmp(first_seqnum, last_seqnum) >= 0 THEN 0
  ELSE seqnum_cmp(last_seqnum, first_seqnum)
ResendCount ==
  IF seqnum_cmp(first_seqnum, last_seqnum) >= 0 THEN 0
  ELSE CHOOSE k \in Offsets :
         /\ entries[Slot(At(k))].filled \/ At(k) = last_seqnum
         /\ \A j \in 0 .. k - 1 : ~entries[Slot(At(j))].filled

(* raop_buffer_destroy, and raop_buffer_init for the next session. *)
Recreate ==
  /\ is_empty' = TRUE
  /\ first_seqnum' = 0
  /\ last_seqnum' = 0
  /\ entries' = [i \in Slots |-> NewEntry]
  /\ out' = NULL

BufNext ==
  \/ \E seq \in Seqnums, data \in Data : Enqueue(seq, data)
  \/ \E no_resend \in BOOLEAN : Dequeue(no_resend)
  \/ \E next_seq \in Seqnums \cup {-1} : FlushBuffer(next_seq)
  \/ Recreate

BufSpec == BufInit /\ [][BufNext]_bufvars
-----------------------------------------------------------------------------
BufTypeOK ==
  /\ is_empty \in BOOLEAN
  /\ first_seqnum \in Seqnums
  /\ last_seqnum \in Seqnums
  /\ entries \in [Slots -> Entry]
  /\ out \in Data \cup {NULL}
-----------------------------------------------------------------------------
InWindow(seq) ==
  seqnum_cmp(seq, first_seqnum) >= 0 /\ seqnum_cmp(last_seqnum, seq) >= 0

HeldAt(seq) ==
  LET e == entries[Slot(seq)] IN e.filled /\ e.seqnum = seq

(* Whatever arrives in whatever order, a filled slot holds a live payload  *)
(* of a packet of the current window, in the slot its number indexes, and  *)
(* the window never outgrows the ring: enqueue's flush "so that there is   *)
(* always space" and its late check keep this (raop_buffer.cpp:203-211).   *)
RingMatchesWindow ==
  /\ is_empty => \A i \in Slots : ~entries[i].filled
  /\ ~is_empty => entry_count \in 0 .. RAOP_BUFFER_LENGTH
  /\ \A i \in Slots : entries[i].filled =>
        /\ Slot(entries[i].seqnum) = i
        /\ InWindow(entries[i].seqnum)
        /\ entries[i].payload_data \in Data

(* The last packet of a window that is not used up is always held: that is *)
(* why handle_resends may stop before looking at it.                       *)
LastIsHeld == ~is_empty /\ entry_count > 0 => HeldAt(last_seqnum)

(* A resend request asks for exactly the packets missing at the front: all *)
(* of them are absent, and the one after them is held.                     *)
ResendAsksWhatIsMissing ==
  ~is_empty /\ entry_count > 0 =>
    /\ \A k \in 0 .. ResendCount - 1 : ~HeldAt(At(k))
    /\ HeldAt(At(ResendCount))

UnfilledOwnsNothing ==
  \A i \in Slots : ~entries[i].filled => entries[i].payload_data \notin Data

(* enqueue writes payload_data of a slot without freeing what was there:   *)
(* no packet it accepts, of any number, may land on a live payload, or the *)
(* block would be lost; and an unfilled slot never owns one.               *)
NoPayloadLost ==
  /\ UnfilledOwnsNothing
  /\ \A seq \in Seqnums :
        Accepts(seq) => EntriesFor(seq)[Slot(seq)].payload_data \notin Data

(* The inductive invariant: with what a slot may hold, the place of every  *)
(* packet and the window's size follow from one call to the next.          *)
BufInv == BufTypeOK /\ RingMatchesWindow /\ LastIsHeld /\ UnfilledOwnsNothing
-----------------------------------------------------------------------------
(* The ring implements the window of PlayoutWindow: wherever numbers wrap  *)
(* and slots are reused, packets leave in order, each with the content it  *)
(* arrived with, and none is given up unless a later one is waiting.       *)
Numbers(ring) == {ring[i].seqnum : i \in {j \in Slots : ring[j].filled}}
HeldPackets(ring) == [s \in Numbers(ring) |-> ring[Slot(s)].payload_data]

Window == INSTANCE PlayoutWindow WITH
  WindowLength <- RAOP_BUFFER_LENGTH, None <- NULL,
  open <- ~is_empty, next <- first_seqnum, held <- HeldPackets(entries)

ImplementsWindow == Window!Spec

(* What raop_rtp_stop's comment "Flush buffer into initial state"          *)
(* (raop_rtp.cpp:711) says of raop_buffer_flush(-1): as raop_buffer_init   *)
(* does, it leaves no payload pointer in any slot.                         *)
FlushIsInitialState ==
  [][FlushBuffer(-1) => \A i \in Slots : entries'[i].payload_data = NULL]_bufvars
=============================================================================
