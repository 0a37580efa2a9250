--------------------------- MODULE PlayoutWindow ---------------------------
(***************************************************************************)
(* What the audio buffer promises the RTP thread, with no ring, no slots   *)
(* and no pointers: a window that starts at sequence number next and holds *)
(* packets by number.  A packet that arrives goes into the window, moves   *)
(* the whole window forward when it is too far ahead, or is dropped when   *)
(* it is behind the window or already held; packets leave in sequence      *)
(* order, each with the content it arrived with; a missing packet is given *)
(* up only when a later one is waiting.                                    *)
(***************************************************************************)
EXTENDS SeqNum

CONSTANTS WindowLength, Data, None

VARIABLES
  open,   \* has a packet arrived since the window was last discarded
  next,   \* the number the window starts at
  held,   \* the packets waiting, a function from numbers to Data
  out     \* the packet the last step handed to the player, or None

wvars == <<open, next, held, out>>

Init ==
  /\ open = FALSE
  /\ next = 0
  /\ held = [s \in {} |-> None]
  /\ out = None

Ahead(seq) == seqnum_cmp(seq, next)

Hold(kept, seq, data) ==
  held' = [s \in kept \cup {seq} |-> IF s = seq THEN data ELSE held[s]]

ArriveFirst(seq, data) ==
  /\ ~open
  /\ open' = TRUE
  /\ next' = seq
  /\ Hold({}, seq, data)
  /\ out' = None

ArriveInWindow(seq, data) ==
  /\ open
  /\ Ahead(seq) \in 0 .. WindowLength - 1
  /\ seq \notin DOMAIN held
  /\ Hold(DOMAIN held, seq, data)
  /\ out' = None
  /\ UNCHANGED <<open, next>>

ArriveBeyondWindow(seq, data) ==
  /\ open
  /\ Ahead(seq) >= WindowLength
  /\ next' = seq
  /\ Hold({}, seq, data)
  /\ out' = None
  /\ UNCHANGED open

Quiet == out' = None /\ UNCHANGED <<open, next, held>>

Play ==
  /\ next \in DOMAIN held
  /\ out' = held[next]
  /\ held' = [s \in DOMAIN held \ {next} |-> held[s]]
  /\ next' = Wrap(next + 1)
  /\ UNCHANGED open

GiveUp ==
  /\ next \notin DOMAIN held
  /\ DOMAIN held # {}
  /\ next' = Wrap(next + 1)
  /\ out' = None
  /\ UNCHANGED <<open, held>>

(* Everything held is discarded, and the next packet may set the start. *)
Discard ==
  /\ held' = [s \in {} |-> None]
  /\ out' = None
  /\ next' \in Seqnums
  /\ open' \in {open, FALSE}

Next ==
  \/ \E seq \in Seqnums, data \in Data :
       \/ ArriveFirst(seq, data)
       \/ ArriveInWindow(seq, data)
       \/ ArriveBeyondWindow(seq, data)
  \/ Quiet \/ Play \/ GiveUp \/ Discard

Spec == Init /\ [][Next]_wvars
=============================================================================
