------------------------------ MODULE Pairing ------------------------------
(***************************************************************************)
(* What a connection goes through before it may set up its keys: the       *)
(* pairing session, lib/pairing.cpp, and FairPlay, lib/fairplay_playfair,  *)
(* with their handlers in lib/raop_handlers.h.  The cryptography is        *)
(* abstract: a signature is right or wrong, a key is there or not.         *)
(***************************************************************************)
EXTENDS Integers

VARIABLES
  status,   \* of the pairing session
  keymsg,   \* keymsglen is 164: FairPlay has its key message
  stage     \* history: how far the client has kept the order, or Astray

pairvars == <<status, keymsg, stage>>

Astray == -1
(* The order of the protocol: pair-setup, the two messages of pair-verify, *)
(* the two of fp-setup, and the SETUP of the keys.                         *)
Follow(n) == stage' = IF stage = n - 1 THEN n ELSE Astray
SetUp == 6

(* pairing_session_init and fairplay_init, for a new connection.           *)
PairInit == status = "initial" /\ keymsg = FALSE /\ stage = 0
NewPairing == status' = "initial" /\ keymsg' = FALSE /\ stage' = 0
-----------------------------------------------------------------------------
(* Each handler says whether it asks to disconnect.                        *)

(* raop_handler_pairsetup: 32 bytes, at any time.                          *)
PairSetup(disconnects) ==
  /\ status' = "setup" /\ Follow(1)
  /\ disconnects = FALSE
  /\ UNCHANGED keymsg

(* pairing_session_check_handshake_status                                  *)
CheckHandshake == status = "setup"

(* A pair-verify in another status is answered with nothing.  The second   *)
(* message of every client is: the first leaves the status at handshake.   *)
VerifyRefused(disconnects) ==
  /\ ~CheckHandshake
  /\ \E n \in {2, 3} : Follow(n)
  /\ disconnects = FALSE
  /\ UNCHANGED <<status, keymsg>>

(* So is any of these requests of the wrong length or version.             *)
Malformed(disconnects) ==
  /\ stage' = Astray
  /\ disconnects = FALSE
  /\ UNCHANGED <<status, keymsg>>

(* The first message.  When a call fails the answer is sent all the same,  *)
(* with what its buffers held.                                             *)
VerifyFirst(disconnects) ==
  /\ CheckHandshake
  /\ status' = IF status = "finished" THEN status ELSE "handshake"
  /\ Follow(2)
  /\ disconnects = FALSE
  /\ UNCHANGED keymsg

(* The second, with the client's signature.                                *)
VerifySecond(disconnects) ==
  /\ CheckHandshake
  /\ \E right \in BOOLEAN :
       /\ status' = IF status = "handshake" /\ right THEN "finished" ELSE status
       /\ IF right THEN Follow(3) ELSE stage' = Astray
       /\ disconnects = (status # "handshake" \/ ~right)
  /\ UNCHANGED keymsg

(* raop_handler_fpsetup, of 16 bytes (fairplay_setup) and of 164           *)
(* (fairplay_handshake).                                                   *)
FairplaySetup(disconnects) ==
  /\ keymsg' = FALSE /\ Follow(4)
  /\ disconnects = FALSE
  /\ UNCHANGED status

FairplayHandshake_NoLength(disconnects) ==    \* mutation: keymsglen is not set
  /\ Follow(5)
  /\ disconnects = FALSE
  /\ UNCHANGED <<status, keymsg>>
FairplayHandshake(disconnects) ==
  /\ keymsg' = TRUE /\ Follow(5)
  /\ disconnects = FALSE
  /\ UNCHANGED status

PairingHandler(disconnects) ==
  \/ PairSetup(disconnects) \/ VerifyRefused(disconnects) \/ Malformed(disconnects)
  \/ VerifyFirst(disconnects) \/ VerifySecond(disconnects)
  \/ FairplaySetup(disconnects) \/ FairplayHandshake(disconnects)
-----------------------------------------------------------------------------
PairTypeOK ==
  /\ status \in {"initial", "setup", "handshake", "finished"}
  /\ keymsg \in BOOLEAN
  /\ stage \in Astray .. SetUp
=============================================================================
