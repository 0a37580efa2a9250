------------------------------ MODULE NtpClock ------------------------------
(***************************************************************************)
(* The arithmetic of the clock synchronisation: the ntp timestamps of      *)
(* lib/byteutils.cpp, and the offset and delay that lib/raop_ntp.cpp       *)
(* computes from the four times of one exchange.  Every integer keeps the  *)
(* width it has in the code.                                               *)
(***************************************************************************)
EXTENDS Integers

CONSTANTS
  Micros,  \* microseconds in a second, 1000000
  Word,    \* 2^32: a timestamp's seconds wrap, and the fractions in a second
  Width,   \* 2^64
  Epoch    \* SECONDS_FROM_1900_TO_1970, 2208988800

ASSUME ClockAssumption ==
  /\ Micros \in Nat \ {0}
  /\ Word \in Nat /\ Word >= Micros
  /\ Width \in Nat \ {0}
  /\ Epoch \in Nat

(* byteutils_put_ntp_timestamp: htonl cuts the seconds to 32 bits, the     *)
(* division rounds the fraction down.                                      *)
PutTimestamp(micros) ==
  [seconds |-> ((micros \div Micros) + Epoch) % Word,
   fraction |-> ((micros % Micros) * Word) \div Micros]

(* byteutils_get_ntp_timestamp, in unsigned 64-bit integers.               *)
GetTimestamp(stamp) ==
  ((stamp.seconds - Epoch) * Micros + (stamp.fraction * Micros) \div Word) % Width

(* An int64_t; a signed overflow wraps around in the build.                *)
Int64(x) == ((x + Width \div 2) % Width) - (Width \div 2)

(* C division rounds towards zero.                                         *)
Half(x) == IF x >= 0 THEN x \div 2 ELSE -((-x) \div 2)

(* t0: the request leaves here, t1: it arrives there, t2: the response     *)
(* leaves there, t3: it arrives here.                                      *)
Offset(t0, t1, t2, t3) == Half(Int64((t1 - t0) + (t2 - t3)))
Delay(t0, t1, t2, t3) == Int64((t3 - t0) - (t2 - t1))

(* A time that travels as an ntp timestamp.                                *)
Sent(t) == GetTimestamp(PutTimestamp(t))
=============================================================================
