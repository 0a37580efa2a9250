----------------------------- MODULE LocalClock -----------------------------
(***************************************************************************)
(* What raop_ntp_get_local_time returns (lib/raop_ntp.cpp) in the 64-bit   *)
(* build the README describes.  clock_gettime writes two 32-bit longs, a   *)
(* struct timeval, where the caller has a struct timespec: a 64-bit tv_sec *)
(* and a tv_nsec that is never written.                                    *)
(***************************************************************************)
EXTENDS Integers

CONSTANTS
  Micros,   \* microseconds in a second, 1000000
  Word,     \* 2^32
  Width,    \* 2^64
  Garbage,  \* what tv_nsec / 1000 may be
  MaxTime   \* bound: how far the counter runs

VARIABLES
  counter,  \* the performance counter, in microseconds since its first reading
  returned  \* what the last call returned

clockvars == <<counter, returned>>

(* The first 64 bits of the timespec, after clock_gettime wrote a timeval. *)
tv_sec(t) == ((t \div Micros) % Word) + ((t % Micros) * Word)

LocalTime(t, garbage) == (tv_sec(t) * Micros + garbage) % Width

ClockInit == counter = 0 /\ \E g \in Garbage : returned = LocalTime(0, g)

Read ==
  \E t \in counter .. MaxTime, g \in Garbage : counter' = t /\ returned' = LocalTime(t, g)

ClockSpec == ClockInit /\ [][Read]_clockvars

(* "Returns the current time in micro seconds according to the local wall  *)
(* clock" (raop_ntp.cpp:512): two readings are as far apart as the clock.  *)
CountsMicroseconds == [][returned' - returned = counter' - counter]_clockvars
=============================================================================
