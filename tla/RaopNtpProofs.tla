--------------------------- MODULE RaopNtpProofs ---------------------------
(***************************************************************************)
(* The clock synchronisation service for every ring size and every         *)
(* behaviour of the network and the clocks: its life, that the offset in   *)
(* use is that of a least delayed recent sample, and what a time loses on  *)
(* its way through an ntp timestamp.                                       *)
(***************************************************************************)
EXTENDS RaopNtp, TLAPS

USE ClockAssumption, NtpAssumption
USE DEF syncvars, callervars, netvars
-----------------------------------------------------------------------------
(* The arithmetic of timestamps and of the ring.                           *)
LEMMA Division ==
  ASSUME NEW x \in Nat, NEW n \in Nat \ {0}
  PROVE  /\ x \div n \in Nat /\ x % n \in Nat /\ x % n < n
         /\ x = (x \div n) * n + (x % n)
OBVIOUS

LEMMA Product == ASSUME NEW x \in Nat, NEW y \in Nat PROVE x * y \in Nat
OBVIOUS

LEMMA NextMultiple == ASSUME NEW x \in Int, NEW n \in Nat PROVE (x + 1) * n = x * n + n
OBVIOUS

LEMMA Monotone == ASSUME NEW x \in Int, NEW y \in Int, NEW n \in Nat, x <= y
                  PROVE  x * n <= y * n
<1>1. (y - x) * n >= 0 /\ (y - x) * n = y * n - x * n
  OBVIOUS
<1>2. x * n \in Int /\ y * n \in Int
  OBVIOUS
<1> QED
  BY <1>1, <1>2

(* Scaling a part of a second to a finer unit and back, rounding down      *)
(* twice, loses one at most.                                               *)
LEMMA ThereAndBack ==
  ASSUME NEW r \in Nat
  PROVE  (((r * Word) \div Micros) * Micros) \div Word \in {r - 1, r}
<1> DEFINE a == r * Word
           q == a \div Micros
           b == q * Micros
           d == b \div Word
<1>1. Word \in Nat \ {0}
  OBVIOUS
<1>2. a \in Nat
  BY Product
<1>3. q \in Nat /\ a - b \in 0 .. Micros - 1
  BY <1>2, Division
<1>4. b \in Nat
  BY <1>3, Product
<1> HIDE DEF b, q
<1>5. d \in Nat /\ d * Word <= b /\ b < d * Word + Word
  BY <1>1, <1>4, Division
<1> HIDE DEF d
<1>6. d * Word \in Nat
  BY <1>5, Product
<1>7. d <= r
  <2>1. CASE r + 1 <= d
    <3>1. (r + 1) * Word <= d * Word
      BY <1>5, <2>1, Monotone
    <3>2. (r + 1) * Word = a + Word
      BY NextMultiple
    <3> HIDE DEF a
    <3> QED
      BY <1>1, <1>2, <1>3, <1>4, <1>5, <1>6, <3>1, <3>2
  <2> QED
    BY <1>5, <2>1
<1>8. r - 1 <= d
  <2>1. CASE d + 2 <= r
    <3>1. (d + 2) * Word <= a
      BY <1>5, <2>1, Monotone
    <3>2. (d + 2) * Word = d * Word + Word + Word
      <4>1. (d + 1) * Word = d * Word + Word
        BY <1>5, NextMultiple
      <4>2. ((d + 1) + 1) * Word = (d + 1) * Word + Word
        BY <1>5, NextMultiple
      <4>3. (d + 1) + 1 = d + 2
        BY <1>5
      <4> QED
        BY <4>1, <4>2, <4>3
    <3> HIDE DEF a
    <3> QED
      BY <1>1, <1>2, <1>3, <1>4, <1>5, <1>6, <3>1, <3>2
  <2> QED
    BY <1>5, <2>1
<1> QED
  BY <1>5, <1>7, <1>8 DEF d, b, q

(* The part of a second that PutTimestamp gives.                           *)
LEMMA FractionFits ==
  ASSUME NEW r \in 0 .. Micros - 1
  PROVE  (r * Word) \div Micros \in 0 .. Word - 1
<1> DEFINE a == r * Word
           q == a \div Micros
<1>1. Word \in Nat \ {0}
  OBVIOUS
<1>2. a \in Nat
  BY <1>1, Product
<1>3. q \in Nat /\ q * Micros \in Nat /\ q * Micros <= a
  BY <1>2, Division, Product
<1>4. a + Word <= Micros * Word
  <2>1. (r + 1) * Word <= Micros * Word /\ (r + 1) * Word = a + Word
    BY <1>1, NextMultiple, Monotone
  <2> QED
    BY <2>1
<1>5. Word * Micros \in Nat /\ Word * Micros = Micros * Word
  BY <1>1, Product
<1> HIDE DEF a, q
<1>6. q < Word
  <2>1. CASE Word <= q
    <3>1. Word * Micros <= q * Micros
      BY <1>1, <1>3, <2>1, Monotone
    <3> QED
      BY <1>1, <1>2, <1>3, <1>4, <1>5, <3>1
  <2> QED
    BY <1>1, <1>3, <2>1
<1> QED
  BY <1>1, <1>3, <1>6 DEF a, q

(* What a time loses in an ntp timestamp: a microsecond at most, and each  *)
(* 2^32 seconds that its seconds since 1900 have run over.                 *)
LEMMA SentIs ==
  ASSUME NEW t \in Nat
  PROVE  \E early \in 0 .. 1 :
           /\ early <= t
           /\ Sent(t) = (t - early - (((t \div Micros) + Epoch) \div Word) * Word * Micros) % Width
<1> DEFINE s == t \div Micros
           r == t % Micros
           total == s + Epoch
           over == total \div Word
           d == (((r * Word) \div Micros) * Micros) \div Word
<1>1. s \in Nat /\ r \in 0 .. Micros - 1 /\ t = s * Micros + r /\ s * Micros \in Nat
  BY Division, Product
<1>2. Word \in Nat \ {0} /\ total \in Nat
  BY <1>1
<1>3. /\ over \in Nat /\ total % Word \in 0 .. Word - 1
      /\ total = over * Word + (total % Word) /\ over * Word \in Nat
  BY <1>2, Division, Product
<1>4. d \in {r - 1, r} /\ d \in Nat
  <2>1. r * Word \in Nat
    BY <1>1, <1>2, Product
  <2>2. (r * Word) \div Micros \in Nat
    BY <2>1, Division
  <2>3. ((r * Word) \div Micros) * Micros \in Nat
    BY <2>2, Product
  <2>4. d \in Nat
    BY <1>2, <2>3, Division
  <2> QED
    BY <1>1, <2>4, ThereAndBack
<1>5. Sent(t) = (((total % Word) - Epoch) * Micros + d) % Width
  BY DEF Sent, GetTimestamp, PutTimestamp
<1> DEFINE late == over * Word
<1>6. Sent(t) = ((s - late) * Micros + d) % Width
  <2>1. (total % Word) - Epoch = s - late
    BY <1>1, <1>2, <1>3
  <2> QED
    BY <1>5, <2>1
<1> HIDE DEF s, r, over, d
<1>7. (s - late) * Micros = s * Micros - late * Micros
  BY <1>1, <1>3
<1>8. late * Micros \in Nat
  BY <1>3, Product
<1>9. PICK early \in 0 .. 1 : d = r - early /\ early <= r
  BY <1>1, <1>4
<1>10. (s - late) * Micros + d = t - early - late * Micros
  BY <1>1, <1>4, <1>7, <1>8, <1>9
<1>11. early <= t
  BY <1>1, <1>9
<1> QED
  BY <1>6, <1>9, <1>10, <1>11 DEF s, over

(* A time that travels as an ntp timestamp (byteutils_put_ntp_timestamp,   *)
(* byteutils_get_ntp_timestamp) arrives at most a microsecond early, for   *)
(* every time of 64 bits but for what htonl's 32 bits of seconds cut off;  *)
(* and nothing is cut off until the seconds since 1900 fill a Word.        *)
THEOREM TimestampKeepsTime ==
  ASSUME NEW t \in 0 .. Width - 1
  PROVE  /\ \E early \in 0 .. 1 :
              Sent(t) = (t - early - (((t \div Micros) + Epoch) \div Word) * Word * Micros) % Width
         /\ (t \div Micros) + Epoch < Word => Sent(t) \in {t - 1, t}
<1>1. PICK early \in 0 .. 1 :
        /\ early <= t
        /\ Sent(t) = (t - early - (((t \div Micros) + Epoch) \div Word) * Word * Micros) % Width
  <2>1. t \in Nat
    OBVIOUS
  <2> QED
    BY <2>1, SentIs, Zenon
<1>2. ASSUME (t \div Micros) + Epoch < Word PROVE Sent(t) \in {t - 1, t}
  <2> DEFINE total == (t \div Micros) + Epoch
  <2>1. total \in Nat
    BY Division
  <2> HIDE DEF total
  <2>2. total \div Word = 0
    <3>1. total < Word /\ Word \in Nat \ {0}
      BY <1>2 DEF total
    <3> DEFINE q == total \div Word
    <3>2. q \in Nat /\ total % Word \in Nat /\ total = q * Word + (total % Word)
      BY <2>1, <3>1, Division
    <3> HIDE DEF q
    <3>3. CASE 1 <= q
      <4>1. 1 * Word <= q * Word /\ q * Word \in Nat
        BY <3>1, <3>2, <3>3, Monotone, Product
      <4> QED
        BY <2>1, <3>1, <3>2, <4>1
    <3> QED
      BY <3>2, <3>3 DEF q
  <2>3. (total \div Word) * Word * Micros = 0
    BY <2>2
  <2>4. Sent(t) = (t - early) % Width
    <3>1. Sent(t) = (t - early - (total \div Word) * Word * Micros) % Width
      BY <1>1 DEF total
    <3> QED
      BY <2>3, <3>1
  <2>5. (t - early) % Width = t - early
    BY <1>1
  <2> QED
    BY <2>4, <2>5
<1> QED
  BY <1>1, <1>2

LEMMA PutTyped == ASSUME NEW t \in Nat PROVE PutTimestamp(t) \in Stamp
<1>1. t \div Micros \in Nat /\ t % Micros \in 0 .. Micros - 1
  BY Division
<1>2. ((t \div Micros) + Epoch) % Word \in 0 .. Word - 1
  <2>1. (t \div Micros) + Epoch \in Nat /\ Word \in Nat \ {0}
    BY <1>1
  <2> QED
    BY <2>1, Division
<1>3. ((t % Micros) * Word) \div Micros \in 0 .. Word - 1
  BY <1>1, FractionFits
<1> QED
  BY <1>2, <1>3 DEF PutTimestamp, Stamp

LEMMA GetTyped == ASSUME NEW s \in Stamp PROVE GetTimestamp(s) \in 0 .. Width - 1
<1>1. (s.seconds - Epoch) * Micros \in Int /\ s.fraction * Micros \in Nat
  BY Product DEF Stamp
<1>2. Word \in Nat \ {0}
  OBVIOUS
<1>3. (s.fraction * Micros) \div Word \in Nat
  BY <1>1, <1>2, Division
<1> QED
  BY <1>1, <1>3 DEF GetTimestamp

LEMMA SampleTyped == ASSUME NEW t0 \in Nat, NEW t1 \in Nat, NEW t2 \in Nat, NEW t3 \in Nat
                     PROVE  [offset |-> Offset(t0, t1, t2, t3),
                             delay |-> Delay(t0, t1, t2, t3)] \in Sample
<1>1. \A x \in Int : Half(x) \in Int
  BY DEF Half
<1>2. \A x \in Int : Int64(x) \in Int
  BY DEF Int64
<1>3. Offset(t0, t1, t2, t3) \in Int /\ Delay(t0, t1, t2, t3) \in Int
  BY <1>1, <1>2 DEF Offset, Delay
<1> QED
  BY <1>3 DEF Sample

(* Without its %, the ring's next index.                                   *)
LEMMA NextIndexIs ==
  ASSUME data_index \in Indices
  PROVE  NextIndex = IF data_index + 1 = RAOP_NTP_DATA_COUNT THEN 0 ELSE data_index + 1
<1>1. CASE data_index + 1 = RAOP_NTP_DATA_COUNT
  <2>1. RAOP_NTP_DATA_COUNT % RAOP_NTP_DATA_COUNT = 0
    OBVIOUS
  <2> QED
    BY <1>1, <2>1 DEF NextIndex
<1>2. CASE data_index + 1 < RAOP_NTP_DATA_COUNT
  <2>1. data_index + 1 \in Nat /\ (data_index + 1) % RAOP_NTP_DATA_COUNT = data_index + 1
    BY <1>2 DEF Indices
  <2> QED
    BY <1>2, <2>1 DEF NextIndex
<1> QED
  BY <1>1, <1>2 DEF Indices

-----------------------------------------------------------------------------
(* Types.                                                                  *)
LEMMA TypeInit == NtpInit => NtpTypeOK
<1> SUFFICES ASSUME NtpInit PROVE NtpTypeOK
  OBVIOUS
<1>1. NoSample \in Sample /\ 0 \in Indices
  BY DEF NoSample, Sample, Indices
<1>2. <<>> \in Seq(Stamp) /\ <<>> \in Seq(Sample) /\ Len(<<>>) = 0
  OBVIOUS
<1>3. data \in [Indices -> Sample] /\ data_index \in Indices
  BY <1>1 DEF NtpInit
<1>4. asked \subseteq Stamp /\ queue \in Seq(Stamp)
  BY <1>2 DEF NtpInit
<1>5. recent \in Seq(Sample) /\ Len(recent) <= RAOP_NTP_DATA_COUNT
  BY <1>2 DEF NtpInit
<1>6. /\ running \in BOOLEAN /\ joined \in BOOLEAN /\ tsock \in BOOLEAN
      /\ woken \in BOOLEAN /\ destroying \in BOOLEAN
  BY DEF NtpInit
<1>7. /\ at = "gone" /\ caller = "idle" /\ sync_offset \in Int /\ sync_delay \in Int
  BY DEF NtpInit
<1> QED
  BY <1>3, <1>4, <1>5, <1>6, <1>7 DEF NtpTypeOK

LEMMA NewestIs ==
  ASSUME NEW s \in Sample, NEW past \in Seq(Sample), Len(past) <= RAOP_NTP_DATA_COUNT,
         NEW new, new = Newest(<<s>> \o past)
  PROVE  /\ new \in Seq(Sample) /\ Len(new) <= RAOP_NTP_DATA_COUNT
         /\ Len(new) = IF Len(past) < RAOP_NTP_DATA_COUNT THEN Len(past) + 1
                                                        ELSE RAOP_NTP_DATA_COUNT
         /\ new[1] = s
         /\ \A k \in 2 .. Len(new) : new[k] = past[k - 1]
<1> DEFINE all == <<s>> \o past
           m == IF Len(all) < RAOP_NTP_DATA_COUNT THEN Len(all) ELSE RAOP_NTP_DATA_COUNT
<1>1. /\ all \in Seq(Sample) /\ Len(all) = Len(past) + 1 /\ all[1] = s
      /\ \A k \in 2 .. Len(all) : all[k] = past[k - 1]
  OBVIOUS
<1>2. m \in 1 .. Len(all)
  BY <1>1
<1> HIDE DEF all, m
<1>3. /\ SubSeq(all, 1, m) \in Seq(Sample) /\ Len(SubSeq(all, 1, m)) = m
      /\ SubSeq(all, 1, m)[1] = all[1]
      /\ \A k \in 1 .. m : SubSeq(all, 1, m)[k] = all[k]
  BY <1>1, <1>2
<1>4. new = SubSeq(all, 1, m)
  BY DEF Newest, m, all
<1>5. m = IF Len(past) < RAOP_NTP_DATA_COUNT THEN Len(past) + 1 ELSE RAOP_NTP_DATA_COUNT
  BY <1>1 DEF m
<1>6. 1 <= m /\ m <= RAOP_NTP_DATA_COUNT
  BY <1>5
<1>7. \A k \in 2 .. m : SubSeq(all, 1, m)[k] = past[k - 1]
  BY <1>1, <1>2, <1>3
<1>8. Len(new) = m /\ new \in Seq(Sample) /\ 1 \in 1 .. m
  BY <1>2, <1>3, <1>4, <1>6
<1>9. new[1] = s
  BY <1>1, <1>3, <1>4, <1>8
<1>10. \A k \in 2 .. Len(new) : new[k] = past[k - 1]
  BY <1>4, <1>7, <1>8
<1> QED
  BY <1>5, <1>6, <1>8, <1>9, <1>10

LEMMA TypeStep == NtpTypeOK /\ [NtpNext]_ntpvars => NtpTypeOK'
<1> SUFFICES ASSUME NtpTypeOK, [NtpNext]_ntpvars
             PROVE  NtpTypeOK'
  OBVIOUS
<1> USE DEF NtpTypeOK
<1>1. CASE StartTime
  <2>1. <<>> \in Seq(Stamp)
    OBVIOUS
  <2> QED
    BY <1>1, <2>1 DEF StartTime
<1>2. ASSUME NEW destroy \in BOOLEAN, StopBegin(destroy) PROVE NtpTypeOK'
  BY <1>2 DEF StopBegin
<1>3. CASE StopSignal
  BY <1>3 DEF StopSignal
<1>4. CASE StopClose
  <2>1. <<>> \in Seq(Stamp)
    OBVIOUS
  <2> QED
    BY <1>4, <2>1 DEF StopClose
<1>5. CASE StopJoin
  BY <1>5 DEF StopJoin
<1>6. CASE StopMark
  BY <1>6 DEF StopMark
<1>7. CASE Free
  <2>1. NtpInit'
    BY <1>7 DEF Free, NtpInit
  <2> QED
    BY <2>1, TypeInit, PTL
<1>8. CASE CheckRunning
  BY <1>8 DEF CheckRunning
<1>9. CASE SendRequest
  <2>1. asked' \subseteq Stamp
    <3>1. PICK t \in Times : asked' = asked \cup {PutTimestamp(t)}
      BY <1>9 DEF SendRequest, SendAt
    <3>2. PutTimestamp(t) \in Stamp
      BY PutTyped
    <3> QED
      BY <3>1, <3>2
  <2>2. queue' \in Seq(Stamp)
    BY <1>9 DEF SendRequest, SendAt, FlushedQueue
  <2> QED
    BY <1>9, <2>1, <2>2 DEF SendRequest, SendAt
<1>10. CASE SendFails
  BY <1>10 DEF SendFails
<1>11. CASE ReceiveResponse
  <2>1. PICK t1 \in Times, t2 \in Times, t3 \in Times :
          LET t0 == OriginTime
              sample == [offset |-> Offset(t0, t1, t2, t3), delay |-> Delay(t0, t1, t2, t3)]
          IN  /\ data' = [data EXCEPT ![NextIndex] = sample]
              /\ recent' = Newest(<<sample>> \o recent)
    BY <1>11 DEF ReceiveResponse, ReceiveAt
  <2>2. OriginTime \in Nat
    <3>1. Head(queue) \in Stamp
      BY <1>11 DEF ReceiveResponse, ReceiveAt
    <3> QED
      BY <3>1, GetTyped DEF OriginTime
  <2> DEFINE t0 == OriginTime
             sample == [offset |-> Offset(t0, t1, t2, t3), delay |-> Delay(t0, t1, t2, t3)]
  <2>3. sample \in Sample
    BY <2>2, SampleTyped
  <2> HIDE DEF sample
  <2>4. NextIndex \in Indices
    BY NextIndexIs DEF Indices
  <2>5. data' \in [Indices -> Sample]
    <3>1. data' = [data EXCEPT ![NextIndex] = sample]
      BY <2>1 DEF sample
    <3> QED
      BY <2>3, <3>1
  <2>6. recent' \in Seq(Sample) /\ Len(recent') <= RAOP_NTP_DATA_COUNT
    <3>1. recent' = Newest(<<sample>> \o recent)
      BY <2>1 DEF sample
    <3> QED
      BY <2>3, <3>1, NewestIs
  <2>7. sync_offset' \in Int /\ sync_delay' \in Int
    <3>1. PICK best \in Indices, worst \in Indices :
            sync_offset' = data'[best].offset /\ sync_delay' = data'[worst].delay
      BY <1>11 DEF ReceiveResponse, ReceiveAt
    <3>2. data'[best] \in Sample /\ data'[worst] \in Sample
      BY <2>5
    <3>3. \A one \in Sample : one.offset \in Int /\ one.delay \in Int
      BY DEF Sample
    <3> HIDE DEF NtpTypeOK
    <3> QED
      BY <3>1, <3>2, <3>3
  <2>8. queue' \in Seq(Stamp)
    BY <1>11 DEF ReceiveResponse, ReceiveAt
  <2> QED
    BY <1>11, <2>4, <2>5, <2>6, <2>7, <2>8 DEF ReceiveResponse, ReceiveAt
<1>12. CASE ReceiveFails \/ Wait
  BY <1>12 DEF ReceiveFails, Wait
<1>13. CASE ClearRunning \/ LogAndReturn
  BY <1>13 DEF ClearRunning, LogAndReturn
<1>14. CASE Deliver
  BY <1>14 DEF Deliver
<1>15. CASE UNCHANGED ntpvars
  BY <1>15 DEF ntpvars
<1> QED
  BY <1>1, <1>2, <1>3, <1>4, <1>5, <1>6, <1>7, <1>8, <1>9, <1>10, <1>11, <1>12, <1>13,
     <1>14, <1>15 DEF NtpNext, Caller, Thread, Untimed

(* The variables have their types.                                         *)
THEOREM NtpTypeCorrect == NtpSpec => []NtpTypeOK
BY TypeInit, TypeStep, PTL DEF NtpSpec
-----------------------------------------------------------------------------
(* The service's life.                                                     *)
LEMMA LifeInit == NtpInit => LifeInv
BY DEF NtpInit, LifeInv

LEMMA LifeStep == LifeInv /\ [NtpNext]_ntpvars => LifeInv'
<1> SUFFICES ASSUME LifeInv, [NtpNext]_ntpvars
             PROVE  LifeInv'
  OBVIOUS
<1>1. CASE StartTime
  BY <1>1 DEF StartTime, LifeInv
<1>2. ASSUME NEW destroy \in BOOLEAN, StopBegin(destroy) PROVE LifeInv'
  BY <1>2 DEF StopBegin, LifeInv
<1>3. CASE StopSignal
  BY <1>3 DEF StopSignal, LifeInv
<1>4. CASE StopClose
  BY <1>4 DEF StopClose, LifeInv
<1>5. CASE StopJoin
  BY <1>5 DEF StopJoin, LifeInv
<1>6. CASE StopMark
  BY <1>6 DEF StopMark, LifeInv
<1>7. CASE Free
  BY <1>7 DEF Free, LifeInv
<1>8. CASE CheckRunning
  BY <1>8 DEF CheckRunning, LifeInv
<1>9. CASE SendRequest \/ SendFails
  BY <1>9 DEF SendRequest, SendAt, SendFails, LifeInv
<1>10. CASE ReceiveResponse \/ ReceiveFails
  <2>1. /\ at = "receive" /\ at' = "wait"
        /\ UNCHANGED <<running, joined, tsock, callervars>>
    BY <1>10 DEF ReceiveResponse, ReceiveAt, ReceiveFails
  <2> QED
    BY <2>1 DEF LifeInv
<1>11. CASE Wait
  BY <1>11 DEF Wait, LifeInv
<1>12. CASE ClearRunning
  BY <1>12 DEF ClearRunning, LifeInv
<1>13. CASE LogAndReturn
  BY <1>13 DEF LogAndReturn, LifeInv
<1>14. CASE Deliver
  BY <1>14 DEF Deliver, LifeInv
<1>15. CASE UNCHANGED ntpvars
  BY <1>15 DEF ntpvars, LifeInv
<1> QED
  BY <1>1, <1>2, <1>3, <1>4, <1>5, <1>6, <1>7, <1>8, <1>9, <1>10, <1>11, <1>12, <1>13,
     <1>14, <1>15 DEF NtpNext, Caller, Thread, Untimed

(* The phases of raop_ntp_start and raop_ntp_stop, the flags they set and   *)
(* the thread's life go together as LifeInv says.                          *)
THEOREM NtpLife == NtpSpec => []LifeInv
BY LifeInit, LifeStep, PTL DEF NtpSpec

(* raop_ntp_stop leaves no thread and no socket.                           *)
THEOREM StopIsClean == NtpSpec => []StopLeavesNothing
<1>1. LifeInv => StopLeavesNothing
  BY DEF LifeInv, StopLeavesNothing
<1> QED
  BY <1>1, NtpLife, PTL

(* The service implements Worker, and never reaches "failed": its thread   *)
(* ends only when it was asked to.                                         *)
THEOREM NtpIsAWorker == NtpSpec => Service!Safe /\ [](TimeLife # "failed")
<1>1. NtpInit => Service!Init
  BY DEF NtpInit, Service!Init, TimeLife
<1>2. NtpTypeOK /\ LifeInv => TimeLife # "failed"
  <2> SUFFICES ASSUME NtpTypeOK, LifeInv PROVE TimeLife # "failed"
    OBVIOUS
  <2>1. CASE joined
    BY <2>1 DEF TimeLife
  <2>2. CASE ~joined /\ running
    BY <2>2 DEF TimeLife
  <2>3. CASE ~joined /\ ~running
    <3>1. caller \in {"signalling", "closing", "joining", "marking"}
      BY <2>3 DEF LifeInv, NtpTypeOK
    <3> QED
      BY <2>3, <3>1 DEF TimeLife
  <2> QED
    BY <2>1, <2>2, <2>3
<1>3. LifeInv /\ [NtpNext]_ntpvars => [Service!Next]_Service!wvars
  <2> SUFFICES ASSUME LifeInv, [NtpNext]_ntpvars
               PROVE  Service!Next \/ UNCHANGED Service!wvars
    OBVIOUS
  <2> USE DEF Service!wvars
  <2>1. CASE StartTime
    BY <2>1 DEF StartTime, TimeLife, LifeInv, Service!Next, Service!Start
  <2>2. ASSUME NEW destroy \in BOOLEAN, StopBegin(destroy)
        PROVE  Service!Next \/ UNCHANGED Service!wvars
    BY <2>2 DEF StopBegin, TimeLife, LifeInv, Service!Next, Service!AskToStop
  <2>3. CASE StopSignal \/ StopClose \/ StopJoin
    BY <2>3 DEF StopSignal, StopClose, StopJoin, TimeLife
  <2>4. CASE StopMark
    BY <2>4 DEF StopMark, TimeLife, LifeInv, Service!Next, Service!Stopped
  <2>5. CASE Free
    BY <2>5 DEF Free, TimeLife, LifeInv, Service!Next, Service!Free
  <2>6. CASE ClearRunning
    BY <2>6 DEF ClearRunning, TimeLife, LifeInv
  <2>7. CASE LogAndReturn
    BY <2>7 DEF LogAndReturn, TimeLife, LifeInv, Service!Next, Service!ThreadEnds
  <2>8. ASSUME UNCHANGED <<running, joined, callervars>>, (at = "gone") = (at' = "gone")
        PROVE  UNCHANGED Service!wvars
    BY <2>8 DEF TimeLife
  <2>9. CASE UNCHANGED ntpvars \/ Deliver
    BY <2>8, <2>9 DEF ntpvars, Deliver
  <2>10. CASE CheckRunning \/ SendRequest \/ SendFails
    BY <2>8, <2>10 DEF CheckRunning, SendRequest, SendAt, SendFails
  <2>11. CASE ReceiveResponse \/ ReceiveFails \/ Wait
    BY <2>8, <2>11 DEF ReceiveResponse, ReceiveAt, ReceiveFails, Wait
  <2> QED
    BY <2>1, <2>2, <2>3, <2>4, <2>5, <2>6, <2>7, <2>9, <2>10, <2>11
       DEF NtpNext, Caller, Thread, Untimed
<1> QED
  BY <1>1, <1>2, <1>3, NtpLife, NtpTypeCorrect, PTL DEF NtpSpec, Service!Safe
-----------------------------------------------------------------------------
(* The ring and the offset.                                                *)
LEMMA RingInit == NtpInit => RingInv
<1> SUFFICES ASSUME NtpInit PROVE RingInv
  OBVIOUS
<1>1. data = [k \in Indices |-> NoSample] /\ data_index = 0 /\ sync_offset = 0
      /\ recent = <<>> /\ Len(recent) = 0
  BY DEF NtpInit
<1>2. \A k \in 1 .. RAOP_NTP_DATA_COUNT : IndexOfAge(k) \in Indices
  BY <1>1 DEF IndexOfAge, Indices
<1>3. \A k \in 1 .. RAOP_NTP_DATA_COUNT : data[IndexOfAge(k)] = NoSample
  BY <1>1, <1>2
<1>4. IsBest(data, 0) /\ sync_offset = data[0].offset /\ 0 \in Indices
  BY <1>1 DEF IsBest, NoSample, Indices
<1> QED
  BY <1>1, <1>3, <1>4 DEF RingInv

LEMMA RingStep == NtpTypeOK /\ RingInv /\ [NtpNext]_ntpvars => RingInv'
<1> SUFFICES ASSUME NtpTypeOK, RingInv, [NtpNext]_ntpvars
             PROVE  RingInv'
  OBVIOUS
<1>1. ASSUME UNCHANGED syncvars PROVE RingInv'
  BY <1>1 DEF RingInv, IndexOfAge, IsBest
<1>2. CASE Free
  <2>1. NtpInit'
    BY <1>2 DEF Free, NtpInit
  <2> QED
    BY <2>1, RingInit, PTL
<1>3. CASE ReceiveResponse
  <2>1. PICK sample : /\ data' = [data EXCEPT ![NextIndex] = sample]
                      /\ recent' = Newest(<<sample>> \o recent)
    BY <1>3 DEF ReceiveResponse, ReceiveAt
  <2>2. data_index' = NextIndex /\ NextIndex \in Indices
    BY <1>3, NextIndexIs DEF ReceiveResponse, ReceiveAt, NtpTypeOK, Indices
  <2>3. sample \in Sample
    <3>1. data' \in [Indices -> Sample]
      BY TypeStep DEF NtpTypeOK
    <3>2. data'[NextIndex] = sample
      BY <2>1, <2>2 DEF NtpTypeOK
    <3> QED
      BY <2>2, <3>1, <3>2
  <2>4. recent \in Seq(Sample) /\ Len(recent) <= RAOP_NTP_DATA_COUNT
    BY DEF NtpTypeOK
  <2>5. /\ Len(recent') = IF Len(recent) < RAOP_NTP_DATA_COUNT THEN Len(recent) + 1
                                                             ELSE RAOP_NTP_DATA_COUNT
        /\ recent'[1] = sample
        /\ \A k \in 2 .. Len(recent') : recent'[k] = recent[k - 1]
    <3> DEFINE new == recent'
    <3>1. new = Newest(<<sample>> \o recent)
      BY <2>1
    <3> HIDE DEF new
    <3>2. Len(new) = IF Len(recent) < RAOP_NTP_DATA_COUNT THEN Len(recent) + 1
                                                        ELSE RAOP_NTP_DATA_COUNT
      BY <2>3, <2>4, <3>1, NewestIs
    <3>3. new[1] = sample
      BY <2>3, <2>4, <3>1, NewestIs
    <3>4. \A k \in 2 .. Len(new) : new[k] = recent[k - 1]
      BY <2>3, <2>4, <3>1, NewestIs
    <3> QED
      BY <3>2, <3>3, <3>4 DEF new
  <2>6. ASSUME NEW k \in 1 .. RAOP_NTP_DATA_COUNT
        PROVE  data'[IndexOfAge(k)'] = IF k <= Len(recent') THEN recent'[k] ELSE NoSample
    <3>1. CASE k = 1
      <4>1. IndexOfAge(k)' = NextIndex
        BY <2>2, <3>1 DEF IndexOfAge, Indices
      <4>2. 1 <= Len(recent')
        BY <2>4, <2>5
      <4> QED
        BY <2>1, <2>2, <2>5, <3>1, <4>1, <4>2 DEF NtpTypeOK
    <3>2. CASE k # 1
      <4>1. /\ k - 1 \in 1 .. RAOP_NTP_DATA_COUNT
            /\ IndexOfAge(k)' = IndexOfAge(k - 1) /\ IndexOfAge(k - 1) \in Indices
            /\ IndexOfAge(k - 1) # NextIndex
        BY <2>2, <3>2, NextIndexIs DEF IndexOfAge, Indices, NtpTypeOK
      <4>2. data'[IndexOfAge(k)'] = data[IndexOfAge(k - 1)]
        BY <2>1, <4>1 DEF NtpTypeOK
      <4>3. data[IndexOfAge(k - 1)] = IF k - 1 <= Len(recent) THEN recent[k - 1] ELSE NoSample
        BY <4>1 DEF RingInv
      <4>4. k <= Len(recent') <=> k - 1 <= Len(recent)
        BY <2>4, <2>5
      <4>5. Len(recent') \in Nat
        BY <2>4, <2>5
      <4> QED
        BY <2>5, <3>2, <4>2, <4>3, <4>4, <4>5
    <3> QED
      BY <3>1, <3>2
  <2>7. \E best \in Indices : IsBest(data', best) /\ sync_offset' = data'[best].offset
    BY <1>3 DEF ReceiveResponse, ReceiveAt
  <2> QED
    BY <2>6, <2>7 DEF RingInv, IsBest
<1>4. ASSUME ~Free, ~ReceiveResponse PROVE UNCHANGED syncvars
  <2>1. CASE Caller
    BY <1>4, <2>1 DEF Caller, StartTime, StopBegin, StopSignal, StopClose, StopJoin, StopMark
  <2>2. CASE Thread
    BY <1>4, <2>2 DEF Thread, Untimed, CheckRunning, SendRequest, SendAt, SendFails, ReceiveFails, Wait,
       ClearRunning, LogAndReturn
  <2>3. CASE Deliver
    BY <2>3 DEF Deliver
  <2>4. CASE UNCHANGED ntpvars
    BY <2>4 DEF ntpvars
  <2> QED
    BY <2>1, <2>2, <2>3, <2>4 DEF NtpNext
<1> QED
  BY <1>1, <1>2, <1>3, <1>4

LEMMA RingGivesBest == NtpTypeOK /\ RingInv => SyncedToBestRecent
<1> SUFFICES ASSUME NtpTypeOK, RingInv PROVE SyncedToBestRecent
  OBVIOUS
<1>1. \A k \in 1 .. RAOP_NTP_DATA_COUNT : IndexOfAge(k) \in Indices
  BY DEF IndexOfAge, Indices, NtpTypeOK
<1>2. ASSUME NEW i \in Indices PROVE data[i] \in LastSamples
  <2> DEFINE k == IF i <= data_index THEN data_index - i + 1
                                     ELSE data_index - i + 1 + RAOP_NTP_DATA_COUNT
  <2>1. k \in 1 .. RAOP_NTP_DATA_COUNT /\ IndexOfAge(k) = i
    BY DEF IndexOfAge, Indices, NtpTypeOK
  <2> HIDE DEF k
  <2>2. data[i] = IF k <= Len(recent) THEN recent[k] ELSE NoSample
    BY <2>1 DEF RingInv
  <2>3. CASE k <= Len(recent)
    <3>1. k \in DOMAIN recent
      BY <2>1, <2>3 DEF NtpTypeOK
    <3> QED
      BY <2>2, <2>3, <3>1 DEF LastSamples
  <2>4. CASE ~(k <= Len(recent))
    <3>1. Len(recent) < RAOP_NTP_DATA_COUNT
      BY <2>1, <2>4 DEF NtpTypeOK
    <3> QED
      BY <2>2, <2>4, <3>1 DEF LastSamples
  <2> QED
    BY <2>3, <2>4
<1>3. ASSUME NEW s \in LastSamples PROVE \E i \in Indices : s = data[i]
  <2>1. CASE \E k \in DOMAIN recent : s = recent[k]
    <3>1. PICK k \in DOMAIN recent : s = recent[k]
      BY <2>1
    <3>2. k \in 1 .. RAOP_NTP_DATA_COUNT /\ k <= Len(recent)
      BY DEF NtpTypeOK
    <3> QED
      BY <1>1, <3>1, <3>2 DEF RingInv
  <2>2. CASE s = NoSample /\ Len(recent) < RAOP_NTP_DATA_COUNT
    <3>1. RAOP_NTP_DATA_COUNT \in 1 .. RAOP_NTP_DATA_COUNT
      OBVIOUS
    <3>2. ~(RAOP_NTP_DATA_COUNT <= Len(recent))
      BY <2>2 DEF NtpTypeOK
    <3> QED
      BY <1>1, <2>2, <3>1, <3>2 DEF RingInv
  <2> QED
    BY <2>1, <2>2 DEF LastSamples
<1>4. PICK best \in Indices : IsBest(data, best) /\ sync_offset = data[best].offset
  BY DEF RingInv
<1>5. \A other \in LastSamples : data[best].delay <= other.delay
  BY <1>3, <1>4 DEF IsBest
<1> QED
  BY <1>2, <1>4, <1>5 DEF SyncedToBestRecent

(* The offset in use is that of a least delayed one of the last samples,   *)
(* for every ring size and whatever the network and the clocks do.         *)
THEOREM OffsetIsBestRecent == NtpSpec => []SyncedToBestRecent
<1>1. NtpSpec => []RingInv
  BY RingInit, RingStep, NtpTypeCorrect, PTL DEF NtpSpec
<1> QED
  BY <1>1, RingGivesBest, NtpTypeCorrect, PTL
=============================================================================
