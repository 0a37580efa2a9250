------------------------ MODULE RaopRtpMirrorProofs ------------------------
(***************************************************************************)
(* The life of a mirroring session, for every block length, header length, *)
(* client and pattern of partial reads.                                    *)
(***************************************************************************)
EXTENDS RaopRtpMirror, TLAPS, SequenceTheorems

USE DEF lifevars, framevars, clientvars
-----------------------------------------------------------------------------
LEMMA MirrorLifeInit == MirrorInit => MirrorLifeInv
BY DEF MirrorInit, MirrorLifeInv

LEMMA MirrorLifeStep == MirrorLifeInv /\ [MirrorNext]_sessionvars => MirrorLifeInv'
<1> SUFFICES ASSUME MirrorLifeInv, [MirrorNext]_sessionvars
             PROVE  MirrorLifeInv'
  OBVIOUS
<1>1. CASE SetKey
  BY <1>1 DEF SetKey, MirrorLifeInv
<1>2. CASE StartMirror
  BY <1>2 DEF StartMirror, MirrorLifeInv
<1>3. CASE StopBegin
  BY <1>3 DEF StopBegin, MirrorLifeInv
<1>4. CASE StopClose
  BY <1>4 DEF StopClose, MirrorLifeInv
<1>5. CASE StopJoin
  BY <1>5 DEF StopJoin, MirrorLifeInv
<1>6. CASE StopMark
  BY <1>6 DEF StopMark, MirrorLifeInv
<1>7. CASE Free
  BY <1>7 DEF Free, MirrorLifeInv
<1>8. CASE CheckRunning
  BY <1>8 DEF CheckRunning, MirrorLifeInv
<1>9. CASE Timeout
  BY <1>9 DEF Timeout, MirrorLifeInv
<1>10. CASE SelectFails
  BY <1>10 DEF SelectFails, Leave, MirrorLifeInv
<1>11. CASE HeaderComplete
  BY <1>11 DEF HeaderComplete, MirrorLifeInv
<1>12. CASE PayloadComplete
  BY <1>12 DEF PayloadComplete, MirrorLifeInv
<1>13. CASE Process
  BY <1>13 DEF Process, MirrorLifeInv
<1>14. CASE CloseStream
  BY <1>14 DEF CloseStream, MirrorLifeInv
<1>15. CASE ClearRunning
  BY <1>15 DEF ClearRunning, MirrorLifeInv
<1>16. CASE LogAndReturn
  BY <1>16 DEF LogAndReturn, MirrorLifeInv
<1>17. CASE Accept
  BY <1>17 DEF Accept, MirrorLifeInv
<1>18. CASE AcceptFails
  BY <1>18 DEF AcceptFails, Leave, MirrorLifeInv
<1>19. CASE StreamReady
  BY <1>19 DEF StreamReady, MirrorLifeInv
<1>20. CASE HeaderByte
  BY <1>20 DEF HeaderByte, MirrorLifeInv
<1>21. CASE HeaderClosed
  BY <1>21 DEF HeaderClosed, MirrorLifeInv
<1>22. CASE RecvFails
  BY <1>22 DEF RecvFails, Leave, MirrorLifeInv
<1>23. CASE PayloadByte
  BY <1>23 DEF PayloadByte, MirrorLifeInv
<1>24. CASE PayloadClosed
  BY <1>24 DEF PayloadClosed, Leave, MirrorLifeInv
<1>25. CASE UNCHANGED sessionvars
  BY <1>25 DEF sessionvars, MirrorLifeInv
<1> QED
  BY <1>1, <1>2, <1>3, <1>4, <1>5, <1>6, <1>7, <1>8, <1>9, <1>10, <1>11, <1>12, <1>13,
     <1>14, <1>15, <1>16, <1>17, <1>18, <1>19, <1>20, <1>21, <1>22, <1>23, <1>24,
     <1>25 DEF MirrorNext, Caller, OwnStep, ClientStep

(* At each point of a session's life, who may still be using it.           *)
THEOREM MirrorLifeKept == MirrorSpec => []MirrorLifeInv
BY MirrorLifeInit, MirrorLifeStep, PTL DEF MirrorSpec

(* Unless its thread ended by itself, a session is freed after its thread  *)
(* and with its listening socket closed.                                   *)
THEOREM MirrorFreedAfterThread == MirrorSpec => []FreedAfterThread
<1>1. MirrorLifeInv => FreedAfterThread
  BY DEF MirrorLifeInv, FreedAfterThread
<1> QED
  BY <1>1, MirrorLifeKept, PTL
-----------------------------------------------------------------------------
(* The session implements the safety part of Worker: every step starts,    *)
(* asks, fails, ends or frees the service, or is not visible.              *)
THEOREM MirrorIsAWorker == MirrorSpec => MirrorsAsPromised
<1>1. MirrorInit => Service!Init
  BY DEF MirrorInit, Service!Init, MirrorLife
<1>2. MirrorLifeInv /\ [MirrorNext]_sessionvars => [Service!Next]_Service!wvars
  <2> SUFFICES ASSUME MirrorLifeInv, [MirrorNext]_sessionvars
               PROVE  Service!Next \/ UNCHANGED Service!wvars
    OBVIOUS
  <2> USE DEF Service!wvars
  <2>1. CASE SetKey \/ StopClose \/ StopJoin
    BY <2>1 DEF SetKey, StopClose, StopJoin, MirrorLife
  <2>2. CASE StartMirror
    BY <2>2 DEF StartMirror, MirrorLife, MirrorLifeInv, Service!Next, Service!Start
  <2>3. CASE StopBegin
    BY <2>3 DEF StopBegin, MirrorLife, MirrorLifeInv, Service!Next, Service!AskToStop
  <2>4. CASE StopMark
    BY <2>4 DEF StopMark, MirrorLife, MirrorLifeInv, Service!Next, Service!Stopped
  <2>5. CASE Free
    BY <2>5 DEF Free, MirrorLife, MirrorLifeInv, Service!Next, Service!Free
  <2>6. CASE ClearRunning
    <3>1. CASE running
      BY <2>6, <3>1 DEF ClearRunning, MirrorLife, MirrorLifeInv, Service!Next, Service!Fail
    <3>2. CASE ~running
      BY <2>6, <3>2 DEF ClearRunning, MirrorLife, MirrorLifeInv
    <3> QED
      BY <3>1, <3>2 DEF MirrorLifeInv
  <2>7. CASE LogAndReturn
    BY <2>7 DEF LogAndReturn, MirrorLife, MirrorLifeInv, Service!Next, Service!ThreadEnds
  <2>8. CASE \/ CheckRunning \/ Timeout \/ SelectFails \/ HeaderComplete \/ PayloadComplete
             \/ Process \/ CloseStream \/ ClientStep
    <3>1. at # "gone" /\ at' # "gone" /\ UNCHANGED <<running, joined, caller>>
      BY <2>8 DEF CheckRunning, Timeout, SelectFails, HeaderComplete, PayloadComplete, Process,
           CloseStream, ClientStep, Accept, AcceptFails, StreamReady, HeaderByte, HeaderClosed,
           RecvFails, PayloadByte, PayloadClosed, Leave
    <3> QED
      BY <3>1 DEF MirrorLife
  <2>9. CASE UNCHANGED sessionvars
    BY <2>9 DEF sessionvars, MirrorLife
  <2> QED
    BY <2>1, <2>2, <2>3, <2>4, <2>5, <2>6, <2>7, <2>8, <2>9 DEF MirrorNext, Caller, OwnStep
<1> QED
  BY <1>1, <1>2, MirrorLifeKept, PTL DEF MirrorSpec, MirrorsAsPromised, Service!Safe
-----------------------------------------------------------------------------
(* Arithmetic modulo the length of the key stream, the only nonlinear      *)
(* facts of the module.                                                    *)
LEMMA ModFacts ==
  ASSUME NEW a \in Int, NEW n \in Nat \ {0}
  PROVE  a % n \in 0 .. n - 1 /\ a \div n \in Int /\ a = n * (a \div n) + (a % n)
BY Z3

LEMMA FurtherMultiple ==
  ASSUME NEW n \in Nat \ {0}, NEW p \in Int, NEW q \in Int, p > q
  PROVE  n * p >= n * q + n
<1>1. PICK d \in Nat : p = q + 1 + d
  <2>1. p - q - 1 \in Nat /\ p = q + 1 + (p - q - 1)
    OBVIOUS
  <2>2. QED
    BY <2>1
<1>2. n * p = n * q + n + n * d /\ n * d >= 0
  BY <1>1, Z3
<1>3. n * p \in Int /\ n * q \in Int /\ n * d \in Int
  BY <1>1, Z3
<1>4. QED
  BY <1>2, <1>3

LEMMA ModIs ==
  ASSUME NEW a \in Int, NEW n \in Nat \ {0}, NEW q \in Int, NEW r \in 0 .. n - 1, a = n * q + r
  PROVE  a % n = r
<1> DEFINE p == a \div n
           t == a % n
<1>1. p \in Int /\ t \in 0 .. n - 1 /\ a = n * p + t
  BY ModFacts
<1> HIDE DEF p, t
<1>2. n * p \in Int /\ n * q \in Int
  BY <1>1, Z3
<1>3. ~(p > q)
  <2>1. p > q => n * p >= n * q + n
    BY <1>1, FurtherMultiple
  <2>2. QED
    BY <1>1, <1>2, <2>1
<1>4. ~(q > p)
  <2>1. q > p => n * q >= n * p + n
    BY <1>1, FurtherMultiple
  <2>2. QED
    BY <1>1, <1>2, <2>1
<1>5. p = q
  BY <1>1, <1>3, <1>4
<1>6. t = r
  BY <1>1, <1>2, <1>5
<1>7. QED
  BY <1>6 DEF t

LEMMA SameMod ==
  ASSUME NEW a \in Int, NEW b \in Int, NEW n \in Nat \ {0}, NEW q \in Int, a = b + n * q
  PROVE  a % n = b % n
<1>1. b % n \in 0 .. n - 1 /\ b \div n \in Int /\ b = n * (b \div n) + (b % n)
  BY ModFacts
<1> DEFINE p == b \div n
           r == b % n
<1>2. p \in Int /\ r \in 0 .. n - 1 /\ b = n * p + r
  BY <1>1
<1> HIDE DEF p, r
<1>3. n * (p + q) = n * p + n * q
  BY <1>2, Z3
<1>4. n * p \in Int /\ n * q \in Int /\ n * (p + q) \in Int
  BY <1>2, Z3
<1>5. a = n * (p + q) + r /\ p + q \in Int
  BY <1>2, <1>3, <1>4
<1>6. a % n = r
  BY <1>2, <1>5, ModIs
<1>7. QED
  BY <1>6 DEF r

(* Two positions differ by whole turns of the key stream.                  *)
Turns(a, b) == \E q \in Int : a = b + KeyLength * q

LEMMA KeyLengthFacts ==
  KeyLength \in Nat \ {0} /\ Block \in Nat \ {0} /\ Blocks \in Nat \ {0}
BY BlockAssumption, Z3 DEF KeyLength

LEMMA TurnsSame ==
  ASSUME NEW a \in Int, NEW b \in Int, Turns(a, b)
  PROVE  a % KeyLength = b % KeyLength
<1>1. PICK q \in Int : a = b + KeyLength * q
  BY DEF Turns
<1>2. QED
  BY <1>1, KeyLengthFacts, SameMod

LEMMA TurnsOfMod ==
  ASSUME NEW a \in Int
  PROVE  Turns((a % KeyLength), a) /\ Turns(a, a % KeyLength) /\ a % KeyLength \in 0 .. KeyLength - 1
<1> DEFINE n == KeyLength
<1>1. a % n \in 0 .. n - 1 /\ a \div n \in Int /\ a = n * (a \div n) + (a % n)
  BY ModFacts, KeyLengthFacts
<1>2. n * (a \div n) \in Int /\ n * (-(a \div n)) = -(n * (a \div n)) /\ n \in Nat
  BY <1>1, KeyLengthFacts, Z3
<1> HIDE DEF n
<1>3. (a % n) = a + n * (-(a \div n)) /\ -(a \div n) \in Int
  BY <1>1, <1>2
<1>4. a = (a % n) + n * (a \div n)
  BY <1>1, <1>2
<1>5. QED
  BY <1>1, <1>3, <1>4 DEF Turns, n

LEMMA TurnsShift ==
  ASSUME NEW a \in Int, NEW b \in Int, NEW c \in Int, Turns(a, b)
  PROVE  Turns(a + c, b + c)
<1>1. PICK q \in Int : a = b + KeyLength * q
  BY DEF Turns
<1>2. KeyLength * q \in Int
  BY KeyLengthFacts, Z3
<1>3. a + c = b + c + KeyLength * q
  BY <1>1, <1>2
<1>4. QED
  BY <1>3 DEF Turns

LEMMA TurnsTrans ==
  ASSUME NEW a \in Int, NEW b \in Int, NEW c \in Int, Turns(a, b), Turns(b, c)
  PROVE  Turns(a, c)
<1>1. PICK p \in Int : a = b + KeyLength * p
  BY DEF Turns
<1>2. PICK q \in Int : b = c + KeyLength * q
  BY DEF Turns
<1>3. KeyLength * p \in Int /\ KeyLength * q \in Int /\ KeyLength * (p + q) = KeyLength * p + KeyLength * q
  BY KeyLengthFacts, Z3
<1>4. a = c + KeyLength * (p + q) /\ p + q \in Int
  BY <1>1, <1>2, <1>3
<1>5. QED
  BY <1>4 DEF Turns

(* The place of a block whose number came round.                           *)
LEMMA TurnsOfBlock ==
  ASSUME NEW m \in Int
  PROVE  /\ m % Blocks \in 0 .. Blocks - 1
         /\ (m % Blocks) * Block \in Int /\ m * Block \in Int
         /\ Turns((m % Blocks) * Block, m * Block)
<1>1. m % Blocks \in 0 .. Blocks - 1 /\ m \div Blocks \in Int /\ m = Blocks * (m \div Blocks) + (m % Blocks)
  BY ModFacts, KeyLengthFacts
<1> DEFINE r == m % Blocks
           d == m \div Blocks
<1>2. r \in 0 .. Blocks - 1 /\ d \in Int /\ m = Blocks * d + r
  BY <1>1
<1> HIDE DEF r, d
<1>3. r * Block = m * Block + (Block * Blocks) * (-d)
  <2>1. m * Block = (Blocks * d) * Block + r * Block
    BY <1>2, KeyLengthFacts, Z3
  <2>2. (Block * Blocks) * (-d) = -((Blocks * d) * Block)
    BY <1>2, KeyLengthFacts, Z3
  <2>3. r * Block \in Int /\ (Blocks * d) * Block \in Int
    BY <1>2, KeyLengthFacts, Z3
  <2>4. QED
    BY <2>1, <2>2, <2>3
<1>4. r * Block \in Int /\ m * Block \in Int /\ -d \in Int
  BY <1>2, KeyLengthFacts, Z3
<1>5. QED
  BY <1>2, <1>3, <1>4 DEF Turns, KeyLength, r
-----------------------------------------------------------------------------
(* The decryption, for every block length and every length of payload.     *)
LEMMA FunctionIsSeq ==
  ASSUME NEW S, NEW n \in Nat, NEW s \in [1 .. n -> S]
  PROVE  s \in Seq(S) /\ Len(s) = n /\ DOMAIN s = 1 .. n
OBVIOUS

LEMMA TurnsInside ==
  ASSUME NEW a \in 0 .. KeyLength - 1
  PROVE  a % KeyLength = a
<1>1. a = KeyLength * 0 + a
  BY KeyLengthFacts, Z3
<1>2. QED
  BY <1>1, KeyLengthFacts, ModIs

LEMMA BlockInside ==
  ASSUME NEW b \in 0 .. Blocks - 1, NEW k \in 0 .. Block - 1
  PROVE  b * Block + k \in 0 .. KeyLength - 1
<1>1. Block * Blocks >= Block * b + Block
  BY KeyLengthFacts, FurtherMultiple
<1>2. b * Block = Block * b /\ b * Block \in Nat
  BY KeyLengthFacts, Z3
<1>3. KeyLength = Block * Blocks /\ KeyLength \in Nat /\ Block \in Nat \ {0}
  BY KeyLengthFacts DEF KeyLength
<1>4. QED
  BY <1>1, <1>2, <1>3

LEMMA Lengths ==
  ASSUME MirrorBufferTypeOK, NEW len \in Nat
  PROVE  /\ WholeBlocks(len) \in Nat
         /\ RestLength(len) \in 0 .. Block - 1
         /\ WholeBlocks(len) * Block \in Nat
         /\ len >= nextDecryptCount =>
              len = nextDecryptCount + WholeBlocks(len) * Block + RestLength(len)
<1> DEFINE m == len - nextDecryptCount
<1>1. CASE len >= nextDecryptCount
  <2>1. m \in Nat
    BY <1>1 DEF MirrorBufferTypeOK
  <2> HIDE DEF m
  <2>2. m % Block \in 0 .. Block - 1 /\ m \div Block \in Nat
    BY <2>1, KeyLengthFacts, Z3
  <2>3. m = Block * (m \div Block) + (m % Block)
    BY <2>1, KeyLengthFacts, ModFacts
  <2>4. (m \div Block) * Block \in Nat /\ Block * (m \div Block) = (m \div Block) * Block
    BY <2>2, KeyLengthFacts, Z3
  <2>5. WholeBlocks(len) = m \div Block /\ RestLength(len) = m % Block
    BY <1>1 DEF WholeBlocks, RestLength, m
  <2>6. len = nextDecryptCount + m /\ nextDecryptCount \in Nat
    BY DEF m, MirrorBufferTypeOK
  <2>7. len = nextDecryptCount + (m \div Block) * Block + (m % Block)
    BY <2>1, <2>2, <2>3, <2>4, <2>6
  <2>8. QED
    BY <2>2, <2>4, <2>5, <2>7
<1>2. CASE ~(len >= nextDecryptCount)
  BY <1>2, KeyLengthFacts DEF WholeBlocks, RestLength
<1>3. QED
  BY <1>1, <1>2

LEMMA KeyUsedFacts ==
  ASSUME MirrorBufferTypeOK, NEW len \in Nat
  PROVE  /\ KeyUsed(len) \in Seq(0 .. KeyLength - 1)
         /\ Len(KeyUsed(len)) = nextDecryptCount + WholeBlocks(len) * Block + RestLength(len)
         /\ \A k \in 1 .. Len(KeyUsed(len)) :
              KeyUsed(len)[k] =
                IF k <= nextDecryptCount
                  THEN og_block * Block + (Block - nextDecryptCount) + k - 1
                  ELSE (next_block * Block + (k - nextDecryptCount) - 1) % KeyLength
<1> DEFINE K == 0 .. KeyLength - 1
           n == WholeBlocks(len) * Block + RestLength(len)
<1>1. n \in Nat /\ nextDecryptCount \in 0 .. Block - 1 /\ Block \in Nat
  <2>1. WholeBlocks(len) * Block \in Nat /\ RestLength(len) \in 0 .. Block - 1
    BY Lengths
  <2>2. Block \in Nat /\ nextDecryptCount \in 0 .. Block - 1
    BY KeyLengthFacts DEF MirrorBufferTypeOK
  <2>3. n \in Nat
    BY <2>1, <2>2
  <2>4. QED
    BY <2>2, <2>3
<1>2. og_block \in 0 .. Blocks - 1 /\ og_block * Block \in Int /\ next_block * Block \in Int
  BY KeyLengthFacts, Z3 DEF MirrorBufferTypeOK
<1>3. ASSUME NEW k \in 1 .. nextDecryptCount
      PROVE  og_block * Block + (Block - nextDecryptCount) + k - 1 \in K
  <2>1. (Block - nextDecryptCount) + k - 1 \in 0 .. Block - 1
    BY <1>1
  <2>2. og_block * Block + ((Block - nextDecryptCount) + k - 1) \in K
    BY <1>2, <2>1, BlockInside
  <2>3. QED
    BY <1>1, <1>2, <2>2
<1>4. FromOg \in [1 .. nextDecryptCount -> K]
  BY <1>3 DEF FromOg
<1>5. ASSUME NEW k \in 1 .. n
      PROVE  (next_block * Block + k - 1) % KeyLength \in K
  <2>1. next_block * Block + k - 1 \in Int
    BY <1>1, <1>2
  <2>2. QED
    BY <2>1, TurnsOfMod
<1>6. FromCipher(len) \in [1 .. n -> K]
  BY <1>5 DEF FromCipher
<1> HIDE DEF K
<1>7. FromOg \in Seq(K) /\ Len(FromOg) = nextDecryptCount
  BY <1>1, <1>4, FunctionIsSeq
<1>8. FromCipher(len) \in Seq(K) /\ Len(FromCipher(len)) = n
  BY <1>1, <1>6, FunctionIsSeq
<1> DEFINE og == FromOg
           cipher == FromCipher(len)
<1> HIDE DEF og, cipher, n
<1>9. /\ KeyUsed(len) \in Seq(K)
      /\ Len(KeyUsed(len)) = nextDecryptCount + n
      /\ \A k \in 1 .. nextDecryptCount + n :
           KeyUsed(len)[k] = IF k <= nextDecryptCount THEN FromOg[k]
                             ELSE FromCipher(len)[k - nextDecryptCount]
  <2>1. og \in Seq(K) /\ Len(og) = nextDecryptCount /\ cipher \in Seq(K) /\ Len(cipher) = n
    BY <1>7, <1>8 DEF og, cipher
  <2>2. /\ og \o cipher \in Seq(K)
        /\ Len(og \o cipher) = nextDecryptCount + n
        /\ \A k \in 1 .. nextDecryptCount + n :
             (og \o cipher)[k] = IF k <= nextDecryptCount THEN og[k]
                                 ELSE cipher[k - nextDecryptCount]
    BY <2>1, ConcatProperties
  <2>3. QED
    BY <2>2, Zenon DEF KeyUsed, og, cipher
<1>10. ASSUME NEW k \in 1 .. nextDecryptCount + n, k <= nextDecryptCount
       PROVE  FromOg[k] = og_block * Block + (Block - nextDecryptCount) + k - 1
  <2>1. k \in 1 .. nextDecryptCount
    BY <1>1, <1>10
  <2>2. QED
    BY <2>1 DEF FromOg
<1>11. ASSUME NEW k \in 1 .. nextDecryptCount + n, ~(k <= nextDecryptCount)
       PROVE  FromCipher(len)[k - nextDecryptCount]
                = (next_block * Block + (k - nextDecryptCount) - 1) % KeyLength
  <2>1. k - nextDecryptCount \in 1 .. n
    BY <1>1, <1>11
  <2>2. QED
    BY <2>1 DEF FromCipher, n
<1>12. nextDecryptCount + n = nextDecryptCount + WholeBlocks(len) * Block + RestLength(len)
  BY <1>1, Lengths DEF n
<1>13. QED
  BY <1>9, <1>10, <1>11, <1>12 DEF K

LEMMA DecryptType ==
  ASSUME MirrorBufferTypeOK, NEW len \in Nat, Decrypt(len)
  PROVE  MirrorBufferTypeOK'
<1>1. LeftOver(len) \in 0 .. Block - 1
  BY Lengths, KeyLengthFacts DEF LeftOver
<1>2. key_used' \in Seq(0 .. KeyLength - 1)
  BY KeyUsedFacts DEF Decrypt
<1>3. ASSUME NEW m \in Int PROVE m % Blocks \in 0 .. Blocks - 1
  BY KeyLengthFacts, ModFacts
<1>4. next_block \in Int /\ WholeBlocks(len) \in Int
  BY Lengths DEF MirrorBufferTypeOK
<1>5. /\ (next_block + WholeBlocks(len)) % Blocks \in 0 .. Blocks - 1
      /\ (next_block + WholeBlocks(len) + 1) % Blocks \in 0 .. Blocks - 1
  BY <1>3, <1>4
<1>6. (decrypted + len) % KeyLength \in 0 .. KeyLength - 1
  <2>1. decrypted + len \in Int
    BY DEF MirrorBufferTypeOK
  <2>2. QED
    BY <2>1, TurnsOfMod
<1>7. short' \in BOOLEAN
  BY Zenon DEF Decrypt, MirrorBufferTypeOK
<1>8. next_block' \in 0 .. Blocks - 1 /\ og_block' \in 0 .. Blocks - 1
  BY <1>5 DEF Decrypt, MirrorBufferTypeOK
<1>9. decrypted' \in 0 .. KeyLength - 1 /\ nextDecryptCount' \in 0 .. Block - 1
  BY <1>1, <1>6 DEF Decrypt
<1>10. QED
  BY <1>2, <1>7, <1>8, <1>9, Zenon DEF MirrorBufferTypeOK

(* The next key byte the sender uses, however the blocks are counted.      *)
LEMMA DecryptKey ==
  ASSUME MirrorBufferTypeOK, KeyInv, NEW len \in Nat, Decrypt(len)
  PROVE  KeyInv'
<1> SUFFICES ASSUME ~short'
             PROVE  /\ decrypted' = (next_block' * Block - nextDecryptCount') % KeyLength
                    /\ nextDecryptCount' > 0 => og_block' = (next_block' - 1) % Blocks
  BY DEF KeyInv
<1> DEFINE w == WholeBlocks(len)
           r == RestLength(len)
           c == nextDecryptCount
           b == next_block
           d == decrypted
<1>1. ~short /\ len >= c
  <2>1. ~short /\ ~(len < nextDecryptCount)
    BY Zenon DEF Decrypt
  <2>2. QED
    BY <2>1 DEF MirrorBufferTypeOK
<1>2. /\ w \in Nat /\ r \in 0 .. Block - 1 /\ w * Block \in Nat
      /\ len = c + w * Block + r
  BY <1>1, Lengths
<1>3. c \in 0 .. Block - 1 /\ b \in 0 .. Blocks - 1 /\ d \in 0 .. KeyLength - 1 /\ Block \in Nat \ {0}
  BY KeyLengthFacts DEF MirrorBufferTypeOK
<1>4. d = (b * Block - c) % KeyLength
  BY <1>1 DEF KeyInv
<1>5. /\ decrypted' = (d + len) % KeyLength
      /\ r > 0 => /\ og_block' = (b + w) % Blocks
                  /\ next_block' = (b + w + 1) % Blocks
                  /\ nextDecryptCount' = Block - r
      /\ ~(r > 0) => next_block' = (b + w) % Blocks /\ nextDecryptCount' = 0
  BY DEF Decrypt, LeftOver
<1> HIDE DEF w, r, c, b, d
<1>6. /\ b * Block \in Int /\ (b + w) * Block = b * Block + w * Block
      /\ (b + w + 1) * Block = b * Block + w * Block + Block
  BY <1>2, <1>3, Z3
<1>7. Turns(d + len, b * Block + w * Block + r)
  <2> DEFINE s == b * Block - c
  <2>1. s \in Int /\ s + len = b * Block + w * Block + r /\ d \in Int /\ len \in Int
    BY <1>2, <1>3, <1>6
  <2>2. Turns(d, s)
    BY <1>4, <2>1, TurnsOfMod
  <2> HIDE DEF s
  <2>3. Turns(d + len, s + len)
    BY <2>1, <2>2, TurnsShift
  <2>4. s + len = b * Block + w * Block + r
    BY <2>1
  <2>5. QED
    BY <2>3, <2>4
<1>8. CASE r > 0
  <2> DEFINE nb == (b + w + 1) % Blocks
             p == nb * Block
             q == b * Block + w * Block + r
  <2>1. p \in Int /\ Turns(p, (b + w + 1) * Block)
    BY <1>2, <1>3, TurnsOfBlock
  <2>2. q \in Int /\ (b + w + 1) * Block \in Int /\ (b + w + 1) * Block + (-(Block - r)) = q
    BY <1>2, <1>3, <1>6
  <2>3. next_block' * Block = p
    BY <1>5, <1>8
  <2> HIDE DEF p, nb
  <2>4. -(Block - r) \in Int
    BY <1>2, <1>3
  <2>5. Turns(p + (-(Block - r)), q)
    BY <2>1, <2>2, <2>4, TurnsShift
  <2> HIDE DEF q
  <2>6. (p + (-(Block - r))) % KeyLength = q % KeyLength
    BY <2>1, <2>2, <2>4, <2>5, TurnsSame
  <2>7. (d + len) % KeyLength = q % KeyLength
    BY <1>3, <1>7, <2>2, TurnsSame DEF q
  <2>8. next_block' * Block - nextDecryptCount' = p + (-(Block - r))
    BY <1>2, <1>3, <1>5, <1>8, <2>1, <2>3
  <2>9. decrypted' = (next_block' * Block - nextDecryptCount') % KeyLength
    BY <1>5, <2>6, <2>7, <2>8
  <2>10. og_block' = (next_block' - 1) % Blocks
    <3> DEFINE m == b + w + 1
    <3>1. m \in Int /\ m % Blocks \in Int /\ m \div Blocks \in Int
          /\ m = Blocks * (m \div Blocks) + (m % Blocks)
      BY <1>2, <1>3, KeyLengthFacts, ModFacts
    <3>2. PICK t \in Int, x \in Int : x = m % Blocks /\ m = Blocks * t + x
      BY <3>1
    <3>3. b + w = (x - 1) + Blocks * t
      <4>1. Blocks * t \in Int
        BY <3>2, KeyLengthFacts, Z3
      <4>2. b + w + 1 = Blocks * t + x /\ b \in Int /\ w \in Int
        BY <1>2, <1>3, <3>2
      <4>3. QED
        BY <3>2, <4>1, <4>2
    <3>4. (b + w) % Blocks = (x - 1) % Blocks
      <4> DEFINE f == b + w
                 g == x - 1
      <4>1. f \in Int /\ g \in Int /\ f = g + Blocks * t /\ Blocks \in Nat \ {0}
        BY <1>2, <1>3, <3>2, <3>3, KeyLengthFacts
      <4> HIDE DEF f, g
      <4>2. f % Blocks = g % Blocks
        BY <4>1, SameMod
      <4>3. QED
        BY <4>2 DEF f, g
    <3>5. QED
      BY <1>5, <1>8, <3>2, <3>4
  <2>11. QED
    BY <2>9, <2>10
<1>9. CASE ~(r > 0)
  <2> DEFINE nb == (b + w) % Blocks
             p == nb * Block
             q == b * Block + w * Block
  <2>1. p \in Int /\ Turns(p, (b + w) * Block)
    BY <1>2, <1>3, TurnsOfBlock
  <2>2. q \in Int /\ (b + w) * Block = q /\ b * Block + w * Block + r = q
    BY <1>2, <1>3, <1>6, <1>9
  <2>3. next_block' * Block = p
    BY <1>5, <1>9
  <2> HIDE DEF p, nb, q
  <2>4. p % KeyLength = q % KeyLength
    BY <2>1, <2>2, TurnsSame
  <2>5. (d + len) % KeyLength = q % KeyLength
    BY <1>3, <1>7, <2>2, TurnsSame
  <2>6. next_block' * Block - nextDecryptCount' = p
    BY <1>5, <1>9, <2>1, <2>3
  <2>7. ~(nextDecryptCount' > 0)
    BY <1>5, <1>9
  <2>8. QED
    BY <1>5, <2>4, <2>5, <2>6, <2>7
<1>10. QED
  BY <1>8, <1>9

LEMMA DecryptBytes ==
  ASSUME MirrorBufferTypeOK, KeyInv, NEW len \in Nat, Decrypt(len)
  PROVE  DecryptsInStep'
<1> DEFINE w == WholeBlocks(len)
           r == RestLength(len)
           c == nextDecryptCount
           b == next_block
           d == decrypted
           o == og_block
<1> SUFFICES ASSUME ~short', NEW k \in 1 .. Len(KeyUsed(len))
             PROVE  KeyUsed(len)[k]
                      = (((d + len) % KeyLength) - Len(KeyUsed(len)) + k - 1) % KeyLength
  <2>1. DOMAIN KeyUsed(len) = 1 .. Len(KeyUsed(len))
    BY KeyUsedFacts, LenProperties
  <2>2. key_used' = KeyUsed(len) /\ decrypted' = (d + len) % KeyLength
    BY DEF Decrypt
  <2>3. QED
    BY <2>1, <2>2, Zenon DEF DecryptsInStep
<1>1. ~short /\ len >= c
  <2>1. ~short /\ ~(len < nextDecryptCount)
    BY Zenon DEF Decrypt
  <2>2. QED
    BY <2>1 DEF MirrorBufferTypeOK
<1>2. Len(KeyUsed(len)) = len
  BY <1>1, KeyUsedFacts, Lengths, Zenon
<1>3. /\ c \in 0 .. Block - 1 /\ b \in 0 .. Blocks - 1 /\ d \in 0 .. KeyLength - 1
      /\ o \in 0 .. Blocks - 1 /\ Block \in Nat \ {0} /\ Blocks \in Nat \ {0}
  BY KeyLengthFacts DEF MirrorBufferTypeOK
<1>4. /\ d = (b * Block - c) % KeyLength
      /\ c > 0 => o = (b - 1) % Blocks
  BY <1>1 DEF KeyInv
<1>5. KeyUsed(len)[k] = IF k <= c THEN o * Block + (Block - c) + k - 1
                        ELSE (b * Block + (k - c) - 1) % KeyLength
  BY KeyUsedFacts
<1>6. k \in Int /\ 1 <= k
  BY <1>2
<1> DEFINE here == b * Block - c + (k - 1)
           e == (d + len) % KeyLength
<1> HIDE DEF w, r, c, b, d, o
<1>7. b * Block \in Int /\ o * Block \in Int /\ (b - 1) * Block = b * Block - Block
  BY <1>3, Z3
<1>8. here \in Int /\ b * Block - c \in Int /\ d + len \in Int /\ d \in Int
  BY <1>3, <1>6, <1>7
<1>9. (e - len + k - 1) % KeyLength = here % KeyLength
  <2> DEFINE s == b * Block - c
             z == d + len
             u == -len + k - 1
             v == k - 1
  <2>a. /\ z \in Int /\ s \in Int /\ u \in Int /\ v \in Int /\ z + u = d + v
        /\ here = s + v /\ e = z % KeyLength /\ d = s % KeyLength
    BY <1>4, <1>6, <1>8
  <2>b. e + u = e - len + k - 1 \/ e \notin Int
    BY <1>6 DEF u
  <2> HIDE DEF e, s, z, u, v
  <2>1. e \in Int /\ Turns(e, z)
    BY <2>a, TurnsOfMod
  <2>2. Turns(d, s)
    BY <2>a, TurnsOfMod
  <2>3. Turns(d + v, here)
    BY <1>8, <2>a, <2>2, TurnsShift
  <2>4. Turns(e + u, z + u)
    BY <2>a, <2>1, TurnsShift
  <2>5. /\ z + u = d + v /\ e + u = e - len + k - 1
        /\ e - len + k - 1 \in Int /\ d + v \in Int
    <3>1. e - len + k - 1 \in Int /\ e \in Int
      BY <1>6, <2>1
    <3>2. d + v \in Int
      BY <1>8, <2>a
    <3>3. QED
      BY <2>a, <2>b, <3>1, <3>2
  <2>6. Turns(e - len + k - 1, d + v)
    BY <2>4, <2>5
  <2> HIDE DEF here
  <2>7. Turns(e - len + k - 1, here)
    BY <1>8, <2>3, <2>5, <2>6, TurnsTrans
  <2>8. QED
    BY <1>8, <2>5, <2>7, TurnsSame
<1>10. CASE k <= c
  <2> DEFINE y == o * Block + (Block - c + k - 1)
  <2>1. o = (b - 1) % Blocks /\ b - 1 \in Int
    BY <1>3, <1>4, <1>6, <1>10
  <2>2. Turns(o * Block, (b - 1) * Block)
    BY <2>1, TurnsOfBlock
  <2>3. Block - c + k - 1 \in 0 .. Block - 1
    BY <1>3, <1>6, <1>10
  <2>4. y \in 0 .. KeyLength - 1
    BY <1>3, <2>3, BlockInside
  <2>5. Turns(y, here)
    <3> DEFINE f == o * Block
               g == (b - 1) * Block
               h == Block - c + k - 1
    <3>1. f \in Int /\ g \in Int /\ h \in Int /\ y = f + h /\ here = g + h
      BY <1>3, <1>6, <1>7, <2>3
    <3> HIDE DEF f, g, h, y, here
    <3>2. Turns(f, g)
      BY <2>2 DEF f, g
    <3>3. QED
      BY <3>1, <3>2, TurnsShift
  <2>7. KeyUsed(len)[k] = y
    BY <1>3, <1>5, <1>6, <1>7, <1>10
  <2> HIDE DEF y, here
  <2>8. y \in Int
    BY <2>4, KeyLengthFacts
  <2>9. y % KeyLength = here % KeyLength
    BY <1>8, <2>5, <2>8, TurnsSame
  <2>10. y % KeyLength = y
    BY <2>4, TurnsInside
  <2>11. QED
    BY <1>2, <1>9, <2>7, <2>9, <2>10
<1>11. CASE ~(k <= c)
  <2>1. b * Block + (k - c) - 1 = here
    BY <1>3, <1>6, <1>7
  <2>2. QED
    BY <1>2, <1>5, <1>9, <1>11, <2>1
<1>12. QED
  BY <1>10, <1>11
-----------------------------------------------------------------------------
(* The frames, and what one invariant makes of the whole session.          *)
MirrorInv == MirrorTypeOK /\ FrameInv /\ KeyInv /\ DecryptsInStep

(* The parts of the type invariant: what is true or false, and the rest.   *)
Flags ==
  /\ running \in BOOLEAN /\ joined \in BOOLEAN /\ listening \in BOOLEAN
  /\ stream \in BOOLEAN /\ self_exit \in BOOLEAN
Values ==
  /\ at \in {"gone", "check", "select", "header", "payload", "process", "close", "clear", "log"}
  /\ packet \in [1 .. HeaderLength -> Byte]
  /\ payload = NULL \/ payload \in Seq(Byte)
  /\ readstart \in Nat
  /\ caller \in {"idle", "starting", "closing", "joining", "marking", "free"}
  /\ frame \in Frame /\ sent \in Nat
  /\ expected \in 0 .. Numbers - 1

LEMMA TypeParts == MirrorTypeOK <=> MirrorBufferTypeOK /\ Flags /\ Values
BY Zenon DEF MirrorTypeOK, Flags, Values

LEMMA ConstantFacts ==
  /\ HeaderLength \in Nat \ {0} /\ Sizes \subseteq Nat /\ Numbers \in Nat \ {0}
  /\ Zero \in Byte /\ NoHeader \in [1 .. HeaderLength -> Byte] /\ NULL \notin Seq(Byte)
BY MirrorAssumption DEF Byte, Zero, NoHeader

LEMMA NewKey ==
  InitAes => MirrorBufferTypeOK' /\ KeyInv' /\ DecryptsInStep'
<1> SUFFICES ASSUME InitAes PROVE MirrorBufferTypeOK' /\ KeyInv' /\ DecryptsInStep'
  OBVIOUS
<1>1. 0 \in 0 .. Blocks - 1 /\ 0 \in 0 .. Block - 1 /\ 0 \in 0 .. KeyLength - 1
  BY KeyLengthFacts
<1>2. MirrorBufferTypeOK'
  BY <1>1, EmptySeq DEF InitAes, MirrorBufferTypeOK
<1>3. (0 * Block - 0) % KeyLength = 0
  <2>1. 0 * Block - 0 = 0
    BY KeyLengthFacts, Z3
  <2>2. QED
    BY <1>1, <2>1, TurnsInside
<1>4. KeyInv'
  BY <1>3 DEF InitAes, KeyInv
<1>5. DecryptsInStep'
  BY EmptySeq DEF InitAes, DecryptsInStep
<1>6. QED
  BY <1>2, <1>4, <1>5

LEMMA SameKey ==
  ASSUME MirrorBufferTypeOK, KeyInv, DecryptsInStep, UNCHANGED mirrorvars
  PROVE  MirrorBufferTypeOK' /\ KeyInv' /\ DecryptsInStep'
BY DEF mirrorvars, MirrorBufferTypeOK, KeyInv, DecryptsInStep

LEMMA MirrorInvInit == MirrorInit => MirrorInv
<1> SUFFICES ASSUME MirrorInit PROVE MirrorInv
  OBVIOUS
<1>1. 0 \in 0 .. Blocks - 1 /\ 0 \in 0 .. Block - 1 /\ 0 \in 0 .. KeyLength - 1
  BY KeyLengthFacts
<1>2. MirrorBufferTypeOK
  BY <1>1, EmptySeq DEF MirrorInit, MirrorBufferTypeOK
<1>3. (0 * Block - 0) % KeyLength = 0
  <2>1. 0 * Block - 0 = 0
    BY KeyLengthFacts, Z3
  <2>2. QED
    BY <1>1, <2>1, TurnsInside
<1>4. KeyInv
  BY <1>3 DEF MirrorInit, KeyInv
<1>5. DecryptsInStep
  BY EmptySeq DEF MirrorInit, DecryptsInStep
<1>6. MirrorTypeOK
  <2>1. Flags
    BY Zenon DEF MirrorInit, ThreadInit, Flags
  <2>2. Values
    BY ConstantFacts DEF MirrorInit, ThreadInit, Values
  <2>3. QED
    BY <1>2, <2>1, <2>2, TypeParts
<1>7. FrameInv
  BY DEF MirrorInit, ThreadInit, FrameInv
<1>8. QED
  BY <1>4, <1>5, <1>6, <1>7 DEF MirrorInv

(* One byte more of the frame the client is sending, or the first of its   *)
(* next one.                                                               *)
LEMMA SendFacts ==
  ASSUME MirrorTypeOK, Send
  PROVE  /\ frame' \in Frame /\ sent' \in Nat
         /\ FrameByte(frame'.number, sent') \in Byte
<1>1. frame' \in Frame /\ sent' \in Nat
  BY DEF Send, MirrorTypeOK
<1>2. frame'.number \in 0 .. Numbers - 1
  BY <1>1 DEF Frame
<1>3. QED
  BY <1>1, <1>2 DEF FrameByte, Byte

LEMMA MirrorValuesStep == MirrorInv /\ [MirrorNext]_sessionvars => Values'
<1> SUFFICES ASSUME MirrorInv, [MirrorNext]_sessionvars
             PROVE  Values'
  OBVIOUS
<1>a. Values /\ MirrorTypeOK /\ FrameInv
  BY TypeParts DEF MirrorInv
<1>1. CASE SetKey
  BY <1>a, <1>1 DEF SetKey, Values
<1>2. CASE StartMirror
  BY <1>a, <1>2, ConstantFacts DEF StartMirror, Values
<1>3. CASE StopBegin
  BY <1>a, <1>3 DEF StopBegin, Values
<1>4. CASE StopClose
  BY <1>a, <1>4 DEF StopClose, Values
<1>5. CASE StopJoin
  BY <1>a, <1>5 DEF StopJoin, Values
<1>6. CASE StopMark
  BY <1>a, <1>6 DEF StopMark, Values
<1>7. CASE Free
  BY <1>a, <1>7, ConstantFacts DEF Free, Values
<1>8. CASE CheckRunning \/ Timeout \/ StreamReady \/ PayloadComplete \/ LogAndReturn
  BY <1>a, <1>8 DEF CheckRunning, Timeout, StreamReady, PayloadComplete, LogAndReturn, Values
<1>9. CASE SelectFails \/ AcceptFails \/ RecvFails \/ PayloadClosed
  BY <1>a, <1>9 DEF SelectFails, AcceptFails, RecvFails, PayloadClosed, Leave, Values
<1>10. CASE HeaderClosed \/ CloseStream \/ ClearRunning
  BY <1>a, <1>10 DEF HeaderClosed, CloseStream, ClearRunning, Values
<1>11. CASE HeaderComplete
  <2>1. PICK f \in Frame : payload' = [k \in 1 .. f.size |-> Zero]
    BY <1>a, <1>11 DEF HeaderComplete, Fields, Values
  <2>2. f.size \in Nat
    BY ConstantFacts DEF Frame
  <2>3. payload' \in [1 .. f.size -> Byte]
    BY <2>1, ConstantFacts
  <2>4. payload' \in Seq(Byte)
    BY <2>2, <2>3, FunctionIsSeq
  <2>5. QED
    BY <1>a, <1>11, <2>4 DEF HeaderComplete, Values
<1>12. CASE Process
  <2>1. expected + 1 \in Int
    BY <1>a DEF Values
  <2>2. (expected + 1) % Numbers \in 0 .. Numbers - 1
    BY <2>1, ConstantFacts, ModFacts
  <2>3. QED
    BY <1>a, <1>12, <2>2, ConstantFacts DEF Process, Values
<1>13. CASE Accept
  BY <1>a, <1>13, ConstantFacts DEF Accept, Values
<1>14. CASE HeaderByte
  <2>1. /\ frame' \in Frame /\ sent' \in Nat /\ FrameByte(frame'.number, sent') \in Byte
    BY <1>a, <1>14, SendFacts DEF HeaderByte
  <2>2. packet' \in [1 .. HeaderLength -> Byte] /\ readstart' \in Nat
    <3>1. packet \in [1 .. HeaderLength -> Byte] /\ readstart' \in Nat
      BY <1>a, <1>14 DEF HeaderByte, Values
    <3>2. PICK x \in Byte : packet' = [packet EXCEPT ![readstart + 1] = x]
      BY <1>14, <2>1 DEF HeaderByte
    <3>3. QED
      BY <3>1, <3>2
  <2>3. QED
    BY <1>a, <1>14, <2>1, <2>2 DEF HeaderByte, Values
<1>15. CASE PayloadByte
  <2>1. /\ frame' \in Frame /\ sent' \in Nat /\ FrameByte(frame'.number, sent') \in Byte
    BY <1>a, <1>15, SendFacts DEF PayloadByte
  <2>2. payload \in Seq(Byte) /\ readstart + 1 \in 1 .. Len(payload)
    BY <1>a, <1>15, LenProperties DEF PayloadByte, FrameInv, Values
  <2>3. payload' \in Seq(Byte) /\ readstart' \in Nat
    BY <1>a, <1>15, <2>1, <2>2, ExceptSeq DEF PayloadByte, Values
  <2>4. QED
    BY <1>a, <1>15, <2>1, <2>3 DEF PayloadByte, Values
<1>16. CASE UNCHANGED sessionvars
  BY <1>a, <1>16 DEF sessionvars, Values
<1> QED
  BY <1>1, <1>2, <1>3, <1>4, <1>5, <1>6, <1>7, <1>8, <1>9, <1>10, <1>11, <1>12, <1>13,
     <1>14, <1>15, <1>16 DEF MirrorNext, Caller, OwnStep, ClientStep

LEMMA MirrorFlagsStep == Flags /\ [MirrorNext]_sessionvars => Flags'
<1> SUFFICES ASSUME Flags, [MirrorNext]_sessionvars
             PROVE  Flags'
  OBVIOUS
<1> USE DEF Flags
<1>1. CASE StartMirror
  BY <1>1, Zenon DEF StartMirror
<1>2. CASE StopBegin
  BY <1>2, Zenon DEF StopBegin
<1>3. CASE SetKey \/ StopClose \/ StopJoin \/ StopMark \/ Free
  BY <1>3, Zenon DEF SetKey, StopClose, StopJoin, StopMark, Free
<1>4. CASE \/ SelectFails \/ CloseStream \/ ClearRunning \/ AcceptFails \/ Accept \/ HeaderClosed
           \/ RecvFails \/ PayloadClosed
  BY <1>4, Zenon DEF SelectFails, CloseStream, ClearRunning, AcceptFails, Accept, HeaderClosed,
     RecvFails, PayloadClosed, Leave
<1>5. CASE UNCHANGED <<running, joined, listening, stream, self_exit>>
  BY <1>5, Zenon
<1> QED
  BY <1>1, <1>2, <1>3, <1>4, <1>5 DEF MirrorNext, Caller, OwnStep, ClientStep, CheckRunning,
     Timeout, HeaderComplete, PayloadComplete, Process, LogAndReturn, StreamReady, HeaderByte,
     PayloadByte, sessionvars

LEMMA MirrorKeyStep ==
  MirrorInv /\ [MirrorNext]_sessionvars => MirrorBufferTypeOK' /\ KeyInv' /\ DecryptsInStep'
<1> SUFFICES ASSUME MirrorInv, [MirrorNext]_sessionvars
             PROVE  MirrorBufferTypeOK' /\ KeyInv' /\ DecryptsInStep'
  OBVIOUS
<1>1. MirrorBufferTypeOK /\ KeyInv /\ DecryptsInStep
  BY DEF MirrorInv, MirrorTypeOK
<1>2. CASE SetKey \/ Free
  BY <1>2, NewKey DEF SetKey, Free
<1>3. CASE Process
  <2>1. Len(payload) \in Nat
    BY <1>3, LenProperties DEF Process, FrameInv, MirrorTypeOK, MirrorInv
  <2>2. Decrypt(Len(payload)) \/ UNCHANGED mirrorvars
    BY <1>3 DEF Process
  <2>3. QED
    BY <1>1, <2>1, <2>2, DecryptType, DecryptKey, DecryptBytes, SameKey
<1>4. CASE UNCHANGED mirrorvars
  BY <1>1, <1>4, SameKey
<1> QED
  BY <1>2, <1>3, <1>4 DEF MirrorNext, Caller, OwnStep, ClientStep, StartMirror, StopBegin,
     StopClose, StopJoin, StopMark, CheckRunning, Timeout, SelectFails, HeaderComplete,
     PayloadComplete, CloseStream, ClearRunning, LogAndReturn, Accept, AcceptFails, StreamReady,
     HeaderByte, HeaderClosed, RecvFails, PayloadByte, PayloadClosed, sessionvars

LEMMA FrameStep == MirrorInv /\ [MirrorNext]_sessionvars => FrameInv'
<1> SUFFICES ASSUME MirrorInv, [MirrorNext]_sessionvars
             PROVE  FrameInv'
  OBVIOUS
<1>a. Values /\ FrameInv /\ Flags
  BY TypeParts DEF MirrorInv
<1> USE DEF AtBoundary
<1>1. CASE SetKey \/ StopBegin \/ StopClose \/ StopJoin \/ StopMark
  BY <1>a, <1>1 DEF SetKey, StopBegin, StopClose, StopJoin, StopMark, FrameInv, ReadingHeader,
     ReadingPayload, IsHeaderOf
<1>2. CASE StartMirror
  BY <1>a, <1>2 DEF StartMirror, FrameInv, ReadingHeader, ReadingPayload, IsHeaderOf
<1>3. CASE Free
  BY <1>a, <1>3 DEF Free, FrameInv
<1>4. CASE CheckRunning \/ Timeout \/ SelectFails \/ StreamReady \/ AcceptFails
  BY <1>a, <1>4 DEF CheckRunning, Timeout, SelectFails, StreamReady, AcceptFails, Leave, FrameInv,
     ReadingHeader, ReadingPayload, IsHeaderOf
<1>5. CASE HeaderClosed \/ RecvFails \/ PayloadClosed
  BY <1>a, <1>5 DEF HeaderClosed, RecvFails, PayloadClosed, Leave, FrameInv, ReadingHeader,
     ReadingPayload, IsHeaderOf
<1>6. CASE CloseStream \/ ClearRunning \/ LogAndReturn \/ PayloadComplete
  BY <1>a, <1>6 DEF CloseStream, ClearRunning, LogAndReturn, PayloadComplete, FrameInv,
     ReadingHeader, ReadingPayload, IsHeaderOf
<1>7. CASE Accept
  BY <1>a, <1>7, ConstantFacts DEF Accept, FrameInv, ReadingHeader
<1>8. CASE Process
  <2>1. /\ frame.number = expected /\ sent = HeaderLength + frame.size /\ stream
    <3>1. ReadingPayload /\ stream /\ readstart = Len(payload)
      BY <1>a, <1>8 DEF Process, FrameInv
    <3>2. QED
      BY <3>1 DEF ReadingPayload
  <2>2. /\ UNCHANGED <<frame, sent, stream>> /\ at' = "check" /\ payload' = NULL /\ readstart' = 0
        /\ expected' = (expected + 1) % Numbers
    BY <1>8 DEF Process
  <2>3. AtBoundary'
    BY <2>1, <2>2
  <2>4. ReadingHeader'
    BY <2>2, <2>3, ConstantFacts DEF ReadingHeader
  <2>5. QED
    BY <2>1, <2>2, <2>4 DEF FrameInv
<1>9. CASE HeaderComplete
  <2>1. ReadingHeader /\ stream /\ payload = NULL
    BY <1>a, <1>9 DEF HeaderComplete, FrameInv
  <2>2. frame.number = expected /\ sent = HeaderLength /\ IsHeaderOf(frame)
    BY <1>9, <2>1, ConstantFacts DEF HeaderComplete, ReadingHeader, IsHeaderOf
  <2>3. payload' = [k \in 1 .. frame.size |-> Zero]
    BY <1>9, <2>2 DEF HeaderComplete, Fields
  <2>4. frame.size \in Nat
    BY <1>a, ConstantFacts DEF Values, Frame
  <2>5. payload' \in Seq(Byte) /\ Len(payload') = frame.size
    <3>1. payload' \in [1 .. frame.size -> Byte]
      BY <2>3, ConstantFacts
    <3>2. QED
      BY <2>4, <3>1, FunctionIsSeq
  <2>6. ReadingPayload'
    <3>1. (IsHeaderOf(frame) /\ frame.number = expected)'
      BY <1>9, <2>2 DEF HeaderComplete, IsHeaderOf
    <3>2. readstart' = 0 /\ UNCHANGED <<frame, sent>>
      BY <1>9 DEF HeaderComplete
    <3>3. (readstart <= frame.size /\ sent = HeaderLength + readstart)'
      BY <2>2, <2>4, <3>2, ConstantFacts
    <3>4. (Len(payload) = frame.size)'
      BY <2>5, <3>2
    <3>5. (\A k \in 1 .. readstart : payload[k] = FrameByte(frame.number, HeaderLength + k))'
      BY <3>2
    <3>6. QED
      BY <3>1, <3>3, <3>4, <3>5 DEF ReadingPayload
  <2>7. QED
    BY <1>9, <2>1, <2>5, <2>6, ConstantFacts DEF HeaderComplete, FrameInv
<1>10. CASE HeaderByte
  <2>1. ReadingHeader /\ stream /\ payload = NULL /\ readstart \in Nat /\ readstart < HeaderLength
    BY <1>a, <1>10 DEF HeaderByte, FrameInv, Values
  <2>2. /\ frame.number \in 0 .. Numbers - 1 /\ frame.size \in Nat /\ sent \in Nat
        /\ packet \in [1 .. HeaderLength -> Byte]
    BY <1>a, ConstantFacts DEF Values, Frame
  <2>3. frame'.number = expected /\ sent' = readstart + 1 /\ (readstart > 0 => frame' = frame)
    <3>1. CASE readstart = 0
      BY <1>10, <2>1, <2>2, <3>1, ConstantFacts DEF HeaderByte, Send, ReadingHeader
    <3>2. CASE readstart > 0
      BY <1>10, <2>1, <2>2, <3>2, ConstantFacts DEF HeaderByte, Send, ReadingHeader
    <3>3. QED
      BY <2>1, <3>1, <3>2
  <2>4. ASSUME NEW k \in 1 .. readstart + 1
        PROVE  packet'[k] = FrameByte(frame'.number, k)
    <3>1. packet' = [packet EXCEPT ![readstart + 1] = FrameByte(frame'.number, readstart + 1)]
      BY <1>10, <2>3 DEF HeaderByte
    <3>2. CASE k = readstart + 1
      BY <2>1, <2>2, <3>1, <3>2, ConstantFacts
    <3>3. CASE k # readstart + 1
      <4>1. k \in 1 .. readstart /\ readstart > 0 /\ k \in 1 .. HeaderLength
        BY <2>1, <3>3, ConstantFacts
      <4>2. packet[k] = FrameByte(frame.number, k)
        BY <2>1, <4>1 DEF ReadingHeader
      <4>3. packet'[k] = packet[k]
        BY <2>1, <2>2, <3>1, <3>3, <4>1
      <4>4. QED
        BY <2>3, <4>1, <4>2, <4>3
    <3>4. QED
      BY <3>2, <3>3
  <2>5. readstart' = readstart + 1 /\ UNCHANGED <<at, stream, payload, expected>>
    BY <1>10 DEF HeaderByte
  <2>6. ReadingHeader'
    <3>1. readstart' <= HeaderLength /\ readstart' # 0
      BY <2>1, <2>5, ConstantFacts
    <3>2. QED
      BY <2>3, <2>4, <2>5, <3>1 DEF ReadingHeader
  <2>7. QED
    BY <1>10, <2>1, <2>5, <2>6 DEF HeaderByte, FrameInv
<1>11. CASE PayloadByte
  <2>1. ReadingPayload /\ stream /\ payload \in Seq(Byte) /\ readstart \in Nat
        /\ readstart < Len(payload)
    BY <1>a, <1>11 DEF PayloadByte, FrameInv, Values
  <2>2. frame.size \in Nat /\ sent = HeaderLength + readstart /\ Len(payload) = frame.size
    BY <1>a, <2>1, ConstantFacts DEF Values, Frame, ReadingPayload
  <2>3. frame' = frame /\ sent' = sent + 1
    BY <1>11, <2>1, <2>2, ConstantFacts DEF PayloadByte, Send
  <2> DEFINE x == FrameByte(frame.number, HeaderLength + (readstart + 1))
  <2>4. payload' = [payload EXCEPT ![readstart + 1] = x]
    <3>1. sent' = HeaderLength + (readstart + 1)
      BY <2>1, <2>2, <2>3, ConstantFacts
    <3>2. QED
      BY <1>11, <2>3, <3>1 DEF PayloadByte
  <2>5. x \in Byte
    BY <1>a, <2>1, ConstantFacts DEF Values, Frame, FrameByte, Byte
  <2>6. /\ payload' \in Seq(Byte) /\ Len(payload') = Len(payload)
        /\ \A j \in 1 .. Len(payload) : payload'[j] = IF j = readstart + 1 THEN x ELSE payload[j]
    <3> HIDE DEF x
    <3>1. readstart + 1 \in 1 .. Len(payload)
      BY <2>1, <2>2
    <3>2. QED
      BY <2>1, <2>4, <2>5, <3>1, ExceptSeq
  <2>7. readstart' = readstart + 1 /\ UNCHANGED <<at, stream, packet, expected>>
    BY <1>11 DEF PayloadByte
  <2>8. ASSUME NEW k \in 1 .. readstart + 1
        PROVE  payload'[k] = FrameByte(frame.number, HeaderLength + k)
    <3>1. k \in 1 .. Len(payload)
      BY <2>1, <2>2
    <3>2. CASE k = readstart + 1
      BY <2>6, <3>1, <3>2
    <3>3. CASE k # readstart + 1
      <4>1. k \in 1 .. readstart
        BY <2>1, <3>3
      <4>2. payload[k] = FrameByte(frame.number, HeaderLength + k)
        BY <2>1, <4>1 DEF ReadingPayload
      <4>3. QED
        BY <2>6, <3>1, <3>3, <4>2
    <3>4. QED
      BY <3>2, <3>3
  <2>9. ReadingPayload'
    <3>1. (readstart <= frame.size)' /\ (sent = HeaderLength + readstart)'
      BY <2>1, <2>2, <2>3, <2>7, ConstantFacts
    <3>2. (\A k \in 1 .. readstart : payload[k] = FrameByte(frame.number, HeaderLength + k))'
      BY <2>3, <2>7, <2>8
    <3>3. (IsHeaderOf(frame) /\ frame.number = expected)'
      BY <2>1, <2>3, <2>7 DEF ReadingPayload, IsHeaderOf
    <3>4. (Len(payload) = frame.size)'
      BY <2>2, <2>3, <2>6
    <3>5. QED
      BY <3>1, <3>2, <3>3, <3>4 DEF ReadingPayload
  <2>10. payload' # NULL
    BY <2>6, ConstantFacts
  <2>11. QED
    BY <1>11, <2>1, <2>7, <2>9, <2>10 DEF PayloadByte, FrameInv
<1>12. CASE UNCHANGED sessionvars
  BY <1>a, <1>12 DEF sessionvars, FrameInv, ReadingHeader, ReadingPayload, IsHeaderOf
<1> QED
  BY <1>1, <1>2, <1>3, <1>4, <1>5, <1>6, <1>7, <1>8, <1>9, <1>10, <1>11, <1>12
     DEF MirrorNext, Caller, OwnStep, ClientStep

LEMMA MirrorInvKept == MirrorSpec => []MirrorInv
<1>1. MirrorInv /\ [MirrorNext]_sessionvars => MirrorInv'
  <2> SUFFICES ASSUME MirrorInv, [MirrorNext]_sessionvars
               PROVE  MirrorInv'
    OBVIOUS
  <2>1. MirrorBufferTypeOK' /\ KeyInv' /\ DecryptsInStep'
    BY MirrorKeyStep
  <2>2. Flags'
    BY MirrorFlagsStep, TypeParts DEF MirrorInv
  <2>3. Values' /\ FrameInv'
    BY MirrorValuesStep, FrameStep
  <2>4. MirrorTypeOK'
    BY <2>1, <2>2, <2>3, Zenon DEF MirrorTypeOK, Flags, Values
  <2>5. QED
    BY <2>1, <2>3, <2>4 DEF MirrorInv
<1>2. QED
  BY <1>1, MirrorInvInit, PTL DEF MirrorSpec

(* Every variable keeps its type, whatever connections break off.          *)
THEOREM MirrorTypeCorrect == MirrorSpec => []MirrorTypeOK
<1>1. MirrorInv => MirrorTypeOK
  BY DEF MirrorInv
<1>2. QED
  BY <1>1, MirrorInvKept, PTL

(* What is processed is a whole frame, in the order the client of the      *)
(* connection sent them.                                                   *)
THEOREM FramesWholeAndInOrder == MirrorSpec => []WholeFramesInOrder
<1>1. MirrorInv => WholeFramesInOrder
  <2> SUFFICES ASSUME MirrorInv, at = "process"
               PROVE  /\ frame.number = expected /\ IsHeaderOf(frame)
                      /\ payload = [k \in 1 .. frame.size |-> FrameByte(frame.number, HeaderLength + k)]
    BY DEF WholeFramesInOrder
  <2>1. ReadingPayload /\ readstart = Len(payload) /\ payload \in Seq(Byte)
    BY DEF MirrorInv, FrameInv, MirrorTypeOK
  <2>2. Len(payload) = frame.size /\ frame.number = expected /\ IsHeaderOf(frame)
        /\ \A k \in 1 .. frame.size : payload[k] = FrameByte(frame.number, HeaderLength + k)
    BY <2>1 DEF ReadingPayload
  <2>3. payload \in [1 .. frame.size -> Byte]
    BY <2>1, <2>2, LenProperties
  <2>4. payload = [k \in 1 .. frame.size |-> FrameByte(frame.number, HeaderLength + k)]
    BY <2>2, <2>3
  <2>5. QED
    BY <2>2, <2>4
<1>2. QED
  BY <1>1, MirrorInvKept, PTL

(* The receiver stays in step with the sender's key stream.                *)
THEOREM AlwaysDecryptsInStep == MirrorSpec => []DecryptsInStep
<1>1. MirrorInv => DecryptsInStep
  BY DEF MirrorInv
<1>2. QED
  BY <1>1, MirrorInvKept, PTL
=============================================================================
