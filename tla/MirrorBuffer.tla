---------------------------- MODULE MirrorBuffer ----------------------------
(***************************************************************************)
(* The decryption of the mirroring stream, lib/mirror_buffer.cpp.  The     *)
(* sender encrypts the payloads of its video frames, one after the other,  *)
(* with one AES-CTR key stream; the receiver decrypts whole blocks only    *)
(* and keeps what it did not use of the last block, in og, for the next    *)
(* payload.  A byte of the key stream is its position in the stream.       *)
(***************************************************************************)
EXTENDS Integers, Sequences

CONSTANTS
  Block,   \* bytes in an AES block, 16
  Blocks   \* blocks before the counter of CTR comes round, 2^128

ASSUME BlockAssumption == Block \in Nat \ {0} /\ Blocks \in Nat \ {0}

VARIABLES
  next_block,        \* the block aes_ctx decrypts next
  nextDecryptCount,  \* unused bytes at the end of og
  og_block,          \* the block og came from
  key_used,          \* history: the key bytes of the last payload, in order
  decrypted,         \* history: where in the key stream the sender is
  short              \* history: a payload was smaller than what og had left

mirrorvars == <<next_block, nextDecryptCount, og_block, key_used, decrypted, short>>

KeyLength == Block * Blocks

(* mirror_buffer_init_aes: a new stream, a new key.                        *)
InitAes ==
  /\ next_block' = 0 /\ nextDecryptCount' = 0 /\ og_block' = 0
  /\ key_used' = <<>> /\ decrypted' = 0 /\ short' = FALSE

(* C division: what a payload shorter than the rest of og leaves for the   *)
(* cipher rounds to no block, and its remainder is not positive.           *)
WholeBlocks(len) ==
  IF len >= nextDecryptCount THEN (len - nextDecryptCount) \div Block ELSE 0
RestLength(len) ==
  IF len >= nextDecryptCount THEN (len - nextDecryptCount) % Block ELSE 0

(* The bytes that mirror_buffer_decrypt writes to output, each as the key  *)
(* byte it was decrypted with: the rest of og, whatever the length is, and *)
(* then whole blocks and the start of one more block.                      *)
FromOg ==
  [k \in 1 .. nextDecryptCount |-> og_block * Block + (Block - nextDecryptCount) + k - 1]
FromCipher(len) ==
  [k \in 1 .. WholeBlocks(len) * Block + RestLength(len) |->
     (next_block * Block + k - 1) % KeyLength]
KeyUsed(len) == FromOg \o FromCipher(len)

LeftOver_OfPayload(len) == RestLength(len)   \* mutation: not what og has left
LeftOver_Unchecked(len) == Block - RestLength(len)   \* mutation: restlen > 0 is not asked
LeftOver(len) == IF RestLength(len) > 0 THEN Block - RestLength(len) ELSE 0

(* mirror_buffer_decrypt                                                   *)
Decrypt(len) ==
  /\ key_used' = KeyUsed(len)
  /\ IF RestLength(len) > 0
       THEN /\ og_block' = (next_block + WholeBlocks(len)) % Blocks
            /\ next_block' = (next_block + WholeBlocks(len) + 1) % Blocks
       ELSE /\ next_block' = (next_block + WholeBlocks(len)) % Blocks
            /\ UNCHANGED og_block
  /\ nextDecryptCount' = LeftOver(len)
  /\ decrypted' = (decrypted + len) % KeyLength
  /\ short' = (short \/ len < nextDecryptCount)
-----------------------------------------------------------------------------
MirrorBufferTypeOK ==
  /\ next_block \in 0 .. Blocks - 1 /\ og_block \in 0 .. Blocks - 1
  /\ nextDecryptCount \in 0 .. Block - 1
  /\ key_used \in Seq(0 .. KeyLength - 1)
  /\ decrypted \in 0 .. KeyLength - 1
  /\ short \in BOOLEAN

(* However the payloads cut the key stream into pieces, each is decrypted  *)
(* with the bytes of the key stream that the sender used for it, and no    *)
(* byte is written beyond it, as long as no payload was shorter than what  *)
(* the block before it had left over.                                      *)
DecryptsInStep ==
  ~short => \A k \in DOMAIN key_used :
              key_used[k] = (decrypted - Len(key_used) + k - 1) % KeyLength

(* The inductive invariant behind it: the key bytes the receiver has not   *)
(* used yet, the rest of og and then next_block, start where the sender is.*)
KeyInv ==
  ~short =>
    /\ decrypted = (next_block * Block - nextDecryptCount) % KeyLength
    /\ nextDecryptCount > 0 => og_block = (next_block - 1) % Blocks
=============================================================================
