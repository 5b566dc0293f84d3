----------------------------- MODULE SignedImage -----------------------------
(***************************************************************************)
(* verify_installed_slot (src/src/signed_image.rs): the walk that finds    *)
(* where an installed image ends, hashes everything before its signature   *)
(* sector and authenticates the hash.  The segment lengths come from the   *)
(* flash and are arbitrary words; the caller supplies no length.           *)
(*                                                                         *)
(* Sizes are constants so that a small word still overflows: the code has  *)
(* a 24-byte image header, 8-byte segment headers, 16-byte padding, a      *)
(* 32-byte appended hash, 4 KiB sectors, 1216-byte signature blocks,       *)
(* 0x1e0000-byte slots, 1 KiB reads and 32-bit words.  The image's other   *)
(* bytes are abstracted to what the checks conclude from them.  walked is  *)
(* a ghost: the exact end of the segments read so far, which machine       *)
(* arithmetic must not lose.                                               *)
(***************************************************************************)
EXTENDS Integers

CONSTANTS
    Word,          \* 2^32
    SlotSize,      \* OTA_SLOT_SIZE
    Sector,        \* SIGNATURE_SECTOR_SIZE
    SignatureBlock, \* SIGNATURE_BLOCK_SIZE: what is read of the sector
    ImageHeader,   \* where the first segment header is
    SegmentHeader, \* bytes of a segment header
    Prefix,        \* the descriptor bytes the first segment must hold
    Padding,       \* the checksum is the last byte of this unit
    Digest,        \* bytes of the appended hash
    Chunk,         \* bytes hashed per read
    Segments       \* most segments an image header may announce

ASSUME ImageAssumption ==
    /\ {Word, SlotSize, Sector, SignatureBlock, Padding, Digest, Chunk, Segments} \subseteq Nat \ {0}
    /\ {ImageHeader, SegmentHeader, Prefix} \subseteq Nat
    /\ SlotSize % Sector = 0
    /\ SlotSize + Sector < Word
    /\ ImageHeader <= SlotSize - Sector - (Padding + Digest)
    /\ SegmentHeader <= Sector /\ SignatureBlock <= Sector

VARIABLES
    phase,    \* "prefix", "segments", "hash", "signature", "rsa", "accepted", "rejected"
    segments, \* segment headers left to read
    first,    \* the next segment is the first
    position, \* the code's end of the segments read so far
    walked,   \* their exact end
    signed,   \* signature_offset, once known
    hashed    \* bytes given to the hash, a prefix of the slot

vars == <<phase, segments, first, position, walked, signed, hashed>>

TypeOK ==
    /\ phase \in {"prefix", "segments", "hash", "signature", "rsa", "accepted", "rejected"}
    /\ segments \in 0..Segments
    /\ first \in BOOLEAN
    /\ {position, signed, hashed} \subseteq 0..SlotSize
    /\ walked \in Nat

None == -1

\* u32::checked_add: None when the sum is no word.
CheckedAdd(a, b) == IF a = None \/ a + b >= Word THEN None ELSE a + b

\* Option::filter with an upper bound.
AtMost(value, bound) == IF value <= bound THEN value ELSE None

\* Esp32S2UpdateBackend::address: a read must lie within the slot.
Readable(offset, length) == CheckedAdd(offset, length) \in 0..SlotSize

Reject ==
    /\ phase' = "rejected"
    /\ UNCHANGED <<segments, first, position, walked, signed, hashed>>

\* The prefix passes parse_image_metadata, announces an appended hash and an
\* epoch of at most 16, or the image is rejected.
ReadPrefix ==
    /\ phase = "prefix"
    /\ \/ Reject
       \/ /\ segments' \in 1..Segments
          /\ phase' = "segments"
          /\ UNCHANGED <<first, position, walked, signed, hashed>>

\* Mutant: the end of a segment is computed modulo the word.
NextPositionWrapping(length) ==
    AtMost((position + SegmentHeader + length) % Word, SlotSize - Sector - (Padding + Digest))

\* The end of the next segment, None when the sum overflows or leaves no room
\* for the trailer and the signature sector.
NextPosition(length) ==
    AtMost(CheckedAdd(CheckedAdd(position, SegmentHeader), length),
           SlotSize - Sector - (Padding + Digest))

\* One round of the segment loop, for a header that announces length bytes:
\* the image is rejected when the flash read fails, when the first segment
\* cannot hold the descriptor or when the segment does not fit.
ReadSegment(length) ==
    /\ phase = "segments" /\ segments > 0
    /\ \/ Reject
       \/ /\ Readable(position, SegmentHeader)
          /\ first => length >= Prefix
          /\ NextPosition(length) # None
          /\ position' = NextPosition(length)
          /\ walked' = walked + SegmentHeader + length
          /\ segments' = segments - 1
          /\ first' = FALSE
          /\ UNCHANGED <<phase, signed, hashed>>

\* (position | 15) + 33: the byte after the hash that follows the checksum.
TrailerEnd ==
    CheckedAdd(position - (position % Padding) + Padding - 1, Digest + 1)

\* Round up to a sector and require room for the signature sector.
SignatureOffset ==
    LET raised == CheckedAdd(TrailerEnd, Sector - 1)
        offset == raised - (raised % Sector)
    IN  IF raised = None \/ offset < Sector THEN None ELSE AtMost(offset, SlotSize - Sector)

LocateSignature ==
    /\ phase = "segments" /\ segments = 0
    /\ IF TrailerEnd = None \/ SignatureOffset = None
       THEN Reject
       ELSE /\ signed' = SignatureOffset
            /\ phase' = "hash"
            /\ UNCHANGED <<segments, first, position, walked, hashed>>

\* One round of the hash loop; a flash read may fail.
HashChunk ==
    /\ phase = "hash" /\ hashed < signed
    /\ LET length == IF signed - hashed < Chunk THEN signed - hashed ELSE Chunk
       IN  \/ Reject
           \/ /\ Readable(hashed, length)
              /\ hashed' = hashed + length
              /\ UNCHANGED <<phase, segments, first, position, walked, signed>>

FinishHash ==
    /\ phase = "hash" /\ hashed >= signed
    /\ phase' = "signature"
    /\ UNCHANGED <<segments, first, position, walked, signed, hashed>>

\* The block at signature_offset is read; parse_signature_block checks its
\* magic, its CRC and the trusted key, and the digests are compared.
ParseSignature ==
    /\ phase = "signature"
    /\ \/ Reject
       \/ /\ Readable(signed, SignatureBlock)
          /\ phase' = "rsa"
          /\ UNCHANGED <<segments, first, position, walked, signed, hashed>>

\* verify_rsa_pss: the ROM's verdict, for the digest of what was hashed.
VerifyRsa ==
    /\ phase = "rsa"
    /\ \/ Reject
       \/ /\ phase' = "accepted"
          /\ UNCHANGED <<segments, first, position, walked, signed, hashed>>

Init ==
    /\ phase = "prefix"
    /\ segments = 0
    /\ first = TRUE
    /\ position = ImageHeader
    /\ walked = ImageHeader
    /\ signed = 0
    /\ hashed = 0

\* A call starts from nothing: no state outlives the call before it.
Call ==
    /\ phase' = "prefix"
    /\ segments' = 0
    /\ first' = TRUE
    /\ position' = ImageHeader
    /\ walked' = ImageHeader
    /\ signed' = 0
    /\ hashed' = 0

\* qualify verifies one slot after the other, and again at the next request.
NextCall == phase \in {"accepted", "rejected"} /\ Call

Next ==
    \/ ReadPrefix
    \/ \E length \in 0..(Word - 1) : ReadSegment(length)
    \/ LocateSignature \/ HashChunk \/ FinishHash
    \/ ParseSignature \/ VerifyRsa
    \/ NextCall

Spec == Init /\ [][Next]_vars

(***************************************************************************)
(* Properties.                                                             *)
(***************************************************************************)

\* An accepted image is authenticated as a whole: the hashed prefix ends at a
\* sector boundary, holds every byte of every announced segment, the checksum
\* and the appended hash, and leaves the signature sector inside the slot.  No
\* choice of segment lengths makes the signature cover less than what boots.
SignedWholeImage ==
    phase = "accepted" =>
        /\ hashed = signed
        /\ hashed % Sector = 0
        /\ walked + 1 + Digest <= hashed
        /\ hashed + Sector <= SlotSize
=============================================================================
