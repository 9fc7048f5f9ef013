----------------------------- MODULE BlockCodec -----------------------------
(***************************************************************************)
(* compress/compress.go: the adaptive block encoder (CopyObserved) and the *)
(* validation of the decoder (Decopy). A block is its length; DEFLATE      *)
(* itself is external: an encoding is its length and the length of the     *)
(* block it stands for.                                                    *)
(***************************************************************************)
EXTENDS Integers

CONSTANTS
    BlockSize,     \* 32768 in the code
    MinBlock,      \* 256: smaller blocks are not compressed
    SkipWindow,    \* 262144: bytes passed raw after three misses
    MaxEmptyReads, \* 100
    Blocks,        \* lengths a Read may return
    Encodings      \* lengths DEFLATE may produce

ASSUME CodecAssumption ==
    /\ BlockSize \in Nat \ {0} /\ BlockSize < 65536
    /\ MinBlock \in Nat /\ SkipWindow \in Nat /\ MaxEmptyReads \in Nat \ {0}
    /\ Blocks \subseteq 1..BlockSize
    /\ Encodings \subseteq Nat \ {0}

VARIABLES
    state,      \* "copying", or how CopyObserved returned
    misses,
    skipBytes,
    emptyReads,
    block,      \* length of the last block read
    frame,      \* the last frame written: header and payload
    since       \* history: bytes read since the last probe that failed, at most SkipWindow

codecVars == <<state, misses, skipBytes, emptyReads, block, frame, since>>

\* binary.BigEndian.PutUint16
Uint16(n) == n % 65536

\* Mutant of Frame: the header holds the length of the block twice.
FrameRawLength(mode, n, length) == [mode |-> mode, raw |-> Uint16(n), enc |-> Uint16(n),
                           payload |-> [length |-> length, holds |-> n]]

Frame(mode, n, length) == [mode |-> mode, raw |-> Uint16(n), enc |-> Uint16(length),
                           payload |-> [length |-> length, holds |-> n]]

\* Decopy: the length of the block it forwards, 0 if it rejects the frame.
DecodeFrame(f) ==
    LET inRange == f.raw \in 1..BlockSize /\ f.enc \in 1..BlockSize
        whole == f.enc = f.payload.length
        raw == f.mode = "raw" /\ f.raw = f.enc
        flate == f.mode = "flate" /\ f.payload.holds = f.raw
    IN  IF inRange /\ whole /\ (raw \/ flate) THEN f.raw ELSE 0

CodecInit ==
    /\ state = "copying"
    /\ misses = 0 /\ skipBytes = 0 /\ emptyReads = 0
    /\ block = 1 /\ frame = Frame("raw", 1, 1)
    /\ since = 0

\* The compressed form is taken if it saves more than a tenth.
Worthwhile(k, n) == k * 100 < n * 90

Passed(n) == IF since + n > SkipWindow THEN SkipWindow ELSE since + n

\* A tiny block, or one inside the window that follows three misses, goes out raw.
Skip(n) ==
    /\ state = "copying"
    /\ n < MinBlock \/ skipBytes > 0
    /\ skipBytes' = IF skipBytes > n THEN skipBytes - n ELSE 0
    /\ block' = n /\ frame' = Frame("raw", n, n)
    /\ emptyReads' = 0 /\ since' = Passed(n)
    /\ UNCHANGED <<state, misses>>

\* A probe that pays.
Compress(n, k) ==
    /\ state = "copying"
    /\ n >= MinBlock /\ skipBytes = 0
    /\ Worthwhile(k, n)
    /\ misses' = 0
    /\ block' = n /\ frame' = Frame("flate", n, k)
    /\ emptyReads' = 0 /\ since' = Passed(n)
    /\ UNCHANGED <<state, skipBytes>>

\* Mutant of Miss: only the third miss opens the window.
MissOnce(n, k) ==
    /\ state = "copying"
    /\ n >= MinBlock /\ skipBytes = 0
    /\ ~Worthwhile(k, n)
    /\ misses' = IF misses < 3 THEN misses + 1 ELSE misses   \* only "at least 3" matters
    /\ skipBytes' = IF misses = 2 THEN SkipWindow ELSE skipBytes
    /\ block' = n /\ frame' = Frame("raw", n, n)
    /\ emptyReads' = 0 /\ since' = 0
    /\ UNCHANGED state

\* A probe that does not; the third in a row, and each one after it, opens the window.
Miss(n, k) ==
    /\ state = "copying"
    /\ n >= MinBlock /\ skipBytes = 0
    /\ ~Worthwhile(k, n)
    /\ misses' = IF misses < 3 THEN misses + 1 ELSE misses   \* only "at least 3" matters
    /\ skipBytes' = IF misses >= 2 THEN SkipWindow ELSE skipBytes
    /\ block' = n /\ frame' = Frame("raw", n, n)
    /\ emptyReads' = 0 /\ since' = 0
    /\ UNCHANGED state

\* A Read of nothing without an error; the hundredth in a row is an error.
EmptyRead ==
    /\ state = "copying"
    /\ emptyReads' = emptyReads + 1
    /\ state' = IF emptyReads' >= MaxEmptyReads THEN "stalled" ELSE "copying"
    /\ UNCHANGED <<misses, skipBytes, block, frame, since>>

\* The source ends or fails, or the destination fails.
Returns ==
    /\ state = "copying"
    /\ state' \in {"eof", "error"}
    /\ UNCHANGED <<misses, skipBytes, emptyReads, block, frame, since>>

CodecNext ==
    \/ \E n \in Blocks : Skip(n)
    \/ \E n \in Blocks, k \in Encodings : Compress(n, k) \/ Miss(n, k)
    \/ EmptyRead \/ Returns

CodecSpec == CodecInit /\ [][CodecNext]_codecVars

-----------------------------------------------------------------------------
\* Properties

\* Every variable keeps its type; the empty reads in a row keep their limit.
CodecTypeOK ==
    /\ state \in {"copying", "eof", "error", "stalled"}
    /\ misses \in 0..3 /\ skipBytes \in 0..SkipWindow /\ since \in 0..SkipWindow
    /\ emptyReads \in 0..MaxEmptyReads
    /\ emptyReads = MaxEmptyReads <=> state = "stalled"
    /\ block \in 1..BlockSize

\* Every frame that the encoder writes passes the decoder's validation and yields the block that
\* was read: both lengths fit their 16 bits, and neither is 0 or above the block size. "framing
\* adds five bytes per block", and nothing else: no block grows.
FramesDecode == DecodeFrame(frame) = block /\ frame.payload.length <= block

\* "backs off after three unsuccessful probes": once three probes in a row missed, a further
\* probe comes only after a whole window of bytes was passed raw.
BacksOff ==
    [][(\E n \in Blocks, k \in Encodings : Compress(n, k) \/ Miss(n, k))
        => misses < 3 \/ since = SkipWindow]_codecVars

=============================================================================
