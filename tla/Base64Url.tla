-------------------------------- MODULE Base64Url --------------------------------
(***************************************************************************)
(* The base64 routines of crypto_utils.c that tokens are written and read  *)
(* with: the two encoders, the URL one without padding and the plain one   *)
(* with it, and the decoder that serves both.  One step is one turn of the *)
(* loop of the routine; a caller decodes what it has encoded.              *)
(*                                                                         *)
(* A text is the sequence of its characters, without the terminating zero. *)
(***************************************************************************)
EXTENDS Integers, Sequences

CONSTANTS
    Inputs,      \* byte sequences that are encoded
    Sizes,       \* sizes of output buffers
    Word         \* 2^32: how many values the accumulator of the decoder has

VARIABLES
    step,     \* "idle", "encode", "encoded", "decode", "decoded"; -1 was
              \* returned: "refused" by an encoder, "overflow" by the decoder
    kind,     \* "url" or "plain"
    data,     \* what is encoded
    text,     \* the text
    i,        \* how much of the input of the routine is consumed
    room,     \* max_len of the routine
    acc,      \* decoder: buf and the number of bits it holds
    output    \* what the decoder has written

codec == <<step, kind, data, text, i, room, acc, output>>

\* Characters are their codes in ASCII.  b64_table and b64url_table differ in
\* the last two.
Letter(v) == CASE v < 26 -> v + 65
               [] v \in 26 .. 51 -> (v - 26) + 97
               [] v \in 52 .. 61 -> (v - 52) + 48
Last        == [plain |-> <<43, 47>>, url |-> <<45, 95>>]
Table(k, v) == IF v < 62 THEN Letter(v) ELSE Last[k][v - 61]
PadCharacter == 61

NoWord == [buf |-> 0, bits |-> 0]

Init ==
    /\ step = "idle" /\ kind = "url" /\ data = <<>> /\ text = <<>>
    /\ i = 0 /\ room = 0 /\ acc = NoWord /\ output = <<>>

(***************************************************************************)
(* crypto_base64_encode and crypto_base64url_encode.                       *)
(***************************************************************************)
PlainLength(n) == 4 * ((n + 2) \div 3)

\* The plain encoder checks the size first, the other one in its loop.
Encode(k, bytes, size) ==
    /\ step = "idle"
    /\ kind' = k /\ data' = bytes /\ room' = size
    /\ text' = <<>> /\ i' = 0
    /\ step' = IF k = "plain" /\ size < PlainLength(Len(bytes)) + 1
               THEN "refused" ELSE "encode"
    /\ UNCHANGED <<acc, output>>

ByteAt(j) == IF j < Len(data) THEN data[j + 1] ELSE 0

\* b, the three bytes from i on, and character k of the four it makes.
ThreeBytes == 65536 * ByteAt(i) + 256 * ByteAt(i + 1) + ByteAt(i + 2)
Char(k) == <<Table(kind, (ThreeBytes \div <<262144, 4096, 64, 1>>[k]) % 64)>>
Filler  == IF kind = "plain" THEN <<PadCharacter>> ELSE <<>>

\* Padding or nothing for the characters that no byte reaches.
FaultyGroup ==
    Char(1) \o (IF i + 1 < Len(data) THEN Char(2) ELSE Filler)
            \o (IF i + 2 < Len(data) THEN Char(3) ELSE Filler)
            \o (IF i + 2 < Len(data) THEN Char(4) ELSE Filler)

Group ==
    Char(1) \o Char(2) \o (IF i + 1 < Len(data) THEN Char(3) ELSE Filler)
                       \o (IF i + 2 < Len(data) THEN Char(4) ELSE Filler)

\* There has to be room for the group, but not for the zero behind it.
FaultyFits == kind = "url" => Len(text) + 4 <= room

Fits == kind = "url" => Len(text) + 4 < room

EncodeGroup ==
    /\ step = "encode" /\ i < Len(data)
    /\ IF Fits THEN text' = text \o Group /\ i' = i + 3 /\ step' = step
               ELSE step' = "refused" /\ UNCHANGED <<text, i>>
    /\ UNCHANGED <<kind, data, room, acc, output>>

EncodeEnd ==
    /\ step = "encode" /\ i >= Len(data)
    /\ step' = "encoded"
    /\ UNCHANGED <<kind, data, text, i, room, acc, output>>

(***************************************************************************)
(* crypto_base64_decode, for crypto_base64url_decode too: one loop for     *)
(* both alphabets.  Whatever is not of an alphabet is skipped.             *)
(***************************************************************************)
Decode(size) ==
    /\ step = "encoded"
    /\ room' = size /\ i' = 0 /\ acc' = NoWord /\ output' = <<>>
    /\ step' = "decode"
    /\ UNCHANGED <<kind, data, text>>

\* b64_char_value; -1: not of an alphabet
CharValue(char) ==
    CASE char \in 65 .. 90    -> char - 65
      [] char \in 97 .. 122   -> (char - 97) + 26
      [] char \in 48 .. 57    -> (char - 48) + 52
      [] char \in {43, 45}    -> 62
      [] char \in {47, 95}    -> 63
      [] OTHER                -> -1

\* n >> k, for the bits an accumulator can have in excess of a byte
Shifted(n, k) == n \div <<1, 2, 4, 8, 16, 32>>[k + 1]

\* `bits` bits of buf are not written yet; eight of them make a byte.
Collect(buf, bits) ==
    \/ /\ bits < 8
       /\ acc' = [buf |-> buf, bits |-> bits]
       /\ UNCHANGED <<step, output>>
    \/ /\ bits >= 8
       /\ acc' = [buf |-> buf, bits |-> bits - 8]
       /\ IF Len(output) >= room
          THEN step' = "overflow" /\ UNCHANGED output
          ELSE /\ output' = Append(output, Shifted(buf, bits - 8) % 256)
               /\ UNCHANGED step

DecodeChar ==
    /\ step = "decode" /\ i < Len(text)
    /\ i' = i + 1
    /\ LET val == CharValue(text[i + 1])
       IN  IF val < 0 THEN UNCHANGED <<step, acc, output>>
                      ELSE Collect((64 * acc.buf + val) % Word, acc.bits + 6)
    /\ UNCHANGED <<kind, data, text, room>>

DecodeEnd ==
    /\ step = "decode" /\ i >= Len(text)
    /\ step' = "decoded"
    /\ UNCHANGED <<kind, data, text, i, room, acc, output>>

Next ==
    \/ \E k \in {"url", "plain"}, bytes \in Inputs, size \in Sizes :
            Encode(k, bytes, size)
    \/ EncodeGroup
    \/ EncodeEnd
    \/ \E size \in Sizes : Decode(size)
    \/ DecodeChar
    \/ DecodeEnd

Spec == Init /\ [][Next]_codec

(***************************************************************************)
(* Properties.                                                             *)
(***************************************************************************)
(***************************************************************************)
(* The decoder gives back what was encoded, by either encoder, with or     *)
(* without padding: no byte is lost or invented at the end of the text,    *)
(* whatever its length leaves over.                                        *)
(***************************************************************************)
DecodesWhatWasEncoded == step = "decoded" => output = data

(***************************************************************************)
(* Neither routine writes past the buffer it was given, the terminating    *)
(* zero of the encoders included; and none refuses a buffer that has room  *)
(* for whole groups and a zero, or for the bytes that were encoded.        *)
(***************************************************************************)
UsesItsRoom ==
    /\ step = "encoded"  => Len(text) < room
    /\ step = "decode"   => Len(output) <= room
    /\ step = "refused"  => Len(text) <= room /\ room <= PlainLength(Len(data))
    /\ step = "overflow" => Len(output) = room /\ room < Len(data)
================================================================================
