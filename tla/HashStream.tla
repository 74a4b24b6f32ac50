------------------------------- MODULE HashStream -------------------------------
(***************************************************************************)
(* The streaming part of the SHA-256 engine in crypto_utils.c: a message   *)
(* arrives in pieces of any length, and every Block bytes of it go to      *)
(* sha256_transform, which is not modelled: its result depends on nothing  *)
(* but the bytes it was given so far, and `hashed` lists them.             *)
(*                                                                         *)
(* The code counts bits in steps of eight; the model counts bytes.  The    *)
(* engine is compiled when the build has no OpenSSL: WITH_OPENSSL=0, or    *)
(* the target `debug`, whose flags leave it out.  The pieces are those of  *)
(* crypto_sha256 (one), of crypto_hmac_sha256 (a block of key, then the    *)
(* text), and any others.                                                  *)
(***************************************************************************)
EXTENDS Integers, Sequences

CONSTANTS
    Block,        \* 64: bytes in a block
    Trailer,      \* 8: bytes of the length at the end
    Chunks,       \* pieces a message is put together from
    MaxMessage,   \* bound on the length of a message
    Junk          \* what the buffer of a context may hold before it is used

Byte == 0 .. 255

ASSUME StreamAssumption ==
    /\ Block \in Nat /\ Trailer \in Nat \ {0} /\ Trailer < Block
    /\ MaxMessage \in Nat
    /\ Chunks \subseteq Seq(Byte)
    /\ Junk \subseteq [1 .. Block -> Byte]

VARIABLES
    ctx,       \* SHA256_CTX_INTERNAL: count, buffer
    call,      \* the running sha256_update: data, i, index
    pc,        \* where it is; "ready" between two calls
    stage,     \* which bytes are being fed: the message, the padding, the length
    bits,      \* the length taken down by sha256_final
    hashed,    \* what sha256_transform was given, one block after the other
    message    \* what the callers have handed over

vars == <<ctx, call, pc, stage, bits, hashed, message>>

NoCall == [data |-> <<>>, i |-> 0, index |-> 0]

TypeOK ==
    /\ ctx \in [count : Nat, buffer : [1 .. Block -> Byte]]
    /\ call \in [data : Seq(Byte), i : Nat, index : 0 .. Block - 1]
    /\ pc \in {"ready", "fill", "blocks", "rest", "done"}
    /\ stage \in {"message", "padding", "length"}
    /\ bits \in Seq(Byte)
    /\ hashed \in Seq(Byte)
    /\ message \in Seq(Byte)

\* The buffer of the context starts with whatever is on the stack.
Init ==
    /\ \E junk \in Junk : ctx = [count |-> 0, buffer |-> junk]
    /\ call = NoCall
    /\ pc = "ready" /\ stage = "message"
    /\ bits = <<>> /\ hashed = <<>> /\ message = <<>>

(***************************************************************************)
(* sha256_update: entry, the first block, whole blocks, what is left.      *)
(***************************************************************************)
Index == ctx.count % Block

Enter(data) ==
    /\ call' = [data |-> data, i |-> 0, index |-> Index]
    /\ ctx' = [ctx EXCEPT !.count = @ + Len(data)]
    /\ pc' = IF Len(data) >= Block - Index THEN "fill" ELSE "rest"
    /\ UNCHANGED hashed

\* memcpy of n bytes of the data to the buffer, from the index on.
Copied(n) ==
    [k \in 1 .. Block |->
        IF call.index < k /\ k <= call.index + n
        THEN call.data[call.i + k - call.index]
        ELSE ctx.buffer[k]]

Fill ==
    /\ pc = "fill"
    /\ ctx' = [ctx EXCEPT !.buffer = Copied(Block - call.index)]
    /\ hashed' = hashed \o ctx'.buffer
    /\ call' = [call EXCEPT !.i = Block - call.index]
    /\ pc' = "blocks"
    /\ UNCHANGED <<stage, bits, message>>

WholeBlock ==
    /\ pc = "blocks" /\ call.i + (Block - 1) < Len(call.data)
    /\ hashed' = hashed \o SubSeq(call.data, call.i + 1, call.i + Block)
    /\ call' = [call EXCEPT !.i = @ + Block]
    /\ UNCHANGED <<ctx, pc, stage, bits, message>>

\* The index goes on pointing behind the block that was filled.
FaultyBlocksEnd ==
    /\ pc = "blocks" /\ call.i + (Block - 1) >= Len(call.data)
    /\ pc' = "rest"
    /\ UNCHANGED <<ctx, call, stage, bits, hashed, message>>

BlocksEnd ==
    /\ pc = "blocks" /\ call.i + (Block - 1) >= Len(call.data)
    /\ call' = [call EXCEPT !.index = 0]
    /\ pc' = "rest"
    /\ UNCHANGED <<ctx, stage, bits, hashed, message>>

Rest ==
    /\ pc = "rest"
    /\ ctx' = [ctx EXCEPT !.buffer = Copied(Len(call.data) - call.i)]
    /\ call' = NoCall
    /\ pc' = "ready"
    /\ UNCHANGED <<stage, bits, hashed, message>>

(***************************************************************************)
(* The callers.                                                            *)
(***************************************************************************)
Feed(chunk) ==
    /\ pc = "ready" /\ stage = "message"
    /\ Len(message) + Len(chunk) <= MaxMessage
    /\ message' = message \o chunk
    /\ Enter(chunk)
    /\ UNCHANGED <<stage, bits>>

\* (count >> ((7 - i) * 8)) & 0xff, of a count of bits
Weight[k \in Nat] == IF k = 0 THEN 1 ELSE 256 * Weight[k - 1]

LengthBytes(n) == [k \in 1 .. Trailer |-> ((8 * n) \div Weight[Trailer - k]) % 256]

PadLength ==
    IF Index < Block - Trailer THEN (Block - Trailer) - Index
                               ELSE (2 * Block - Trailer) - Index

\* static const uint8_t padding[64] = { 0x80 }
Padding(n) == [k \in 1 .. n |-> IF k = 1 THEN 128 ELSE 0]

Final ==
    /\ pc = "ready" /\ stage = "message"
    /\ bits' = LengthBytes(ctx.count)
    /\ stage' = "padding"
    /\ Enter(Padding(PadLength))
    /\ UNCHANGED message

\* The length is taken down when it is needed, padding included.
FaultyFinalLength ==
    /\ pc = "ready" /\ stage = "padding"
    /\ stage' = "length"
    /\ Enter(LengthBytes(ctx.count))
    /\ UNCHANGED <<bits, message>>

FinalLength ==
    /\ pc = "ready" /\ stage = "padding"
    /\ stage' = "length"
    /\ Enter(bits)
    /\ UNCHANGED <<bits, message>>

Digest ==
    /\ pc = "ready" /\ stage = "length"
    /\ pc' = "done"
    /\ UNCHANGED <<ctx, call, stage, bits, hashed, message>>

Next ==
    \/ \E chunk \in Chunks : Feed(chunk)
    \/ Fill
    \/ WholeBlock
    \/ BlocksEnd
    \/ Rest
    \/ Final
    \/ FinalLength
    \/ Digest

Spec == Init /\ [][Next]_vars

(***************************************************************************)
(* Properties.                                                             *)
(***************************************************************************)
\* The padded message of the standard: a one bit, the fewest zeros that fill
\* the last block, and the length of the message.
IsPadded(bytes, m) ==
    \E zeros \in 0 .. Block - 1 :
        /\ (Len(m) + 1 + zeros + Trailer) % Block = 0
        /\ bytes = m \o Padding(1 + zeros) \o LengthBytes(Len(m))

(***************************************************************************)
(* However a message is cut into pieces, the compression is given exactly  *)
(* the padded message of the standard: no byte twice, none left behind in  *)
(* the buffer, none of what was on the stack before.                       *)
(***************************************************************************)
HashesThePadding == pc = "done" => IsPadded(hashed, message)

(***************************************************************************)
(* No copy runs past the buffer of the context or past the data it copies  *)
(* from, and the padding asked for is never longer than the static array.  *)
(* The types come with it.                                                 *)
(***************************************************************************)
CopiesStayInside ==
    /\ TypeOK
    /\ pc = "fill" => Block - call.index <= Len(call.data)
    /\ pc = "blocks" => call.i <= Len(call.data)
    /\ pc = "rest" => /\ call.i <= Len(call.data)
                      /\ call.index + (Len(call.data) - call.i) <= Block
    /\ stage = "padding" => Len(call.data) <= Block
================================================================================
