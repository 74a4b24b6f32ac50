------------------------------- MODULE CryptoUtils -------------------------------
(***************************************************************************)
(* crypto_utils.c as its callers use it: one thread, so a routine starts   *)
(* when no other is running.  A run hashes one message or writes and reads *)
(* one text; the routines share nothing, so longer runs add nothing.       *)
(***************************************************************************)
EXTENDS HashStream

CONSTANTS Inputs, Sizes, Word

ASSUME CodecAssumption ==
    /\ Inputs \subseteq Seq(0 .. 255)
    /\ Sizes \subseteq Nat \ {0}
    /\ Word \in Nat \ {0} /\ Word % 16384 = 0

VARIABLES step, kind, data, text, i, room, acc, output

Codec == INSTANCE Base64Url

codecVars == <<step, kind, data, text, i, room, acc, output>>

Utils == <<vars, codecVars>>

UtilsInit == Init /\ Codec!Init

NoHash == pc = "ready" /\ stage = "message" /\ message = <<>>

UtilsNext ==
    \/ step = "idle" /\ Next /\ UNCHANGED codecVars
    \/ NoHash /\ Codec!Next /\ UNCHANGED vars

UtilsSpec == UtilsInit /\ [][UtilsNext]_Utils

(***************************************************************************)
(* The properties of the codec.                                            *)
(***************************************************************************)
\* The decoder gives back what either encoder has encoded.
DecodesWhatWasEncoded == Codec!DecodesWhatWasEncoded

\* No routine writes past its buffer, and none refuses one with room for whole
\* groups of four and a zero, or for the bytes that are decoded.
UsesItsRoom == Codec!UsesItsRoom
================================================================================
