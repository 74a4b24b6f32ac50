------------------------------ MODULE MCCryptoUtils ------------------------------
(***************************************************************************)
(* Pieces of every length up to a byte more than two blocks; texts of up   *)
(* to five bytes, with the bytes that are the limits of a group and of     *)
(* the last two characters of the tables, and single bytes that make      *)
(* every character.                                                        *)
(***************************************************************************)
EXTENDS CryptoUtils

MCChunks == {[k \in 1 .. n |-> k] : n \in 0 .. 2 * Block + 1}
MCJunk == {[k \in 1 .. Block |-> 0], [k \in 1 .. Block |-> 200]}
MCInputs == UNION {[1 .. n -> {0, 255}] : n \in 0 .. 5} \cup
            UNION {[1 .. n -> {62, 251, 128}] : n \in 0 .. 3} \cup
            {<<4 * v + 3>> : v \in 0 .. 63}
================================================================================
