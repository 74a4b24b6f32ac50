------------------------------ MODULE MCHttpServer ------------------------------
(***************************************************************************)
(* Two clients and a buffer of four bytes, int of four bits and long of    *)
(* six.  The messages: headers that just fit, headers that do not fit, a   *)
(* body that makes the buffer grow, a body shorter and one longer than     *)
(* announced; a length spelled in a way that is not found, with another    *)
(* one or the same quoted in the body; numbers that the cast to int makes  *)
(* 0 or negative, that are too large to be given memory, and that wrap     *)
(* around.                                                                 *)
(***************************************************************************)
EXTENDS HttpServer

\* A client that announces length in its headers, as the search expects it.
Plain(header, body, length) ==
    [header |-> header, body |-> body, announced |-> length,
     number |-> length, at |-> header]

Fits    == Plain(3, 0, 0)
TooLong == Plain(4, 0, 0)
Grows   == Plain(2, 2, 2)
Less    == Plain(1, 1, 2)
More    == Plain(1, 2, 1)
Huge    == Plain(1, 2, 16)
TooMuch == Plain(1, 1, 40)

OtherSpelling == [Plain(2, 1, 1) EXCEPT !.number = 0, !.at = 0]
Quoted        == [Plain(1, 2, 1) EXCEPT !.number = 3, !.at = 2]
Repeated      == [Plain(1, 2, 1) EXCEPT !.at = 2]
Negative      == [Plain(1, 3, 0) EXCEPT !.number = -1]
FarBelow      == [Plain(1, 1, 0) EXCEPT !.number = -9]

MCMessages == {Fits, TooLong, Grows, Less, More, Huge, TooMuch,
               OtherSpelling, Quoted, Repeated, Negative, FarBelow}
===============================================================================
