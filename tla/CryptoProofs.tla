------------------------------ MODULE CryptoProofs ------------------------------
(***************************************************************************)
(* What the hash engine compresses, for blocks and messages of any size    *)
(* and however a message is cut into pieces.                               *)
(*                                                                         *)
(* The invariant compares three places with the bytes handed over so far   *)
(* (Sent): what was compressed is their beginning, the buffer holds what   *)
(* follows, and what is left of the running call is their end.  A step     *)
(* moves a piece from one place to the next.                               *)
(*                                                                         *)
(* And that base64 is read as it was written, for texts of any length: the *)
(* encoders write the groups of six bits one by one (Sextet), and after    *)
(* each character the decoder has the bytes that the ones so far decide,   *)
(* with the last six bits at the end of its accumulator.                   *)
(***************************************************************************)
EXTENDS CryptoUtils, WellFoundedInduction, TLAPS

(***************************************************************************)
(* Arithmetic.                                                             *)
(***************************************************************************)
LEMMA BlockSize == Block \in Nat \ {0} /\ Trailer \in Nat \ {0} /\ Trailer < Block
  BY StreamAssumption

LEMMA DivisionBy ==
    ASSUME NEW b \in Nat \ {0}, NEW n \in Nat
    PROVE  n % b \in 0 .. b - 1 /\ \E q \in Nat : n = q * b + (n % b)
  <1>1. n \div b \in Nat /\ n = (n \div b) * b + (n % b)
    OBVIOUS
  <1>2. n % b \in 0 .. b - 1
    OBVIOUS
  <1> QED BY <1>1, <1>2

LEMMA RemainderBy ==
    ASSUME NEW b \in Nat \ {0}, NEW q \in Nat, NEW r \in 0 .. b - 1
    PROVE  (q * b + r) % b = r
  OBVIOUS

LEMMA Division ==
    ASSUME NEW n \in Nat
    PROVE  n % Block \in 0 .. Block - 1 /\ \E q \in Nat : n = q * Block + (n % Block)
  BY BlockSize, DivisionBy

LEMMA Remainder ==
    ASSUME NEW n, NEW q \in Nat, NEW r \in 0 .. Block - 1, n = q * Block + r
    PROVE  n % Block = r
  BY BlockSize, RemainderBy

\* A multiple and a remainder; another block.
LEMMA Multiples ==
    ASSUME NEW n \in Nat, n % Block = 0
    PROVE  /\ \A r \in 0 .. Block - 1 : (n + r) % Block = r
           /\ (n + Block) % Block = 0
  <1>1. PICK q \in Nat : n = q * Block + (n % Block)
    BY Division
  <1>2. n = q * Block + 0 /\ n + Block = (q + 1) * Block + 0 /\ q + 1 \in Nat
    BY <1>1, BlockSize
  <1>3. \A r \in 0 .. Block - 1 : n + r = q * Block + r
    BY <1>1, BlockSize
  <1>4. 0 \in 0 .. Block - 1
    BY BlockSize
  <1> QED BY ONLY <1>2, <1>3, <1>4, Remainder

\* The padding asked for fits the static array and ends a block with the length.
PadFor(n) ==
    IF n % Block < Block - Trailer THEN (Block - Trailer) - (n % Block)
                                   ELSE (2 * Block - Trailer) - (n % Block)

LEMMA PadFills ==
    ASSUME NEW n \in Nat
    PROVE  PadFor(n) \in 1 .. Block /\ (n + PadFor(n) + Trailer) % Block = 0
  <1>1. PICK q \in Nat, r \in 0 .. Block - 1 : n = q * Block + r /\ n % Block = r
    BY Division
  <1>2. PadFor(n) = IF r < Block - Trailer THEN (Block - Trailer) - r
                                           ELSE (2 * Block - Trailer) - r
    BY <1>1 DEF PadFor
  <1>3. PadFor(n) \in 1 .. Block
    BY <1>2, BlockSize
  <1>4. \/ n + PadFor(n) + Trailer = (q + 1) * Block + 0
        \/ n + PadFor(n) + Trailer = (q + 2) * Block + 0
    BY <1>1, <1>2, BlockSize
  <1>5. 0 \in 0 .. Block - 1 /\ q + 1 \in Nat /\ q + 2 \in Nat
    BY BlockSize
  <1>6. (n + PadFor(n) + Trailer) % Block = 0
    BY ONLY <1>4, <1>5, Remainder
  <1> QED BY <1>3, <1>6

(***************************************************************************)
(* The bytes of the length.  Weight is defined by recursion: that there is *)
(* such a function is shown for any function that is iterated.             *)
(***************************************************************************)
LEMMA LeastNumber ==
    ASSUME NEW S, S \subseteq Nat, S # {}
    PROVE  \E n \in S : \A m \in S : ~ (m < n)
  <1> DEFINE R == OpToRel(<, Nat)
  <1>1. \A m, n \in Nat : m < n => <<m, n>> \in R
    BY DEF OpToRel
  <1>2. IsWellFoundedOn(R, Nat)
    BY Zenon, NatLessThanWellFounded
  <1> HIDE DEF R
  <1>3. PICK n \in S : \A m \in S : ~ (<<m, n>> \in R)
    BY <1>2, WFMin
  <1>4. \A m \in S : ~ (m < n)
    BY <1>1, <1>3
  <1> QED BY <1>3, <1>4

Iterates(f, domain, base, F) ==
    \A k \in domain : f[k] = IF k = 0 THEN base ELSE F[f[k - 1]]

LEMMA IterationExists ==
    ASSUME NEW S, NEW base \in S, NEW F \in [S -> S]
    PROVE  \E f \in [Nat -> S] : Iterates(f, Nat, base, F)
  <1> DEFINE Upto(n) == {f \in [0 .. n -> S] : Iterates(f, 0 .. n, base, F)}
  <1>1. ASSUME NEW n \in Nat PROVE Upto(n) # {}
    <2> DEFINE missing == {m \in Nat : Upto(m) = {}}
    <2> SUFFICES ASSUME missing # {} PROVE FALSE
      OBVIOUS
    <2>1. PICK m \in missing : \A l \in missing : ~ (l < m)
      BY LeastNumber
    <2>2. CASE m = 0
      <3>1. [k \in 0 .. 0 |-> base] \in Upto(0)
        BY DEF Iterates
      <3> QED BY <2>1, <2>2, <3>1
    <2>3. CASE m # 0
      <3>1. m - 1 \in Nat /\ m - 1 < m
        BY <2>1, <2>3
      <3>2. PICK f \in Upto(m - 1) : TRUE
        BY <2>1, <3>1
      <3> DEFINE g == [k \in 0 .. m |-> IF k = m THEN F[f[m - 1]] ELSE f[k]]
      <3>3. f \in [0 .. m - 1 -> S] /\ Iterates(f, 0 .. m - 1, base, F)
        BY <3>2
      <3>4. F[f[m - 1]] \in S
        BY <3>1, <3>3
      <3>5. g \in [0 .. m -> S]
        BY <2>1, <3>1, <3>3, <3>4
      <3>6. Iterates(g, 0 .. m, base, F)
        BY <2>1, <2>3, <3>1, <3>3 DEF Iterates
      <3> QED BY <2>1, <3>5, <3>6
    <2> QED BY <2>2, <2>3
  <1>2. ASSUME NEW n \in Nat, NEW m \in Nat, NEW f \in Upto(n), NEW g \in Upto(m),
               NEW k \in Nat, k <= n, k <= m
        PROVE  f[k] = g[k]
    <2> DEFINE apart == {l \in 0 .. k : f[l] # g[l]}
    <2> SUFFICES ASSUME apart # {} PROVE FALSE
      BY <1>2
    <2>1. apart \subseteq Nat
      OBVIOUS
    <2>2. PICK l \in apart : \A j \in apart : ~ (j < l)
      BY <2>1, LeastNumber
    <2>3. l \in 0 .. n /\ l \in 0 .. m /\ (l # 0 => l - 1 \in 0 .. k)
      BY <1>2, <2>2
    <2>4. /\ f[l] = (IF l = 0 THEN base ELSE F[f[l - 1]])
          /\ g[l] = (IF l = 0 THEN base ELSE F[g[l - 1]])
      BY <1>2, <2>3 DEF Iterates
    <2>5. l # 0 => f[l - 1] = g[l - 1]
      BY <2>2, <2>3
    <2> QED BY <2>2, <2>4, <2>5
  <1> DEFINE pick(n) == CHOOSE f \in Upto(n) : TRUE
             W == [n \in Nat |-> pick(n)[n]]
  <1>3. ASSUME NEW n \in Nat PROVE pick(n) \in Upto(n)
    BY <1>1
  <1>4. ASSUME NEW n \in Nat
        PROVE  W[n] \in S /\ W[n] = IF n = 0 THEN base ELSE F[W[n - 1]]
    <2>1. /\ pick(n) \in [0 .. n -> S]
          /\ pick(n)[n] = IF n = 0 THEN base ELSE F[pick(n)[n - 1]]
      <3>1. pick(n) \in [0 .. n -> S] /\ Iterates(pick(n), 0 .. n, base, F)
        BY <1>3
      <3> HIDE DEF pick
      <3> QED BY <3>1 DEF Iterates
    <2>2. CASE n = 0
      BY <2>1, <2>2
    <2>3. CASE n # 0
      <3>1. n - 1 \in Nat /\ n - 1 <= n
        BY <2>3
      <3>2. pick(n - 1) \in Upto(n - 1) /\ pick(n) \in Upto(n)
        BY <1>3, <3>1
      <3> HIDE DEF pick, Upto
      <3>3. pick(n)[n - 1] = pick(n - 1)[n - 1]
        BY <1>2, <3>1, <3>2
      <3> QED BY <2>1, <2>3, <3>1, <3>3
    <2> QED BY <2>2, <2>3
  <1>5. W \in [Nat -> S]
    BY <1>4
  <1> HIDE DEF W
  <1> QED BY <1>4, <1>5 DEF Iterates

LEMMA Weights == \A k \in Nat : Weight[k] \in Nat \ {0}
  <1> DEFINE S == Nat \ {0}
             F == [x \in S |-> 256 * x]
             Step(W) == [k \in Nat |-> IF k = 0 THEN 1 ELSE 256 * W[k - 1]]
  <1>1. 1 \in S /\ F \in [S -> S]
    OBVIOUS
  <1>2. PICK f \in [Nat -> S] : Iterates(f, Nat, 1, F)
    <2> HIDE DEF S, F
    <2> QED BY <1>1, IterationExists
  <1>3. ASSUME NEW k \in Nat
        PROVE  f[k] = IF k = 0 THEN 1 ELSE 256 * f[k - 1]
    <2>1. f[k] = IF k = 0 THEN 1 ELSE F[f[k - 1]]
      BY <1>2 DEF Iterates
    <2>2. k # 0 => f[k - 1] \in S
      BY <1>2
    <2> QED BY <2>1, <2>2
  <1>4. f = Step(f)
    BY <1>2, <1>3
  <1>5. Weight = Step(Weight)
    BY <1>4 DEF Weight
  <1> DEFINE wrong == {k \in Nat : Weight[k] \notin S}
  <1> SUFFICES ASSUME wrong # {} PROVE FALSE
    OBVIOUS
  <1>6. PICK k \in wrong : \A l \in wrong : ~ (l < k)
    BY LeastNumber
  <1>7. Weight[k] = IF k = 0 THEN 1 ELSE 256 * Weight[k - 1]
    BY <1>5, <1>6
  <1>8. k # 0 => Weight[k - 1] \in S
    BY <1>6
  <1> QED BY <1>6, <1>7, <1>8

LEMMA LengthBytesType ==
    ASSUME NEW n \in Nat
    PROVE  LengthBytes(n) \in Seq(Byte) /\ Len(LengthBytes(n)) = Trailer
  <1>1. ASSUME NEW k \in 1 .. Trailer PROVE LengthBytes(n)[k] \in Byte
    <2>1. Trailer - k \in Nat
      BY BlockSize
    <2>2. Weight[Trailer - k] \in Nat \ {0}
      BY <2>1, Weights
    <2>3. (8 * n) \div Weight[Trailer - k] \in Nat
      BY <2>2
    <2> QED BY <2>3 DEF LengthBytes, Byte
  <1>2. LengthBytes(n) \in [1 .. Trailer -> Byte]
    BY <1>1 DEF LengthBytes
  <1> QED BY <1>2, BlockSize

LEMMA PaddingType ==
    ASSUME NEW n \in Nat
    PROVE  Padding(n) \in Seq(Byte) /\ Len(Padding(n)) = n
  <1>1. Padding(n) \in [1 .. n -> Byte]
    BY DEF Padding, Byte
  <1> QED BY <1>1

(***************************************************************************)
(* The inductive invariant.                                                *)
(***************************************************************************)
Pad(m) == Padding(PadFor(Len(m)))

\* What sha256_update has been handed since the start, the running call included.
Sent ==
    CASE stage = "message" -> message
      [] stage = "padding" -> message \o Pad(message)
      [] stage = "length"  -> (message \o Pad(message)) \o LengthBytes(Len(message))

\* Bytes that the buffer holds.
Held ==
    CASE pc \in {"ready", "done"} -> Index
      [] pc = "blocks" -> 0
      [] pc \in {"fill", "rest"} -> call.index

Left == Len(call.data) - call.i

CallShape ==
    /\ pc \in {"ready", "done"} => call = NoCall
    /\ pc = "fill" => call.i = 0 /\ Block - call.index <= Len(call.data)
    /\ pc \in {"blocks", "rest"} => call.i <= Len(call.data)
    /\ pc = "rest" => call.index + Left < Block
    /\ pc = "done" => stage = "length"
    /\ stage = "padding" => Len(call.data) <= Block
    /\ stage # "message" => bits = LengthBytes(Len(message))

Everywhere ==
    /\ Len(hashed) % Block = 0
    /\ ctx.count = Len(Sent)
    /\ Len(Sent) = Len(hashed) + Held + Left
    /\ \A j \in 1 .. Len(hashed) : hashed[j] = Sent[j]
    /\ \A j \in 1 .. Held : ctx.buffer[j] = Sent[Len(hashed) + j]
    /\ \A j \in 1 .. Left : call.data[call.i + j] = Sent[Len(hashed) + Held + j]

StreamInv == TypeOK /\ CallShape /\ Everywhere

LEMMA Concatenation ==
    ASSUME NEW a \in Seq(Byte), NEW b \in Seq(Byte)
    PROVE  /\ a \o b \in Seq(Byte) /\ Len(a \o b) = Len(a) + Len(b)
           /\ \A j \in 1 .. Len(a) : (a \o b)[j] = a[j]
           /\ \A j \in 1 .. Len(b) : (a \o b)[Len(a) + j] = b[j]
  OBVIOUS

LEMMA SentType ==
    ASSUME TypeOK
    PROVE  /\ Sent \in Seq(Byte)
           /\ stage = "message" => Sent = message
           /\ stage = "padding" => Sent = message \o Pad(message)
           /\ stage = "length" => Sent = (message \o Pad(message)) \o LengthBytes(Len(message))
  <1>1. message \in Seq(Byte) /\ Len(message) \in Nat
    BY DEF TypeOK
  <1>2. Pad(message) \in Seq(Byte)
    BY <1>1, PadFills, PaddingType, BlockSize DEF Pad
  <1>3. LengthBytes(Len(message)) \in Seq(Byte)
    BY <1>1, LengthBytesType
  <1>4. /\ stage = "message" => Sent = message
        /\ stage = "padding" => Sent = message \o Pad(message)
        /\ stage = "length" => Sent = (message \o Pad(message)) \o LengthBytes(Len(message))
    BY DEF Sent
  <1>5. stage \in {"message", "padding", "length"}
    BY DEF TypeOK
  <1> QED BY <1>1, <1>2, <1>3, <1>4, <1>5, Concatenation

LEMMA StreamStarts == Init => StreamInv
  <1> SUFFICES ASSUME Init PROVE StreamInv
    OBVIOUS
  <1>1. PICK junk \in Junk : ctx = [count |-> 0, buffer |-> junk]
    BY DEF Init
  <1>2. junk \in [1 .. Block -> Byte]
    BY StreamAssumption
  <1>3. NoCall \in [data : Seq(Byte), i : Nat, index : 0 .. Block - 1]
    BY BlockSize DEF NoCall
  <1>4. TypeOK
    BY <1>1, <1>2, <1>3 DEF Init, TypeOK
  <1>5. CallShape
    BY DEF Init, CallShape
  <1>6. 0 % Block = 0
    <2>1. 0 = 0 * Block + 0 /\ 0 \in 0 .. Block - 1
      BY BlockSize
    <2> QED BY <2>1, Remainder
  <1>7. Sent = << >> /\ Held = 0 /\ Left = 0
    BY <1>1, <1>6 DEF Init, Sent, Held, Left, Index, NoCall
  <1>8. Everywhere
    BY <1>1, <1>6, <1>7 DEF Init, Everywhere
  <1> QED BY <1>4, <1>5, <1>8 DEF StreamInv

(***************************************************************************)
(* The steps.                                                              *)
(***************************************************************************)
\* The bytes a call is entered with are handed over at that moment.
LEMMA EnterKeeps ==
    ASSUME StreamInv, pc = "ready", NEW bytes \in Seq(Byte), Enter(bytes),
           stage' \in {"message", "padding", "length"},
           bits' \in Seq(Byte), message' \in Seq(Byte), Sent' = Sent \o bytes,
           stage' = "padding" => Len(bytes) <= Block,
           stage' # "message" => bits' = LengthBytes(Len(message'))
    PROVE  StreamInv'
  <1>1. TypeOK /\ CallShape /\ Everywhere
    BY DEF StreamInv
  <1>2. /\ call = NoCall /\ Held = Index /\ Left = 0 /\ Sent \in Seq(Byte)
    BY <1>1, SentType DEF CallShape, Held, Left, NoCall
  <1>3. ctx.count \in Nat /\ Index \in 0 .. Block - 1
    BY <1>1, Division DEF TypeOK, Index
  <1>4. /\ call' = [data |-> bytes, i |-> 0, index |-> Index]
        /\ ctx' = [ctx EXCEPT !.count = @ + Len(bytes)]
        /\ hashed' = hashed /\ pc' \in {"fill", "rest"}
        /\ pc' = "fill" => Len(bytes) >= Block - Index
        /\ pc' = "rest" => ~ (Len(bytes) >= Block - Index)
    BY DEF Enter
  <1>5. /\ call'.data = bytes /\ call'.i = 0 /\ call'.index = Index
        /\ ctx'.count = ctx.count + Len(bytes) /\ ctx'.buffer = ctx.buffer
    BY <1>1, <1>4 DEF TypeOK
  <1>6. Held' = Index /\ Left' = Len(bytes)
    BY <1>4, <1>5 DEF Held, Left
  <1>7. TypeOK'
    <2>1. ctx' \in [count : Nat, buffer : [1 .. Block -> Byte]]
      <3>1. ctx \in [count : Nat, buffer : [1 .. Block -> Byte]]
        BY <1>1 DEF TypeOK
      <3>2. ctx.count + Len(bytes) \in Nat
        BY <1>3
      <3> QED BY ONLY <1>4, <3>1, <3>2
    <2>2. call' \in [data : Seq(Byte), i : Nat, index : 0 .. Block - 1]
      BY <1>3, <1>4
    <2> QED BY <1>1, <1>4, <2>1, <2>2 DEF TypeOK
  <1>8. CallShape'
    <2>1. Len(bytes) \in Nat /\ Block \in Nat
      BY BlockSize
    <2>2. pc' = "fill" => call'.i = 0 /\ Block - call'.index <= Len(call'.data)
      BY <1>3, <1>4, <1>5, <2>1
    <2>3. pc' = "rest" => call'.index + Left' < Block /\ call'.i <= Len(call'.data)
      BY <1>3, <1>4, <1>5, <1>6, <2>1
    <2> QED BY <1>4, <1>5, <2>2, <2>3 DEF CallShape
  <1>9. Everywhere'
    <2>1. /\ Len(Sent') = Len(Sent) + Len(bytes)
          /\ \A j \in 1 .. Len(Sent) : Sent'[j] = Sent[j]
          /\ \A j \in 1 .. Len(bytes) : Sent'[Len(Sent) + j] = bytes[j]
      BY <1>2, Concatenation
    <2>2. /\ Len(hashed) \in Nat /\ Len(Sent) \in Nat /\ Len(bytes) \in Nat
          /\ Len(Sent) = Len(hashed) + Index
      BY <1>1, <1>2, <1>3 DEF TypeOK, Everywhere
    <2>3. \A j \in 1 .. Len(hashed) : hashed'[j] = Sent'[j]
      BY <1>1, <1>3, <1>4, <2>1, <2>2 DEF Everywhere
    <2>4. \A j \in 1 .. Held' : ctx'.buffer[j] = Sent'[Len(hashed') + j]
      BY <1>1, <1>2, <1>3, <1>4, <1>5, <1>6, <2>1, <2>2 DEF Everywhere
    <2>5. \A j \in 1 .. Left' : call'.data[call'.i + j] = Sent'[Len(hashed') + Held' + j]
      BY SMTT(30), <1>3, <1>4, <1>5, <1>6, <2>1, <2>2
    <2>6. ctx'.count = Len(Sent') /\ Len(Sent') = Len(hashed') + Held' + Left'
      BY <1>1, <1>3, <1>4, <1>5, <1>6, <2>1, <2>2 DEF Everywhere
    <2> QED BY <1>1, <1>4, <2>3, <2>4, <2>5, <2>6 DEF Everywhere
  <1> QED BY <1>7, <1>8, <1>9 DEF StreamInv

\* What has to be seen of a step inside sha256_update.
LEMMA EverywhereAgain ==
    ASSUME Sent' = Sent, NEW held, NEW left, Held' = held, Left' = left,
           Len(hashed') % Block = 0, ctx'.count = Len(Sent),
           Len(Sent) = Len(hashed') + held + left,
           \A j \in 1 .. Len(hashed') : hashed'[j] = Sent[j],
           \A j \in 1 .. held : ctx'.buffer[j] = Sent[Len(hashed') + j],
           \A j \in 1 .. left : call'.data[call'.i + j] = Sent[Len(hashed') + held + j]
    PROVE  Everywhere'
  BY DEF Everywhere

\* What a copy leaves in the buffer.
LEMMA CopyFacts ==
    ASSUME TypeOK, NEW n \in Nat, call.index + n <= Block, call.i + n <= Len(call.data)
    PROVE  /\ Copied(n) \in [1 .. Block -> Byte]
           /\ \A k \in 1 .. call.index : Copied(n)[k] = ctx.buffer[k]
           /\ \A k \in 1 .. n : Copied(n)[call.index + k] = call.data[call.i + k]
  <1>1. /\ ctx.buffer \in [1 .. Block -> Byte] /\ call.data \in Seq(Byte) /\ call.i \in Nat
        /\ call.index \in 0 .. Block - 1 /\ Block \in Nat /\ Len(call.data) \in Nat
    BY BlockSize DEF TypeOK
  <1>2. ASSUME NEW k \in 1 .. Block
        PROVE  /\ Copied(n)[k] \in Byte
               /\ k <= call.index => Copied(n)[k] = ctx.buffer[k]
               /\ call.index < k /\ k <= call.index + n =>
                     Copied(n)[k] = call.data[call.i + k - call.index]
    <2>1. Copied(n)[k] = IF call.index < k /\ k <= call.index + n
                         THEN call.data[call.i + k - call.index] ELSE ctx.buffer[k]
      BY DEF Copied
    <2>2. call.index < k /\ k <= call.index + n =>
             call.i + k - call.index \in 1 .. Len(call.data)
      BY SMTT(30), <1>1
    <2> QED BY <1>1, <2>1, <2>2
  <1>3. Copied(n) \in [1 .. Block -> Byte]
    BY <1>2 DEF Copied
  <1>4. \A k \in 1 .. call.index : Copied(n)[k] = ctx.buffer[k]
    BY <1>1, <1>2
  <1>5. \A k \in 1 .. n : Copied(n)[call.index + k] = call.data[call.i + k]
    <2> SUFFICES ASSUME NEW k \in 1 .. n
                 PROVE  Copied(n)[call.index + k] = call.data[call.i + k]
      OBVIOUS
    <2>1. call.index + k \in 1 .. Block /\ call.i + (call.index + k) - call.index = call.i + k
      BY <1>1
    <2>2. call.index < call.index + k /\ call.index + k <= call.index + n
      BY <1>1
    <2> QED BY <1>2, <2>1, <2>2
  <1> QED BY <1>3, <1>4, <1>5

LEMMA FillKeeps == ASSUME StreamInv, Fill PROVE StreamInv'
  <1> DEFINE n == Block - call.index
  <1>1. /\ TypeOK /\ CallShape /\ Everywhere /\ pc = "fill" /\ pc' = "blocks"
        /\ UNCHANGED <<stage, bits, message>>
        /\ hashed' = hashed \o ctx'.buffer
    BY DEF StreamInv, Fill
  <1>2. /\ call.i = 0 /\ call.index \in 0 .. Block - 1 /\ n \in 1 .. Block
        /\ n <= Len(call.data) /\ Len(call.data) \in Nat /\ Block \in Nat
        /\ Held = call.index /\ Left = Len(call.data)
    BY <1>1, BlockSize DEF CallShape, TypeOK, Held, Left
  <1>3. /\ call' = [call EXCEPT !.i = n] /\ ctx' = [ctx EXCEPT !.buffer = Copied(n)]
    BY DEF Fill
  <1>4. /\ Copied(n) \in [1 .. Block -> Byte]
        /\ \A k \in 1 .. call.index : Copied(n)[k] = ctx.buffer[k]
        /\ \A k \in 1 .. n : Copied(n)[call.index + k] = call.data[k]
    <2>1. call.index + n <= Block /\ call.i + n <= Len(call.data) /\ n \in Nat
      BY <1>2
    <2> HIDE DEF n
    <2> QED BY <1>1, <1>2, <2>1, CopyFacts
  <1> DEFINE full == Copied(n)
  <1>5. /\ call'.i = n /\ call'.data = call.data /\ call'.index = call.index
        /\ ctx'.buffer = full /\ ctx'.count = ctx.count
        /\ hashed' = hashed \o full
    BY <1>1, <1>3 DEF TypeOK
  <1> HIDE DEF full
  <1>6. full \in Seq(Byte) /\ Len(full) = Block
    <2>1. full \in [1 .. Block -> Byte]
      BY <1>4 DEF full
    <2> QED BY <1>2, <2>1
  <1>7. /\ hashed' \in Seq(Byte) /\ Len(hashed') = Len(hashed) + Block
        /\ \A j \in 1 .. Len(hashed) : hashed'[j] = hashed[j]
        /\ \A j \in 1 .. Block : hashed'[Len(hashed) + j] = full[j]
    BY <1>1, <1>5, <1>6, Concatenation DEF TypeOK
  <1>8. Sent' = Sent /\ Held' = 0 /\ Left' = Len(call.data) - n /\ Len(hashed) \in Nat
    BY <1>1, <1>5 DEF Sent, Held, Left, TypeOK, Pad, PadFor, Padding, LengthBytes
  <1>a. /\ call.index \in Nat /\ Block \in Nat /\ Len(hashed) \in Nat
        /\ Len(call.data) \in Nat /\ n \in 1 .. Block /\ n <= Len(call.data)
        /\ n + call.index = Block
    BY <1>2, <1>8
  <1>b. \A k \in Nat : Len(hashed) + call.index + (n + k) = Len(hashed) + Block + k
    <2> HIDE DEF n
    <2> QED BY ONLY <1>a
  <1>c. \A k \in 1 .. Len(call.data) - n : n + k \in 1 .. Len(call.data)
    <2> HIDE DEF n
    <2> QED BY ONLY <1>a
  <1>d. \A k \in Nat : Len(hashed) + call.index + (k - call.index) = Len(hashed) + k
    BY ONLY <1>a
  <1>9. TypeOK'
    <2>1. ctx' \in [count : Nat, buffer : [1 .. Block -> Byte]]
      BY <1>1, <1>3, <1>4 DEF TypeOK
    <2>2. call' \in [data : Seq(Byte), i : Nat, index : 0 .. Block - 1]
      <3>1. call \in [data : Seq(Byte), i : Nat, index : 0 .. Block - 1] /\ n \in Nat
        BY <1>1, <1>2 DEF TypeOK
      <3> HIDE DEF n
      <3> QED BY <1>3, <3>1
    <2> QED BY <1>1, <1>7, <2>1, <2>2 DEF TypeOK
  <1>10. CallShape'
    BY <1>1, <1>2, <1>5 DEF CallShape
  <1>11. /\ ctx.count = Len(Sent) /\ Len(Sent) = Len(hashed) + call.index + Len(call.data)
         /\ \A j \in 1 .. Len(call.data) :
               call.data[j] = Sent[Len(hashed) + call.index + j]
    <2>1. \A j \in 1 .. Len(call.data) :
             call.data[call.i + j] = Sent[Len(hashed) + Held + j]
      BY <1>1, <1>2 DEF Everywhere
    <2>2. \A j \in 1 .. Len(call.data) : call.i + j = j
      BY <1>2
    <2> QED BY <1>1, <1>2, <2>1, <2>2 DEF Everywhere
  <1>12. Everywhere'
    <2>1. Len(hashed') % Block = 0
      BY <1>1, <1>7, <1>8, Multiples DEF Everywhere
    <2>2. ASSUME NEW j \in 1 .. Block PROVE full[j] = Sent[Len(hashed) + j]
      <3>1. CASE j <= call.index
        BY <1>1, <1>2, <1>4, <3>1 DEF Everywhere, full
      <3>2. CASE j > call.index
        <4>1. j - call.index \in 1 .. n /\ j = call.index + (j - call.index)
          BY <1>2, <3>2
        <4>2. full[j] = call.data[j - call.index]
          BY <1>4, <4>1 DEF full
        <4>3. /\ call.data[j - call.index] = Sent[Len(hashed) + call.index + (j - call.index)]
              /\ Len(hashed) + call.index + (j - call.index) = Len(hashed) + j
          <5>1. j - call.index \in 1 .. Len(call.data)
            BY <1>a, <4>1
          <5>2. Len(hashed) + call.index + (j - call.index) = Len(hashed) + j
            BY <1>d
          <5> QED BY <1>11, <5>1, <5>2
        <4> QED BY <4>2, <4>3
      <3> QED BY <1>2, <3>1, <3>2
    <2>3. ASSUME NEW j \in 1 .. Len(hashed') PROVE hashed'[j] = Sent[j]
      <3>1. CASE j <= Len(hashed)
        BY <1>1, <1>7, <1>8, <3>1 DEF Everywhere
      <3>2. CASE j > Len(hashed)
        <4>1. j - Len(hashed) \in 1 .. Block /\ j = Len(hashed) + (j - Len(hashed))
          BY SMTT(30), <1>2, <1>7, <1>8, <3>2
        <4> QED BY <1>7, <2>2, <4>1
      <3> QED BY <1>7, <1>8, <3>1, <3>2
    <2>4. ASSUME NEW j \in 1 .. Len(call.data) - n
          PROVE  call.data[n + j] = Sent[Len(hashed) + Block + j]
      <3>1. /\ n + j \in 1 .. Len(call.data)
            /\ Len(hashed) + call.index + (n + j) = Len(hashed) + Block + j
        BY <1>b, <1>c
      <3> QED BY <1>11, <3>1
    <2>5. Len(Sent) = Len(hashed) + Block + (Len(call.data) - n)
      BY <1>a, <1>11
    <2>6. ctx'.count = Len(Sent)
      BY <1>5, <1>11
    <2> DEFINE left == Len(call.data) - n
    <2>7. Left' = left /\ Held' = 0
      BY <1>8, <1>a
    <2>8. /\ Len(Sent) = Len(hashed') + 0 + left
          /\ \A j \in 1 .. left : call'.data[call'.i + j] = Sent[Len(hashed') + 0 + j]
      BY <1>5, <1>7, <1>8, <1>a, <2>4, <2>5
    <2> HIDE DEF left
    <2> QED BY <1>8, <2>1, <2>3, <2>6, <2>7, <2>8, EverywhereAgain
  <1> QED BY <1>9, <1>10, <1>12 DEF StreamInv

LEMMA WholeBlockKeeps == ASSUME StreamInv, WholeBlock PROVE StreamInv'
  <1> DEFINE piece == SubSeq(call.data, call.i + 1, call.i + Block)
             left  == Len(call.data) - call.i
  <1>1. /\ TypeOK /\ CallShape /\ Everywhere /\ pc = "blocks"
        /\ UNCHANGED <<ctx, pc, stage, bits, message>>
        /\ hashed' = hashed \o piece /\ call' = [call EXCEPT !.i = @ + Block]
        /\ call.i + (Block - 1) < Len(call.data)
    BY DEF StreamInv, WholeBlock
  <1>2. /\ call.i \in Nat /\ Len(call.data) \in Nat /\ Block \in Nat \ {0}
        /\ call.data \in Seq(Byte) /\ hashed \in Seq(Byte) /\ Len(hashed) \in Nat
        /\ Held = 0 /\ Left = left
    <2>1. Held = 0 /\ Left = left
      BY <1>1 DEF Held, Left
    <2>2. call \in [data : Seq(Byte), i : Nat, index : 0 .. Block - 1] /\ hashed \in Seq(Byte)
      BY <1>1 DEF TypeOK
    <2>3. Len(call.data) \in Nat /\ Len(hashed) \in Nat
      BY <2>2
    <2> QED BY <2>1, <2>2, <2>3, BlockSize
  <1>3. /\ call'.i = call.i + Block /\ call'.data = call.data /\ call'.index = call.index
        /\ call.i + Block <= Len(call.data)
    BY <1>1, <1>2 DEF TypeOK
  <1>4. /\ piece \in Seq(Byte) /\ Len(piece) = Block
        /\ \A j \in 1 .. Block : piece[j] = call.data[call.i + j]
    <2> DEFINE a == call.i + 1
               b == call.i + Block
    <2>1. /\ a \in Nat /\ b \in Nat /\ a >= 1 /\ a <= b /\ b <= Len(call.data)
          /\ b - a + 1 = Block
      BY <1>2, <1>3
    <2>2. \A j \in 1 .. Block : a + j - 1 = call.i + j
      BY <1>2
    <2> HIDE DEF a, b
    <2>3. /\ SubSeq(call.data, a, b) \in Seq(Byte) /\ Len(SubSeq(call.data, a, b)) = b - a + 1
          /\ \A j \in 1 .. b - a + 1 : SubSeq(call.data, a, b)[j] = call.data[a + j - 1]
      BY <1>2, <2>1
    <2> QED BY <2>1, <2>2, <2>3 DEF a, b
  <1> HIDE DEF piece
  <1>5. /\ hashed' \in Seq(Byte) /\ Len(hashed') = Len(hashed) + Block
        /\ \A j \in 1 .. Len(hashed) : hashed'[j] = hashed[j]
        /\ \A j \in 1 .. Block : hashed'[Len(hashed) + j] = piece[j]
    BY <1>1, <1>2, <1>4, Concatenation
  <1>6. Sent' = Sent /\ Held' = 0 /\ Left' = left - Block
    BY <1>1, <1>2, <1>3 DEF Sent, Held, Left, Pad, PadFor, Padding, LengthBytes
  <1>7. TypeOK'
    <2>1. call' \in [data : Seq(Byte), i : Nat, index : 0 .. Block - 1]
      <3>1. call \in [data : Seq(Byte), i : Nat, index : 0 .. Block - 1]
        BY <1>1 DEF TypeOK
      <3>2. call.i + Block \in Nat
        BY <1>2
      <3> QED BY ONLY <1>1, <3>1, <3>2
    <2> QED BY <1>1, <1>5, <2>1 DEF TypeOK
  <1>8. CallShape'
    BY <1>1, <1>2, <1>3 DEF CallShape
  <1>9. /\ ctx.count = Len(Sent) /\ Len(Sent) = Len(hashed) + left
        /\ \A j \in 1 .. left : call.data[call.i + j] = Sent[Len(hashed) + j]
        /\ \A j \in 1 .. Len(hashed) : hashed[j] = Sent[j]
    <2>1. /\ Len(Sent) = Len(hashed) + 0 + left
          /\ \A j \in 1 .. left : call.data[call.i + j] = Sent[Len(hashed) + 0 + j]
      BY <1>1, <1>2 DEF Everywhere
    <2>2. Len(hashed) + 0 = Len(hashed)
      BY <1>2
    <2> QED BY <1>1, <2>1, <2>2 DEF Everywhere
  <1>10. left \in Nat /\ left - Block \in Nat
    BY <1>2, <1>3
  <1> HIDE DEF left
  <1>11. Everywhere'
    <2>1. Len(hashed') % Block = 0
      BY <1>1, <1>2, <1>5, Multiples DEF Everywhere
    <2>2. ASSUME NEW j \in 1 .. Len(hashed') PROVE hashed'[j] = Sent[j]
      <3>1. CASE j <= Len(hashed)
        BY <1>2, <1>5, <1>9, <3>1
      <3>2. CASE j > Len(hashed)
        <4>1. j - Len(hashed) \in 1 .. Block /\ j = Len(hashed) + (j - Len(hashed))
          BY <1>2, <1>5, <3>2
        <4>2. j - Len(hashed) \in 1 .. left
          BY <1>2, <1>10, <4>1
        <4> QED BY <1>4, <1>5, <1>9, <4>1, <4>2
      <3> QED BY <1>2, <1>5, <3>1, <3>2
    <2>3. ASSUME NEW j \in 1 .. left - Block
          PROVE  call.data[(call.i + Block) + j] = Sent[(Len(hashed) + Block) + 0 + j]
      <3>1. /\ Block + j \in 1 .. left
            /\ call.i + (Block + j) = (call.i + Block) + j
            /\ Len(hashed) + (Block + j) = (Len(hashed) + Block) + 0 + j
        BY <1>2, <1>10
      <3>2. call.data[call.i + (Block + j)] = Sent[Len(hashed) + (Block + j)]
        BY <1>9, <3>1
      <3> QED BY <3>1, <3>2
    <2>4. \A j \in 1 .. left - Block : call'.data[call'.i + j] = Sent[Len(hashed') + 0 + j]
      BY <1>3, <1>5, <2>3
    <2>5. Len(Sent) = Len(hashed') + 0 + (left - Block)
      BY <1>2, <1>5, <1>9, <1>10
    <2>6. ctx'.count = Len(Sent)
      BY <1>1, <1>9
    <2> QED BY <1>6, <2>1, <2>2, <2>4, <2>5, <2>6, EverywhereAgain
  <1> QED BY <1>7, <1>8, <1>11 DEF StreamInv

LEMMA BlocksEndKeeps == ASSUME StreamInv, BlocksEnd PROVE StreamInv'
  <1>1. /\ TypeOK /\ CallShape /\ Everywhere /\ pc = "blocks" /\ pc' = "rest"
        /\ UNCHANGED <<ctx, stage, bits, hashed, message>>
        /\ call' = [call EXCEPT !.index = 0]
        /\ call.i + (Block - 1) >= Len(call.data)
    BY DEF StreamInv, BlocksEnd
  <1>2. /\ call.i \in Nat /\ Len(call.data) \in Nat /\ Block \in Nat \ {0}
        /\ call'.i = call.i /\ call'.data = call.data /\ call'.index = 0
    BY <1>1, BlockSize DEF TypeOK
  <1>3. Sent' = Sent /\ Held' = 0 /\ Left' = Left /\ Held = 0
    BY <1>1, <1>2 DEF Sent, Held, Left, Pad, PadFor, Padding, LengthBytes
  <1>4. TypeOK'
    <2>1. call' \in [data : Seq(Byte), i : Nat, index : 0 .. Block - 1]
      <3>1. call \in [data : Seq(Byte), i : Nat, index : 0 .. Block - 1]
        BY <1>1 DEF TypeOK
      <3>2. 0 \in 0 .. Block - 1
        BY <1>2
      <3> QED BY ONLY <1>1, <3>1, <3>2
    <2> QED BY <1>1, <2>1 DEF TypeOK
  <1>5. CallShape'
    BY <1>1, <1>2 DEF CallShape, Left
  <1>6. Everywhere'
    BY <1>1, <1>2, <1>3, EverywhereAgain DEF Everywhere
  <1> QED BY <1>4, <1>5, <1>6 DEF StreamInv

LEMMA RestKeeps == ASSUME StreamInv, Rest PROVE StreamInv'
  <1> DEFINE n == Len(call.data) - call.i
  <1>1. /\ TypeOK /\ CallShape /\ Everywhere /\ pc = "rest" /\ pc' = "ready"
        /\ UNCHANGED <<stage, bits, hashed, message>>
        /\ call' = NoCall /\ ctx' = [ctx EXCEPT !.buffer = Copied(n)]
    BY DEF StreamInv, Rest
  <1>2. /\ call.i \in Nat /\ Len(call.data) \in Nat /\ Block \in Nat \ {0}
        /\ call.index \in 0 .. Block - 1 /\ n \in Nat
        /\ Held = call.index /\ Left = n /\ call.index + n < Block
        /\ call.i + n = Len(call.data) /\ Len(hashed) \in Nat
    BY <1>1, BlockSize DEF TypeOK, CallShape, Held, Left
  <1> HIDE DEF n
  <1>3. /\ Copied(n) \in [1 .. Block -> Byte]
        /\ \A k \in 1 .. call.index : Copied(n)[k] = ctx.buffer[k]
        /\ \A k \in 1 .. n : Copied(n)[call.index + k] = call.data[call.i + k]
    <2>1. call.index + n <= Block /\ call.i + n <= Len(call.data)
      BY <1>2
    <2> QED BY <1>1, <1>2, <2>1, CopyFacts
  <1>4. /\ ctx'.buffer = Copied(n) /\ ctx'.count = ctx.count
        /\ call'.i = 0 /\ call'.data = << >> /\ call'.index = 0
    BY <1>1 DEF TypeOK, NoCall
  <1>5. /\ ctx.count = Len(Sent) /\ Len(Sent) = Len(hashed) + call.index + n
        /\ \A j \in 1 .. Len(hashed) : hashed[j] = Sent[j]
        /\ \A j \in 1 .. call.index : ctx.buffer[j] = Sent[Len(hashed) + j]
        /\ \A j \in 1 .. n : call.data[call.i + j] = Sent[Len(hashed) + call.index + j]
    BY <1>1, <1>2 DEF Everywhere
  <1>6. ctx.count % Block = call.index + n
    <2>1. call.index + n \in 0 .. Block - 1 /\ ctx.count = Len(hashed) + (call.index + n)
      BY <1>2, <1>5
    <2>2. Len(hashed) % Block = 0
      BY <1>1 DEF Everywhere
    <2> QED BY ONLY <1>2, <2>1, <2>2, Multiples
  <1>7. Sent' = Sent /\ Held' = call.index + n /\ Left' = 0
    BY <1>1, <1>4, <1>6 DEF Sent, Held, Left, Index, Pad, PadFor, Padding, LengthBytes
  <1>8. TypeOK'
    <2>1. ctx' \in [count : Nat, buffer : [1 .. Block -> Byte]]
      BY <1>1, <1>3 DEF TypeOK
    <2>2. call' \in [data : Seq(Byte), i : Nat, index : 0 .. Block - 1]
      BY <1>1, <1>2 DEF NoCall
    <2> QED BY <1>1, <2>1, <2>2 DEF TypeOK
  <1>9. CallShape'
    BY <1>1, <1>2, <1>4 DEF CallShape
  <1>10. Everywhere'
    <2>1. ASSUME NEW j \in 1 .. call.index + n
          PROVE  Copied(n)[j] = Sent[Len(hashed) + j]
      <3>1. CASE j <= call.index
        BY <1>2, <1>3, <1>5, <3>1
      <3>2. CASE j > call.index
        <4>1. /\ j - call.index \in 1 .. n /\ j = call.index + (j - call.index)
              /\ Len(hashed) + call.index + (j - call.index) = Len(hashed) + j
          BY <1>2, <3>2
        <4>2. /\ Copied(n)[call.index + (j - call.index)] = call.data[call.i + (j - call.index)]
              /\ call.data[call.i + (j - call.index)]
                    = Sent[Len(hashed) + call.index + (j - call.index)]
          BY <1>3, <1>5, <4>1
        <4> QED BY <4>1, <4>2
      <3> QED BY <1>2, <3>1, <3>2
    <2>2. Len(Sent) = Len(hashed') + (call.index + n) + 0
      BY <1>1, <1>2, <1>5
    <2>3. \A j \in 1 .. call.index + n : ctx'.buffer[j] = Sent[Len(hashed') + j]
      BY <1>1, <1>4, <2>1
    <2>4. Len(hashed') % Block = 0 /\ ctx'.count = Len(Sent)
          /\ \A j \in 1 .. Len(hashed') : hashed'[j] = Sent[j]
      BY <1>1, <1>4, <1>5 DEF Everywhere
    <2>5. \A j \in 1 .. 0 : call'.data[call'.i + j] = Sent[Len(hashed') + (call.index + n) + j]
      OBVIOUS
    <2> QED BY <1>7, <2>2, <2>3, <2>4, <2>5, EverywhereAgain
  <1> QED BY <1>8, <1>9, <1>10 DEF StreamInv

LEMMA FeedKeeps == ASSUME StreamInv, NEW chunk \in Chunks, Feed(chunk) PROVE StreamInv'
  <1>1. /\ pc = "ready" /\ stage = "message" /\ Enter(chunk) /\ stage' = "message"
        /\ message' = message \o chunk /\ bits' = bits
    BY DEF Feed
  <1>2. TypeOK /\ chunk \in Seq(Byte) /\ message \in Seq(Byte) /\ bits \in Seq(Byte)
    BY StreamAssumption DEF StreamInv, TypeOK
  <1>3. Sent = message /\ Sent' = message' /\ message' \in Seq(Byte)
    BY <1>1, <1>2 DEF Sent
  <1> QED BY <1>1, <1>2, <1>3, EnterKeeps

\* sha256_final: the padding.
LEMMA FinalKeeps == ASSUME StreamInv, Final PROVE StreamInv'
  <1>1. /\ pc = "ready" /\ stage = "message" /\ Enter(Padding(PadLength))
        /\ stage' = "padding" /\ bits' = LengthBytes(ctx.count) /\ message' = message
    BY DEF Final
  <1>2. /\ TypeOK /\ message \in Seq(Byte) /\ Len(message) \in Nat
        /\ Sent = message /\ ctx.count = Len(message)
    BY <1>1 DEF StreamInv, TypeOK, Everywhere, Sent
  <1>3. PadLength = PadFor(Len(message))
    BY <1>2 DEF PadLength, PadFor, Index
  <1>4. /\ PadFor(Len(message)) \in 1 .. Block /\ PadFor(Len(message)) \in Nat
        /\ Block \in Nat
    BY <1>2, PadFills, BlockSize
  <1>5. /\ Padding(PadLength) = Pad(message)
        /\ Pad(message) \in Seq(Byte) /\ Len(Pad(message)) = PadFor(Len(message))
    BY <1>3, <1>4, PaddingType DEF Pad
  <1>6. bits' = LengthBytes(Len(message)) /\ bits' \in Seq(Byte)
    BY <1>1, <1>2, LengthBytesType
  <1>7. Sent' = Sent \o Pad(message)
    BY <1>1, <1>2 DEF Sent, Pad, PadFor, Padding
  <1>8. Len(Pad(message)) <= Block
    BY <1>4, <1>5
  <1> QED BY <1>1, <1>2, <1>5, <1>6, <1>7, <1>8, EnterKeeps

\* sha256_final: the length that was taken down before.
LEMMA FinalLengthKeeps == ASSUME StreamInv, FinalLength PROVE StreamInv'
  <1>1. /\ pc = "ready" /\ stage = "padding" /\ Enter(bits)
        /\ stage' = "length" /\ bits' = bits /\ message' = message
    BY DEF FinalLength
  <1>2. /\ TypeOK /\ message \in Seq(Byte) /\ Len(message) \in Nat
        /\ bits \in Seq(Byte) /\ bits = LengthBytes(Len(message))
        /\ Sent = message \o Pad(message)
    BY <1>1 DEF StreamInv, TypeOK, CallShape, Sent
  <1>3. Sent' = Sent \o bits
    BY <1>1, <1>2 DEF Sent, Pad, PadFor, Padding, LengthBytes
  <1> QED BY <1>1, <1>2, <1>3, EnterKeeps

LEMMA DigestKeeps == ASSUME StreamInv, Digest PROVE StreamInv'
  <1>1. /\ pc = "ready" /\ pc' = "done" /\ stage = "length"
        /\ UNCHANGED <<ctx, call, stage, bits, hashed, message>>
    BY DEF Digest
  <1>2. Sent' = Sent /\ Held' = Held /\ Left' = Left
    BY <1>1 DEF Sent, Held, Left, Index, Pad, PadFor, Padding, LengthBytes
  <1>3. Everywhere'
    BY <1>1, <1>2, EverywhereAgain DEF StreamInv, Everywhere
  <1>4. TypeOK' /\ CallShape'
    BY <1>1 DEF StreamInv, TypeOK, CallShape
  <1> QED BY <1>3, <1>4 DEF StreamInv

LEMMA StreamStutters == ASSUME StreamInv, UNCHANGED vars PROVE StreamInv'
  <1>1. UNCHANGED <<ctx, call, pc, stage, bits, hashed, message>>
    BY DEF vars
  <1>2. Sent' = Sent /\ Held' = Held /\ Left' = Left
    BY <1>1 DEF Sent, Held, Left, Index, Pad, PadFor, Padding, LengthBytes
  <1>3. Everywhere'
    BY <1>1, <1>2, EverywhereAgain DEF StreamInv, Everywhere
  <1>4. TypeOK' /\ CallShape'
    BY <1>1, <1>2 DEF StreamInv, TypeOK, CallShape
  <1> QED BY <1>3, <1>4 DEF StreamInv

\* The engine keeps its bytes together: what is compressed, what is buffered
\* and what is left of the running call are the bytes handed over so far.
THEOREM StreamsTogether == UtilsSpec => []StreamInv
  <1>1. UtilsInit => StreamInv
    BY StreamStarts DEF UtilsInit
  <1>2. ASSUME StreamInv, [UtilsNext]_Utils PROVE StreamInv'
    <2>1. CASE Next
      BY <1>2, <2>1, FeedKeeps, FillKeeps, WholeBlockKeeps, BlocksEndKeeps, RestKeeps,
         FinalKeeps, FinalLengthKeeps, DigestKeeps DEF Next
    <2>2. CASE UNCHANGED vars
      BY <1>2, <2>2, StreamStutters
    <2> QED BY <1>2, <2>1, <2>2 DEF UtilsNext, Utils
  <1> QED BY <1>1, <1>2, PTL DEF UtilsSpec

\* No memcpy of sha256_update runs past the buffer or its source, and the
\* padding never outgrows the static array.
THEOREM CopiesInside == UtilsSpec => []CopiesStayInside
  <1>1. ASSUME StreamInv PROVE CopiesStayInside
    <2>1. TypeOK /\ CallShape
      BY <1>1 DEF StreamInv
    <2>2. /\ call.index \in Nat /\ call.i \in Nat /\ Len(call.data) \in Nat /\ Block \in Nat
      BY <2>1, BlockSize DEF TypeOK
    <2> QED BY <2>1, <2>2 DEF CopiesStayInside, CallShape, Left
  <1> QED BY <1>1, StreamsTogether, PTL

\* Whatever the pieces, the compression is given the padded message of the
\* standard: sha256_final ends on a block with nothing left in the buffer.
THEOREM HashesPadding == UtilsSpec => []HashesThePadding
  <1>1. ASSUME StreamInv PROVE HashesThePadding
    <2> SUFFICES ASSUME pc = "done" PROVE IsPadded(hashed, message)
      BY DEF HashesThePadding
    <2> DEFINE n == PadFor(Len(message))
    <2>1. /\ TypeOK /\ Everywhere /\ stage = "length" /\ call = NoCall
          /\ message \in Seq(Byte) /\ Len(message) \in Nat /\ hashed \in Seq(Byte)
      BY <1>1 DEF StreamInv, CallShape, TypeOK
    <2>2. n \in 1 .. Block /\ (Len(message) + n + Trailer) % Block = 0
      BY <2>1, PadFills
    <2>3. /\ Pad(message) \in Seq(Byte) /\ Len(Pad(message)) = n
          /\ Pad(message) = Padding(n)
      BY <2>2, BlockSize, PaddingType DEF Pad
    <2>4. /\ LengthBytes(Len(message)) \in Seq(Byte)
          /\ Len(LengthBytes(Len(message))) = Trailer
      BY <2>1, LengthBytesType
    <2>5. Sent = (message \o Pad(message)) \o LengthBytes(Len(message))
      BY <2>1 DEF Sent
    <2> HIDE DEF n
    <2>6. Len(Sent) = Len(message) + n + Trailer /\ Sent \in Seq(Byte)
      <3>1. /\ message \o Pad(message) \in Seq(Byte)
            /\ Len(message \o Pad(message)) = Len(message) + n
        BY <2>1, <2>3, Concatenation
      <3> QED BY <2>4, <2>5, <3>1, Concatenation
    <2>7. Held = 0 /\ Left = 0
      BY <2>1, <2>2, <2>6 DEF Everywhere, Held, Left, Index, NoCall
    <2>8. Len(hashed) = Len(Sent) /\ \A j \in 1 .. Len(hashed) : hashed[j] = Sent[j]
      BY <2>1, <2>7 DEF Everywhere
    <2>9. hashed = Sent
      BY <2>1, <2>6, <2>8
    <2>10. /\ n - 1 \in 0 .. Block - 1 /\ 1 + (n - 1) = n
           /\ (Len(message) + 1 + (n - 1) + Trailer) = Len(message) + n + Trailer
      BY <2>1, <2>2, BlockSize
    <2> QED BY <2>2, <2>3, <2>5, <2>9, <2>10 DEF IsPadded
  <1> QED BY <1>1, StreamsTogether, PTL

(***************************************************************************)
(* Base64.                                                                 *)
(***************************************************************************)
\* Byte j of `d`, or what the encoders put in its place behind the end.
ByteOf(d, j) == IF j < Len(d) THEN d[j + 1] ELSE 0

\* The four groups of six bits that three bytes make.
Sextet(d, g, r) ==
    CASE r = 0 -> ByteOf(d, 3 * g) \div 4
      [] r = 1 -> (ByteOf(d, 3 * g) % 4) * 16 + (ByteOf(d, 3 * g + 1) \div 16)
      [] r = 2 -> (ByteOf(d, 3 * g + 1) % 16) * 4 + (ByteOf(d, 3 * g + 2) \div 64)
      [] r = 3 -> ByteOf(d, 3 * g + 2) % 64

\* How many of them it takes to write n bytes.
Needed(n) == (4 * n + 2) \div 3

Begins(t, k, d, m) ==
    /\ m <= Len(t)
    /\ \A g \in Nat, r \in 0 .. 3 :
          4 * g + r < m => t[4 * g + r + 1] = Codec!Table(k, Sextet(d, g, r))

\* `t` is the text of `d`, with padding or without.
Encodes(t, k, d) ==
    /\ Begins(t, k, d, Needed(Len(d)))
    /\ \A j \in Needed(Len(d)) + 1 .. Len(t) : t[j] = Codec!PadCharacter

LEMMA BytesOf ==
    ASSUME NEW d \in Seq(Byte), NEW j \in Nat PROVE ByteOf(d, j) \in Byte
  <1>1. j < Len(d) => d[j + 1] \in Byte
    OBVIOUS
  <1>2. 0 \in Byte
    BY DEF Byte
  <1> QED BY <1>1, <1>2 DEF ByteOf

LEMMA SixBits ==
    ASSUME NEW x \in 0 .. 255, NEW y \in 0 .. 255
    PROVE  /\ x \div 4 \in 0 .. 63 /\ y % 64 \in 0 .. 63
           /\ (x % 4) * 16 + (y \div 16) \in 0 .. 63
           /\ (x % 16) * 4 + (y \div 64) \in 0 .. 63
  OBVIOUS

LEMMA SextetType ==
    ASSUME NEW d \in Seq(Byte), NEW g \in Nat, NEW r \in 0 .. 3
    PROVE  Sextet(d, g, r) \in 0 .. 63
  <1> DEFINE x == ByteOf(d, 3 * g)
             y == ByteOf(d, 3 * g + 1)
             z == ByteOf(d, 3 * g + 2)
  <1>1. x \in 0 .. 255 /\ y \in 0 .. 255 /\ z \in 0 .. 255
    BY BytesOf DEF Byte
  <1>2. /\ r = 0 => Sextet(d, g, r) = x \div 4
        /\ r = 1 => Sextet(d, g, r) = (x % 4) * 16 + (y \div 16)
        /\ r = 2 => Sextet(d, g, r) = (y % 16) * 4 + (z \div 64)
        /\ r = 3 => Sextet(d, g, r) = z % 64
    BY DEF Sextet
  <1> HIDE DEF x, y, z
  <1>3. /\ x \div 4 \in 0 .. 63 /\ (x % 4) * 16 + (y \div 16) \in 0 .. 63
    BY ZenonT(40), <1>1, SixBits
  <1>4. (y % 16) * 4 + (z \div 64) \in 0 .. 63 /\ z % 64 \in 0 .. 63
    BY ZenonT(40), <1>1, SixBits
  <1>5. r = 0 \/ r = 1 \/ r = 2 \/ r = 3
    OBVIOUS
  <1> QED BY <1>2, <1>3, <1>4, <1>5

\* The decoder reads every character of either table back.
LEMMA ReadsBack ==
    ASSUME NEW k \in {"url", "plain"}, NEW v \in 0 .. 63
    PROVE  /\ Codec!Table(k, v) \in Nat
           /\ Codec!CharValue(Codec!Table(k, v)) = v
  <1>1. CASE v < 26
    BY <1>1 DEF Codec!Table, Codec!Letter, Codec!CharValue
  <1>2. CASE v \in 26 .. 51
    BY <1>2 DEF Codec!Table, Codec!Letter, Codec!CharValue
  <1>3. CASE v \in 52 .. 61
    BY <1>3 DEF Codec!Table, Codec!Letter, Codec!CharValue
  <1>4. CASE v = 62
    BY <1>4 DEF Codec!Table, Codec!Last, Codec!CharValue
  <1>5. CASE v = 63
    BY <1>5 DEF Codec!Table, Codec!Last, Codec!CharValue
  <1> QED BY <1>1, <1>2, <1>3, <1>4, <1>5

LEMMA PaddingIsSkipped == Codec!CharValue(Codec!PadCharacter) = -1
  BY DEF Codec!PadCharacter, Codec!CharValue

\* b holds the bytes x, y and z.
Splits(b, x, y, z) ==
    /\ (b \div 262144) % 64 = x \div 4
    /\ (b \div 4096) % 64 = (x % 4) * 16 + (y \div 16)
    /\ (b \div 64) % 64 = (y % 16) * 4 + (z \div 64)
    /\ (b \div 1) % 64 = z % 64

Joined(x, y, z) == 65536 * x + 256 * y + z

LEMMA ThreeBytes ==
    ASSUME NEW x \in 0 .. 255, NEW y \in 0 .. 255, NEW z \in 0 .. 255
    PROVE  Splits(Joined(x, y, z), x, y, z)
  <1>1. PICK b : b = Joined(x, y, z)
    OBVIOUS
  <1>2. b = 65536 * x + 256 * y + z
    BY <1>1 DEF Joined
  <1>3. (b \div 262144) % 64 = x \div 4
    BY <1>2
  <1>4. (b \div 4096) % 64 = (x % 4) * 16 + (y \div 16)
    BY SMTT(30), <1>2
  <1>5. (b \div 64) % 64 = (y % 16) * 4 + (z \div 64)
    BY <1>2
  <1>6. (b \div 1) % 64 = z % 64
    BY <1>2
  <1>7. Splits(b, x, y, z)
    BY <1>3, <1>4, <1>5, <1>6 DEF Splits
  <1> QED BY <1>1, <1>7

Written(r, q) == <<Codec!Table(kind, Sextet(data, q, r))>>

\* What an encoder appends for the bytes from 3q on.
LEMMA GroupIs ==
    ASSUME kind \in {"url", "plain"}, data \in Seq(Byte), NEW q \in Nat, i = 3 * q,
           i < Len(data)
    PROVE  Codec!Group = Written(0, q) \o Written(1, q)
               \o (IF i + 1 < Len(data) THEN Written(2, q) ELSE Codec!Filler)
               \o (IF i + 2 < Len(data) THEN Written(3, q) ELSE Codec!Filler)
  <1> DEFINE x == ByteOf(data, 3 * q)
             y == ByteOf(data, 3 * q + 1)
             z == ByteOf(data, 3 * q + 2)
             b == Joined(x, y, z)
  <1>1. x \in 0 .. 255 /\ y \in 0 .. 255 /\ z \in 0 .. 255
    BY BytesOf DEF Byte
  <1>2. Codec!ByteAt(i) = x /\ Codec!ByteAt(i + 1) = y /\ Codec!ByteAt(i + 2) = z
    BY DEF Codec!ByteAt, ByteOf
  <1>3. /\ Sextet(data, q, 0) = x \div 4
        /\ Sextet(data, q, 1) = (x % 4) * 16 + (y \div 16)
        /\ Sextet(data, q, 2) = (y % 16) * 4 + (z \div 64)
        /\ Sextet(data, q, 3) = z % 64
    BY DEF Sextet
  <1> HIDE DEF x, y, z
  <1>4. /\ (b \div 262144) % 64 = Sextet(data, q, 0)
        /\ (b \div 4096) % 64 = Sextet(data, q, 1)
        /\ (b \div 64) % 64 = Sextet(data, q, 2)
        /\ (b \div 1) % 64 = Sextet(data, q, 3)
    <2>1. Splits(b, x, y, z)
      BY <1>1, ThreeBytes
    <2> HIDE DEF b
    <2> QED BY <1>3, <2>1 DEF Splits
  <1>5. b = Codec!ThreeBytes
    <2>1. b = 65536 * x + 256 * y + z
      BY DEF Joined
    <2> HIDE DEF b
    <2> QED BY <1>2, <2>1 DEF Codec!ThreeBytes
  <1> HIDE DEF b
  <1>6. /\ Codec!Char(1) = Written(0, q)
        /\ Codec!Char(2) = Written(1, q)
        /\ Codec!Char(3) = Written(2, q)
        /\ Codec!Char(4) = Written(3, q)
    BY <1>4, <1>5 DEF Codec!Char, Written
  <1>7. PICK c, e : /\ c = (IF i + 1 < Len(data) THEN Written(2, q) ELSE Codec!Filler)
                    /\ e = (IF i + 2 < Len(data) THEN Written(3, q) ELSE Codec!Filler)
    OBVIOUS
  <1>8. Codec!Group = Codec!Char(1) \o Codec!Char(2) \o c \o e
    <2>1. /\ c = (IF i + 1 < Len(data) THEN Codec!Char(3) ELSE Codec!Filler)
          /\ e = (IF i + 2 < Len(data) THEN Codec!Char(4) ELSE Codec!Filler)
      BY <1>6, <1>7, Zenon
    <2> QED BY <2>1, Zenon DEF Codec!Group
  <1>9. Codec!Group = Written(0, q) \o Written(1, q) \o c \o e
    BY <1>6, <1>8, Zenon
  <1> QED BY <1>7, <1>9, Zenon

CodecTypes ==
    /\ kind \in {"url", "plain"} /\ data \in Seq(Byte) /\ text \in Seq(Nat)
    /\ output \in Seq(Nat) /\ i \in Nat /\ room \in Nat

\* The encoder has written the first q groups; behind the end of the bytes
\* the text is whole.
Encoding(q) ==
    /\ i = 3 * q /\ i < Len(data) + 3
    /\ IF i <= Len(data) THEN Len(text) = 4 * q /\ Begins(text, kind, data, 4 * q)
                         ELSE Encodes(text, kind, data)
    /\ Len(text) < room /\ Len(text) <= Codec!PlainLength(Len(data))
    /\ kind = "plain" => Codec!PlainLength(Len(data)) < room

\* The decoder has seen g whole groups and r sextets of the next one.  The
\* last six bits of the accumulator are the last sextet.
Decoding(g, r) ==
    /\ 4 * g + r <= Needed(Len(data))
    /\ i = 4 * g + r \/ (i > Needed(Len(data)) /\ 4 * g + r = Needed(Len(data)))
    /\ Len(output) = 3 * g + <<0, 0, 1, 2>>[r + 1]
    /\ \A j \in 1 .. Len(output) : j <= Len(data) /\ output[j] = data[j]
    /\ acc.bits = <<0, 6, 4, 2>>[r + 1] /\ acc.buf \in Nat
    /\ r > 0 => acc.buf % 64 = Sextet(data, g, r - 1)

CodecInv ==
    /\ CodecTypes
    /\ step = "encode"  => \E q \in Nat : Encoding(q)
    /\ step = "encoded" => Encodes(text, kind, data) /\ Len(text) < room
    /\ step \in {"decode", "decoded"} =>
          /\ Encodes(text, kind, data) /\ i <= Len(text) /\ Len(output) <= room
          /\ \E g \in Nat, r \in 0 .. 3 : Decoding(g, r)
    /\ step = "decoded"  => i = Len(text)
    /\ step = "refused"  => Len(text) <= room /\ room <= Codec!PlainLength(Len(data))
    /\ step = "overflow" => Len(output) = room /\ room < Len(data)

LEMMA CodecStarts == Codec!Init => CodecInv
  BY DEF Codec!Init, CodecInv, CodecTypes

LEMMA ByteInputs == Inputs \subseteq Seq(Byte) /\ Sizes \subseteq Nat \ {0}
  BY CodecAssumption DEF Byte

LEMMA EncodeKeeps ==
    ASSUME CodecInv, NEW k \in {"url", "plain"}, NEW bytes \in Inputs, NEW size \in Sizes,
           Codec!Encode(k, bytes, size)
    PROVE  CodecInv'
  <1>1. /\ kind' = k /\ data' = bytes /\ room' = size /\ text' = <<>> /\ i' = 0
        /\ step' = IF k = "plain" /\ size < Codec!PlainLength(Len(bytes)) + 1
                   THEN "refused" ELSE "encode"
        /\ UNCHANGED <<acc, output>>
    BY DEF Codec!Encode
  <1>2. CodecTypes' /\ Len(bytes) \in Nat
    BY <1>1, ByteInputs DEF CodecInv, CodecTypes
  <1>3. Codec!PlainLength(Len(bytes)) \in Nat
    BY <1>2 DEF Codec!PlainLength
  <1>4. size \in Nat /\ size > 0
    BY ByteInputs
  <1>5. CASE step' = "refused"
    <2>1. size <= Codec!PlainLength(Len(bytes))
      BY <1>1, <1>3, <1>4, <1>5
    <2> QED BY <1>1, <1>2, <1>4, <1>5, <2>1 DEF CodecInv
  <1>6. CASE step' = "encode"
    <2>1. Begins(<<>>, k, bytes, 4 * 0)
      BY DEF Begins
    <2>2. k = "plain" => Codec!PlainLength(Len(bytes)) < size
      BY <1>1, <1>3, <1>4, <1>6
    <2>3. Encoding(0)'
      BY <1>1, <1>2, <1>3, <1>4, <2>1, <2>2 DEF Encoding
    <2>4. \E q \in Nat : Encoding(q)'
      BY <2>3
    <2> QED BY <1>2, <1>6, <2>4 DEF CodecInv
  <1> QED BY <1>1, <1>5, <1>6

LEMMA EncodeEndKeeps == ASSUME CodecInv, Codec!EncodeEnd PROVE CodecInv'
  <1>1. /\ step = "encode" /\ i >= Len(data) /\ step' = "encoded"
        /\ UNCHANGED <<kind, data, text, i, room, acc, output>>
    BY DEF Codec!EncodeEnd
  <1>2. PICK q \in Nat : Encoding(q)
    BY <1>1 DEF CodecInv
  <1>3. CodecTypes /\ CodecTypes'
    BY <1>1 DEF CodecInv, CodecTypes
  <1>4. Encodes(text, kind, data)
    <2>1. CASE i > Len(data)
      BY <1>2, <1>3, <2>1 DEF Encoding, CodecTypes
    <2>2. CASE i = Len(data)
      <3>1. /\ Len(data) = 3 * q /\ Len(text) = 4 * q /\ Begins(text, kind, data, 4 * q)
        BY <1>2, <1>3, <2>2 DEF Encoding, CodecTypes
      <3>2. Needed(Len(data)) = 4 * q
        BY <3>1 DEF Needed
      <3> QED BY <3>1, <3>2 DEF Encodes
    <2> QED BY <1>1, <1>3, <2>1, <2>2 DEF CodecTypes
  <1>5. Len(text) < room
    BY <1>2 DEF Encoding
  <1> QED BY <1>1, <1>3, <1>4, <1>5 DEF CodecInv

LEMMA DecodeKeeps ==
    ASSUME CodecInv, NEW size \in Sizes, Codec!Decode(size) PROVE CodecInv'
  <1>1. /\ step = "encoded" /\ room' = size /\ i' = 0 /\ acc' = [buf |-> 0, bits |-> 0]
        /\ output' = <<>> /\ step' = "decode" /\ UNCHANGED <<kind, data, text>>
    BY DEF Codec!Decode, Codec!NoWord
  <1>2. size \in Nat
    BY ByteInputs
  <1>3. CodecTypes' /\ CodecTypes
    BY <1>1, <1>2 DEF CodecInv, CodecTypes
  <1>4. Encodes(text, kind, data)
    BY <1>1 DEF CodecInv
  <1>5. Needed(Len(data)) \in Nat
    BY <1>3 DEF Needed, CodecTypes
  <1>6. Decoding(0, 0)'
    BY <1>1, <1>5 DEF Decoding
  <1>7. \E g \in Nat, r \in 0 .. 3 : Decoding(g, r)'
    BY <1>6
  <1>8. i' <= Len(text') /\ Len(output') <= room'
    BY <1>1, <1>2, <1>3 DEF CodecTypes
  <1> QED BY <1>1, <1>3, <1>4, <1>7, <1>8 DEF CodecInv

LEMMA DecodeEndKeeps == ASSUME CodecInv, Codec!DecodeEnd PROVE CodecInv'
  <1>1. /\ step = "decode" /\ i >= Len(text) /\ step' = "decoded"
        /\ UNCHANGED <<kind, data, text, i, room, acc, output>>
    BY DEF Codec!DecodeEnd
  <1>2. PICK g \in Nat, r \in 0 .. 3 : Decoding(g, r)
    BY <1>1 DEF CodecInv
  <1>3. Decoding(g, r)'
    BY <1>1, <1>2 DEF Decoding
  <1>4. CodecTypes' /\ CodecTypes
    BY <1>1 DEF CodecInv, CodecTypes
  <1>5. i' = Len(text')
    BY <1>1, <1>4 DEF CodecInv, CodecTypes
  <1>6. \E g1 \in Nat, r1 \in 0 .. 3 : Decoding(g1, r1)'
    BY <1>3
  <1> QED BY <1>1, <1>4, <1>5, <1>6 DEF CodecInv

\* u is s with t put behind it.
Joins(u, s, t) ==
    /\ u \in Seq(Nat) /\ Len(u) = Len(s) + Len(t)
    /\ \A j \in 1 .. Len(s) : u[j] = s[j]
    /\ \A j \in 1 .. Len(t) : u[Len(s) + j] = t[j]

LEMMA PutTogether ==
    ASSUME NEW s \in Seq(Nat), NEW t \in Seq(Nat) PROVE Joins(s \o t, s, t)
  BY DEF Joins

\* Two characters and what is put behind them.
FourOf(t, a, b, c, e) ==
    /\ t \in Seq(Nat) /\ Len(t) = 2 + Len(c) + Len(e) /\ t[1] = a /\ t[2] = b
    /\ \A j \in 1 .. Len(c) : t[2 + j] = c[j]
    /\ \A j \in 1 .. Len(e) : t[2 + Len(c) + j] = e[j]

LEMMA FourOfThem ==
    ASSUME NEW a \in Nat, NEW b \in Nat, NEW c \in Seq(Nat), NEW e \in Seq(Nat), NEW t,
           t = <<a>> \o <<b>> \o c \o e
    PROVE  FourOf(t, a, b, c, e)
  <1> DEFINE x == <<a>>
             y == <<b>>
  <1>1. x \in Seq(Nat) /\ Len(x) = 1 /\ x[1] = a /\ y \in Seq(Nat) /\ Len(y) = 1 /\ y[1] = b
    OBVIOUS
  <1> HIDE DEF x, y
  <1>2. PICK u : u = x \o y
    OBVIOUS
  <1>3. Joins(u, x, y)
    BY <1>1, <1>2, PutTogether
  <1>4. Len(u) = 2 /\ u[1] = a /\ u[2] = b
    <2>1. u[1] = x[1] /\ u[1 + 1] = y[1]
      BY <1>1, <1>3 DEF Joins
    <2> QED BY <1>1, <1>3, <2>1 DEF Joins
  <1>5. PICK v : v = u \o c
    OBVIOUS
  <1>6. Joins(v, u, c)
    BY <1>3, <1>5, PutTogether DEF Joins
  <1>7. t = v \o e
    BY <1>2, <1>5 DEF x, y
  <1>8. Joins(t, v, e)
    <2>1. v \in Seq(Nat)
      BY <1>6 DEF Joins
    <2> QED BY <1>7, <2>1, PutTogether
  <1>9. Len(c) \in Nat /\ Len(v) = 2 + Len(c)
    BY <1>4, <1>6 DEF Joins
  <1>10. t[1] = a /\ t[2] = b
    <2>1. /\ 1 \in 1 .. Len(u) /\ 2 \in 1 .. Len(u)
          /\ 1 \in 1 .. Len(v) /\ 2 \in 1 .. Len(v)
      BY <1>4, <1>9
    <2>2. t[1] = v[1] /\ t[2] = v[2] /\ v[1] = u[1] /\ v[2] = u[2]
      BY <1>6, <1>8, <2>1 DEF Joins
    <2> QED BY <1>4, <2>2
  <1>11. ASSUME NEW j \in 1 .. Len(c) PROVE t[2 + j] = c[j]
    <2>1. 2 + j \in 1 .. Len(v)
      BY <1>9
    <2>2. t[2 + j] = v[2 + j]
      BY <1>8, <2>1 DEF Joins
    <2>3. v[2 + j] = c[j]
      BY <1>4, <1>6 DEF Joins
    <2> QED BY <2>2, <2>3
  <1>12. t \in Seq(Nat) /\ Len(t) = 2 + Len(c) + Len(e)
    BY <1>8, <1>9 DEF Joins
  <1>13. \A j \in 1 .. Len(e) : t[2 + Len(c) + j] = e[j]
    BY <1>8, <1>9 DEF Joins
  <1> QED BY <1>10, <1>11, <1>12, <1>13 DEF FourOf

\* Group q of the text of `d`: m characters that say something.
GroupOf(t, k, d, q, m) ==
    /\ t \in Seq(Nat) /\ Len(t) = IF k = "url" THEN m ELSE 4
    /\ \A r \in 0 .. m - 1 : t[r + 1] = Codec!Table(k, Sextet(d, q, r))
    /\ \A j \in m + 1 .. Len(t) : t[j] = Codec!PadCharacter

Letters(n, q) == IF 3 * q + 2 < n THEN 4 ELSE IF 3 * q + 1 < n THEN 3 ELSE 2

LEMMA GroupSays ==
    ASSUME kind \in {"url", "plain"}, data \in Seq(Byte), NEW q \in Nat, i = 3 * q,
           i < Len(data)
    PROVE  GroupOf(Codec!Group, kind, data, q, Letters(Len(data), q))
  <1> DEFINE T(r) == Codec!Table(kind, Sextet(data, q, r))
             P    == Codec!PadCharacter
             pad  == Codec!Filler
             n    == Len(data)
  <1>1. T(0) \in Nat /\ T(1) \in Nat /\ T(2) \in Nat /\ T(3) \in Nat
    <2>1. \A r \in 0 .. 3 : T(r) \in Nat
      BY SextetType, ReadsBack
    <2> QED BY <2>1
  <1>2. P \in Nat
    BY DEF Codec!PadCharacter
  <1>3. PICK c, e : /\ c = (IF i + 1 < n THEN <<T(2)>> ELSE pad)
                    /\ e = (IF i + 2 < n THEN <<T(3)>> ELSE pad)
    OBVIOUS
  <1>4. PICK G : G = Codec!Group
    OBVIOUS
  <1>5. G = <<T(0)>> \o <<T(1)>> \o c \o e
    BY <1>3, <1>4, GroupIs DEF Written
  <1>6. n \in Nat
    OBVIOUS
  <1> HIDE DEF T, P, n
  <1>7. /\ pad \in Seq(Nat) /\ Len(pad) = IF kind = "url" THEN 0 ELSE 1
        /\ kind # "url" => pad[1] = P
    BY <1>2 DEF Codec!Filler, P
  <1> HIDE DEF pad
  <1>8. /\ c \in Seq(Nat) /\ (i + 1 < n => Len(c) = 1 /\ c[1] = T(2))
        /\ ~(i + 1 < n) => c = pad
    BY <1>1, <1>3, <1>7
  <1>9. /\ e \in Seq(Nat) /\ (i + 2 < n => Len(e) = 1 /\ e[1] = T(3))
        /\ ~(i + 2 < n) => e = pad
    BY <1>1, <1>3, <1>7
  <1>10. FourOf(G, T(0), T(1), c, e)
    BY <1>1, <1>5, <1>8, <1>9, FourOfThem
  <1>11. PICK lc \in Nat, le \in Nat : lc = Len(c) /\ le = Len(e)
    BY <1>8, <1>9
  <1>12. /\ G \in Seq(Nat) /\ Len(G) = 2 + lc + le /\ G[1] = T(0) /\ G[2] = T(1)
         /\ lc = 1 => G[3] = c[1]
         /\ le = 1 => G[3 + lc] = e[1]
    <2>1. /\ G \in Seq(Nat) /\ Len(G) = 2 + lc + le /\ G[1] = T(0) /\ G[2] = T(1)
          /\ \A j \in 1 .. lc : G[2 + j] = c[j]
          /\ \A j \in 1 .. le : G[2 + lc + j] = e[j]
      BY <1>10, <1>11 DEF FourOf
    <2>2. lc = 1 => G[2 + 1] = c[1]
      BY <2>1
    <2>3. le = 1 => G[2 + lc + 1] = e[1]
      BY <2>1
    <2>4. 2 + 1 = 3 /\ 2 + lc + 1 = 3 + lc
      OBVIOUS
    <2> QED BY <2>1, <2>2, <2>3, <2>4
  <1>13. CASE i + 2 < n
    <2>1. Letters(n, q) = 4 /\ i + 1 < n
      BY <1>6, <1>13 DEF Letters
    <2>2. Len(G) = 4 /\ G[3] = T(2) /\ G[4] = T(3)
      <3>1. lc = 1 /\ le = 1 /\ c[1] = T(2) /\ e[1] = T(3)
        BY <1>8, <1>9, <1>13, <1>11, <2>1
      <3>2. 2 + lc + le = 4 /\ 3 + lc = 4
        BY <3>1
      <3> QED BY <1>12, <3>1, <3>2
    <2>3. \A r \in 0 .. 4 - 1 : r = 0 \/ r = 1 \/ r = 2 \/ r = 3
      OBVIOUS
    <2>4. \A r \in 0 .. 4 - 1 : G[r + 1] = T(r)
      BY <1>12, <2>2, <2>3
    <2>5. \A j \in 4 + 1 .. Len(G) : G[j] = P
      BY <2>2
    <2>6. GroupOf(G, kind, data, q, 4)
      BY <1>12, <2>2, <2>4, <2>5 DEF GroupOf, T, P
    <2> QED BY <1>4, <2>1, <2>6 DEF n
  <1>14. CASE ~(i + 2 < n) /\ i + 1 < n
    <2>1. Letters(n, q) = 3
      BY <1>6, <1>14 DEF Letters
    <2>2. /\ Len(c) = 1 /\ e = pad /\ G[3] = T(2)
          /\ Len(G) = IF kind = "url" THEN 3 ELSE 4
          /\ kind # "url" => G[4] = P
      <3>1. lc = 1 /\ c[1] = T(2) /\ e = pad /\ Len(c) = 1 /\ G[3] = T(2)
        BY <1>8, <1>9, <1>12, <1>14, <1>11
      <3>2. CASE kind = "url"
        <4>1. le = 0
          BY <1>7, <1>11, <3>1, <3>2
        <4>2. 2 + lc + le = 3
          BY <3>1, <4>1
        <4> QED BY <1>12, <3>1, <3>2, <4>2
      <3>3. CASE kind # "url"
        <4>1. le = 1 /\ e[1] = P
          BY <1>7, <1>11, <3>1, <3>3
        <4>2. 2 + lc + le = 4 /\ 3 + lc = 4
          BY <3>1, <4>1
        <4> QED BY <1>12, <3>1, <3>3, <4>1, <4>2
      <3> QED BY <3>2, <3>3
    <2>3. \A r \in 0 .. 3 - 1 : r = 0 \/ r = 1 \/ r = 2
      OBVIOUS
    <2>4. \A r \in 0 .. 3 - 1 : G[r + 1] = T(r)
      BY <1>12, <2>2, <2>3
    <2>5. \A j \in 3 + 1 .. Len(G) : kind # "url" /\ j = 4
      BY <2>2
    <2>6. GroupOf(G, kind, data, q, 3)
      BY <1>12, <2>2, <2>4, <2>5 DEF GroupOf, T, P
    <2> QED BY <1>4, <2>1, <2>6 DEF n
  <1>15. CASE ~(i + 1 < n)
    <2>1. Letters(n, q) = 2 /\ ~(i + 2 < n)
      BY <1>6, <1>15 DEF Letters
    <2>2. /\ c = pad /\ e = pad /\ Len(G) = IF kind = "url" THEN 2 ELSE 4
          /\ kind # "url" => G[3] = P /\ G[4] = P
      <3>1. c = pad /\ e = pad
        BY <1>8, <1>9, <1>15, <2>1
      <3>2. CASE kind = "url"
        <4>1. lc = 0 /\ le = 0
          BY <1>7, <1>11, <3>1, <3>2
        <4>2. 2 + lc + le = 2
          BY <4>1
        <4> QED BY <1>12, <3>1, <3>2, <4>2
      <3>3. CASE kind # "url"
        <4>1. lc = 1 /\ le = 1 /\ c[1] = P /\ e[1] = P
          BY <1>7, <1>11, <3>1, <3>3
        <4>2. 2 + lc + le = 4 /\ 3 + lc = 4
          BY <4>1
        <4> QED BY <1>12, <3>1, <3>3, <4>1, <4>2
      <3> QED BY <3>2, <3>3
    <2>3. \A r \in 0 .. 2 - 1 : r = 0 \/ r = 1
      OBVIOUS
    <2>4. \A r \in 0 .. 2 - 1 : G[r + 1] = T(r)
      BY <1>12, <2>3
    <2>5. \A j \in 2 + 1 .. Len(G) : kind # "url" /\ (j = 3 \/ j = 4)
      BY <2>2
    <2>6. GroupOf(G, kind, data, q, 2)
      BY <1>12, <2>2, <2>4, <2>5 DEF GroupOf, T, P
    <2> QED BY <1>4, <2>1, <2>6 DEF n
  <1> QED BY <1>13, <1>14, <1>15

\* u is a text of q groups with another one behind it.
Longer(u, k, d, q, m, t, more) ==
    /\ u \in Seq(Nat) /\ Len(u) = 4 * q + Len(more)
    /\ Begins(u, k, d, 4 * q + m)
    /\ \A j \in 4 * q + m + 1 .. Len(u) : u[j] = Codec!PadCharacter

Extended(k, d, q, m, t, more) ==
    /\ t \in Seq(Nat) /\ Len(t) = 4 * q /\ Begins(t, k, d, 4 * q)
    /\ GroupOf(more, k, d, q, m)

LEMMA GroupAdded ==
    ASSUME NEW k, NEW d, NEW q \in Nat, NEW t, NEW m \in 2 .. 4, NEW more,
           Extended(k, d, q, m, t, more)
    PROVE  Longer(t \o more, k, d, q, m, t, more)
  <1> DEFINE u == t \o more
  <1>1. /\ t \in Seq(Nat) /\ Len(t) = 4 * q /\ Begins(t, k, d, 4 * q)
        /\ GroupOf(more, k, d, q, m)
    BY DEF Extended
  <1>2. more \in Seq(Nat) /\ (Len(more) = m \/ Len(more) = 4)
    BY <1>1 DEF GroupOf
  <1>3. PICK l \in Nat : l = Len(more) /\ m <= l
    <2>1. m \in Nat /\ m <= m /\ m <= 4
      OBVIOUS
    <2> QED BY <1>2, <2>1
  <1>4. /\ u \in Seq(Nat) /\ Len(u) = 4 * q + l
        /\ \A j \in 1 .. 4 * q : u[j] = t[j]
        /\ \A j \in 1 .. l : u[4 * q + j] = more[j]
    <2>1. Joins(u, t, more)
      BY <1>1, <1>2, PutTogether
    <2> HIDE DEF u
    <2> QED BY <1>1, <1>3, <2>1 DEF Joins
  <1> HIDE DEF u
  <1>5. ASSUME NEW g \in Nat, NEW r \in 0 .. 3, 4 * g + r < 4 * q + m
        PROVE  u[4 * g + r + 1] = Codec!Table(k, Sextet(d, g, r))
    <2>1. CASE 4 * g + r < 4 * q
      <3>1. 4 * g + r + 1 \in 1 .. 4 * q
        BY <2>1
      <3> QED BY <1>1, <1>4, <2>1, <3>1 DEF Begins
    <2>2. CASE ~(4 * g + r < 4 * q)
      <3>1. g = q
        BY <1>5, <2>2
      <3>2. r \in 0 .. m - 1
        BY <1>5, <3>1
      <3>3. r + 1 \in 1 .. l /\ 4 * g + r + 1 = 4 * q + (r + 1)
        BY <1>3, <3>1, <3>2
      <3>4. more[r + 1] = Codec!Table(k, Sextet(d, q, r))
        BY <1>1, <3>2 DEF GroupOf
      <3> QED BY <1>4, <3>1, <3>3, <3>4
    <2> QED BY <2>1, <2>2
  <1>6. Begins(u, k, d, 4 * q + m)
    BY <1>3, <1>4, <1>5 DEF Begins
  <1>7. ASSUME NEW j \in 4 * q + m + 1 .. Len(u) PROVE u[j] = Codec!PadCharacter
    <2>1. j - 4 * q \in m + 1 .. l /\ j - 4 * q \in 1 .. l
      BY <1>3, <1>4
    <2>2. j = 4 * q + (j - 4 * q)
      OBVIOUS
    <2>3. more[j - 4 * q] = Codec!PadCharacter
      BY <1>1, <1>3, <2>1 DEF GroupOf
    <2> QED BY <1>4, <2>1, <2>2, <2>3
  <1>8. Longer(u, k, d, q, m, t, more)
    BY <1>3, <1>4, <1>6, <1>7 DEF Longer
  <1> QED BY <1>8 DEF u

\* Where the last group ends, the sextets of the bytes end.
LEMMA LastGroup ==
    ASSUME NEW n \in Nat, NEW q \in Nat, 3 * q < n
    PROVE  /\ Letters(n, q) \in 2 .. 4
           /\ 4 * q + 4 <= Codec!PlainLength(n)
           /\ 3 * q + 3 <= n => Letters(n, q) = 4
           /\ n < 3 * q + 3 => Needed(n) = 4 * q + Letters(n, q)
  BY DEF Letters, Needed, Codec!PlainLength

LEMMA EncodeGroupKeeps == ASSUME CodecInv, Codec!EncodeGroup PROVE CodecInv'
  <1> DEFINE n == Len(data)
  <1>1. /\ step = "encode" /\ i < n
        /\ IF Codec!Fits THEN text' = text \o Codec!Group /\ i' = i + 3 /\ step' = step
                         ELSE step' = "refused" /\ UNCHANGED <<text, i>>
        /\ UNCHANGED <<kind, data, room, acc, output>>
    BY DEF Codec!EncodeGroup
  <1>2. PICK q \in Nat : Encoding(q)
    BY <1>1 DEF CodecInv
  <1>3. CodecTypes /\ n \in Nat /\ room \in Nat
    BY DEF CodecInv, CodecTypes
  <1>4. /\ i = 3 * q /\ 3 * q < n /\ Len(text) = 4 * q /\ Begins(text, kind, data, 4 * q)
        /\ Len(text) < room /\ (kind = "plain" => Codec!PlainLength(n) < room)
    BY <1>1, <1>2, <1>3 DEF Encoding
  <1>5. PICK m \in 2 .. 4 : m = Letters(n, q)
    BY <1>3, <1>4, LastGroup
  <1>6. /\ 4 * q + 4 <= Codec!PlainLength(n)
        /\ Codec!PlainLength(n) \in Nat
    BY <1>3, <1>4, LastGroup DEF Codec!PlainLength
  <1> HIDE DEF n
  <1>7. CASE ~Codec!Fits
    <2>1. room <= 4 * q + 4
      BY <1>3, <1>4, <1>7 DEF Codec!Fits
    <2>2. room <= Codec!PlainLength(n) /\ Len(text) <= room
      BY <1>3, <1>4, <1>6, <2>1
    <2>3. CodecTypes'
      BY <1>1, <1>3, <1>7 DEF CodecTypes
    <2> QED BY <1>1, <1>7, <2>2, <2>3 DEF CodecInv, n
  <1>8. CASE Codec!Fits
    <2>1. PICK G : G = Codec!Group
      OBVIOUS
    <2>2. GroupOf(G, kind, data, q, m)
      BY <2>1, <1>3, <1>4, <1>5, GroupSays DEF CodecTypes, n
    <2>3. PICK l \in Nat : /\ l = Len(G) /\ l <= 4
                           /\ kind = "url" => l = m
                           /\ m = 4 => l = 4
      <3>1. Len(G) = m \/ Len(G) = 4
        BY <2>2 DEF GroupOf
      <3> QED BY <2>2, <3>1 DEF GroupOf
    <2>4. /\ text' \in Seq(Nat) /\ Len(text') = 4 * q + l
          /\ Begins(text', kind, data, 4 * q + m)
          /\ \A j \in 4 * q + m + 1 .. Len(text') : text'[j] = Codec!PadCharacter
      <3>1. Extended(kind, data, q, m, text, G)
        BY <1>3, <1>4, <2>2 DEF CodecTypes, Extended
      <3>2. Longer(text \o G, kind, data, q, m, text, G)
        BY <3>1, GroupAdded
      <3>3. text' = text \o G
        BY <1>1, <1>8, <2>1
      <3> QED BY <2>3, <3>2, <3>3 DEF Longer
    <2>5. i' = 3 * (q + 1) /\ i' \in Nat /\ q + 1 \in Nat
      BY <1>1, <1>4, <1>8
    <2>6. CodecTypes'
      BY <1>1, <1>3, <2>4, <2>5 DEF CodecTypes
    <2>7. Len(text') < room /\ Len(text') <= Codec!PlainLength(n)
      <3>1. kind = "url" => 4 * q + 4 < room
        BY <1>4, <1>8 DEF Codec!Fits
      <3>2. kind = "plain" \/ kind = "url"
        BY <1>3 DEF CodecTypes
      <3>3. Len(text') \in Nat /\ Len(text') <= 4 * q + 4
        BY <2>3, <2>4
      <3>4. 4 * q + 4 < room
        BY <1>3, <1>4, <1>6, <3>1, <3>2
      <3> QED BY <1>3, <1>6, <3>3, <3>4
    <2>8. CASE 3 * q + 3 <= n
      <3>1. m = 4
        BY <1>3, <1>4, <1>5, <2>8, LastGroup
      <3>2. l = 4
        BY <2>3, <3>1
      <3>3. /\ Len(text') = 4 * (q + 1) /\ 4 * q + m = 4 * (q + 1)
        BY <2>4, <3>1, <3>2
      <3>4. Begins(text', kind, data, 4 * (q + 1))
        BY <2>4, <3>3
      <3>5. 3 * (q + 1) <= n
        BY <2>8
      <3>6. Encoding(q + 1)'
        BY <1>1, <1>3, <1>4, <2>5, <2>7, <3>3, <3>4, <3>5 DEF Encoding, n
      <3> QED BY <1>1, <1>8, <2>5, <2>6, <3>6 DEF CodecInv
    <2>9. CASE n < 3 * q + 3
      <3>1. Needed(n) = 4 * q + m
        BY <1>3, <1>4, <1>5, <2>9, LastGroup
      <3>2. Encodes(text', kind, data)
        BY <2>4, <3>1 DEF Encodes, n
      <3>3. ~(3 * (q + 1) <= n) /\ 3 * (q + 1) < n + 3
        BY <1>3, <1>4, <2>9
      <3>4. Encoding(q + 1)'
        BY <1>1, <1>4, <2>5, <2>7, <3>2, <3>3 DEF Encoding, n
      <3> QED BY <1>1, <1>8, <2>5, <2>6, <3>4 DEF CodecInv
    <2> QED BY <1>3, <2>8, <2>9
  <1> QED BY <1>7, <1>8

\* In a word of 14 bits or more the sextet is put behind what counts of the
\* others: only bits that are taken out already are shifted out.
Narrowed(x, b, s) == \E e \in Nat : x = 64 * e + s /\ e % 256 = b % 256

Shifting(w, b, s, x) ==
    /\ w \in Nat \ {0} /\ w % 16384 = 0 /\ b \in Nat /\ s \in 0 .. 63
    /\ x = (64 * b + s) % w

LEMMA Shifts ==
    ASSUME NEW w, NEW b, NEW s, NEW x, Shifting(w, b, s, x) PROVE Narrowed(x, b, s)
  <1> USE DEF Shifting
  <1>1. PICK h \in Nat : w = 16384 * h
    BY w % 16384 = 0, w = 16384 * (w \div 16384) + (w % 16384)
  <1>2. PICK c \in Nat : c = 64 * b + s
    OBVIOUS
  <1>3. c % w \in Nat /\ c \div w \in Nat /\ c = w * (c \div w) + (c % w)
    BY <1>2
  <1>4. PICK a \in Nat : a = h * (c \div w)
    BY <1>3
  <1>5. c = 16384 * a + (c % w)
    <2>1. w * (c \div w) = 16384 * (h * (c \div w))
      BY <1>1, <1>3
    <2> QED BY <1>3, <1>4, <2>1
  <1>6. PICK t \in Nat : t = c % w
    BY <1>3
  <1>7. 64 * b + s = 16384 * a + t
    BY <1>2, <1>5, <1>6
  <1>8. PICK e \in Nat : e = t \div 64
    OBVIOUS
  <1>9. t = 64 * e + s /\ b = 256 * a + e
    BY ONLY <1>7, <1>8, a \in Nat, b \in Nat, t \in Nat, e \in Nat, s \in 0 .. 63
  <1>10. e % 256 = b % 256
    BY ONLY <1>9, a \in Nat, b \in Nat, e \in Nat
  <1>11. x = 64 * e + s
    BY <1>2, <1>6, <1>9
  <1> QED BY <1>10, <1>11 DEF Narrowed

\* The byte that two sextets hold between them.
LEMMA Recovered ==
    ASSUME NEW x \in 0 .. 255, NEW y \in 0 .. 255, NEW z \in 0 .. 255
    PROVE  /\ 4 * (x \div 4) + (((x % 4) * 16 + (y \div 16)) \div 16) = x
           /\ 16 * (((x % 4) * 16 + (y \div 16)) % 16) + (((y % 16) * 4 + (z \div 64)) \div 4) = y
           /\ 64 * (((y % 16) * 4 + (z \div 64)) % 4) + (z % 64) = z
  <1>1. 4 * (x \div 4) + (((x % 4) * 16 + (y \div 16)) \div 16) = x
    OBVIOUS
  <1>2. 16 * (((x % 4) * 16 + (y \div 16)) % 16) + (((y % 16) * 4 + (z \div 64)) \div 4) = y
    OBVIOUS
  <1>3. 64 * (((y % 16) * 4 + (z \div 64)) % 4) + (z % 64) = z
    OBVIOUS
  <1> QED BY <1>1, <1>2, <1>3

LEMMA SextetsHold ==
    ASSUME NEW d \in Seq(Byte), NEW g \in Nat
    PROVE  /\ 4 * Sextet(d, g, 0) + (Sextet(d, g, 1) \div 16) = ByteOf(d, 3 * g)
           /\ 16 * (Sextet(d, g, 1) % 16) + (Sextet(d, g, 2) \div 4) = ByteOf(d, 3 * g + 1)
           /\ 64 * (Sextet(d, g, 2) % 4) + Sextet(d, g, 3) = ByteOf(d, 3 * g + 2)
  <1> DEFINE x == ByteOf(d, 3 * g)
             y == ByteOf(d, 3 * g + 1)
             z == ByteOf(d, 3 * g + 2)
  <1>1. x \in 0 .. 255 /\ y \in 0 .. 255 /\ z \in 0 .. 255
    BY BytesOf DEF Byte
  <1>2. /\ Sextet(d, g, 0) = x \div 4
        /\ Sextet(d, g, 1) = (x % 4) * 16 + (y \div 16)
        /\ Sextet(d, g, 2) = (y % 16) * 4 + (z \div 64)
        /\ Sextet(d, g, 3) = z % 64
    BY DEF Sextet
  <1> HIDE DEF x, y, z
  <1>3. /\ 4 * (x \div 4) + (((x % 4) * 16 + (y \div 16)) \div 16) = x
        /\ 16 * (((x % 4) * 16 + (y \div 16)) % 16) + (((y % 16) * 4 + (z \div 64)) \div 4) = y
        /\ 64 * (((y % 16) * 4 + (z \div 64)) % 4) + (z % 64) = z
    BY ZenonT(40), <1>1, Recovered
  <1>4. /\ 4 * Sextet(d, g, 0) + (Sextet(d, g, 1) \div 16) = x
        /\ 16 * (Sextet(d, g, 1) % 16) + (Sextet(d, g, 2) \div 4) = y
        /\ 64 * (Sextet(d, g, 2) % 4) + Sextet(d, g, 3) = z
    BY ONLY <1>2, <1>3
  <1> QED BY <1>4 DEF x, y, z

\* What the decoder takes out of the accumulator; p is the sextet before s.
TakenFrom(x, p, s) ==
    /\ Codec!Shifted(x, 4) % 256 = 4 * p + (s \div 16)
    /\ Codec!Shifted(x, 2) % 256 = 16 * (p % 16) + (s \div 4)
    /\ Codec!Shifted(x, 0) % 256 = 64 * (p % 4) + s
    /\ x \in Nat /\ x % 64 = s

LEMMA TakenOut ==
    ASSUME NEW x, NEW e \in Nat, NEW p \in 0 .. 63, e % 64 = p, NEW s \in 0 .. 63,
           x = 64 * e + s
    PROVE  TakenFrom(x, p, s)
  <1>1. PICK f \in Nat : e = 64 * f + p
    BY e = 64 * (e \div 64) + (e % 64)
  <1>2. PICK b \in Nat : b = 4096 * f + 64 * p + s
    OBVIOUS
  <1>3. b = 64 * e + s
    BY <1>1, <1>2
  <1>4. (b \div 16) % 256 = 4 * p + (s \div 16)
    BY ONLY <1>2, b \in Nat, f \in Nat, p \in 0 .. 63, s \in 0 .. 63
  <1>5. (b \div 4) % 256 = 16 * (p % 16) + (s \div 4)
    BY ONLY <1>2, b \in Nat, f \in Nat, p \in 0 .. 63, s \in 0 .. 63
  <1>6. (b \div 1) % 256 = 64 * (p % 4) + s
    BY ONLY <1>2, b \in Nat, f \in Nat, p \in 0 .. 63, s \in 0 .. 63
  <1>7. b % 64 = s
    BY ONLY <1>2, b \in Nat, f \in Nat, p \in 0 .. 63, s \in 0 .. 63
  <1>8. /\ Codec!Shifted(b, 4) = b \div 16 /\ Codec!Shifted(b, 2) = b \div 4
        /\ Codec!Shifted(b, 0) = b \div 1
    BY DEF Codec!Shifted
  <1>9. x = b
    BY <1>3
  <1> QED BY <1>4, <1>5, <1>6, <1>7, <1>8, <1>9 DEF TakenFrom

\* The bytes that g groups and r sextets more decide.
Known(g, r) == 3 * g + <<0, 0, 1, 2>>[r + 1]

\* The place after sextet r of group g, and the bits it leaves.
LEMMA Places ==
    ASSUME NEW n \in Nat, NEW g \in Nat, NEW r \in 0 .. 3, 4 * g + r < Needed(n)
    PROVE  /\ Known(g, r) \in Nat
           /\ r > 0 => Known(g, r) = 3 * g + (r - 1) /\ Known(g, r) < n
  <1>1. 3 * (4 * g + r) < 4 * n
    <2>1. PICK k \in Nat : k = Needed(n)
      BY DEF Needed
    <2>2. 3 * k <= 4 * n + 2
      BY <2>1 DEF Needed
    <2> QED BY <2>1, <2>2
  <1>2. r = 0 \/ r = 1 \/ r = 2 \/ r = 3
    OBVIOUS
  <1> QED BY <1>1, <1>2 DEF Known

Ready(buf, g, r) == buf \in Nat /\ (r > 0 => buf % 64 = Sextet(data, g, r - 1))

Fresh(w, g, r, s) ==
    /\ w \in Nat /\ w % 64 = s
    /\ r = 1 => Codec!Shifted(w, 4) % 256 = ByteOf(data, 3 * g)
    /\ r = 2 => Codec!Shifted(w, 2) % 256 = ByteOf(data, 3 * g + 1)
    /\ r = 3 => Codec!Shifted(w, 0) % 256 = ByteOf(data, 3 * g + 2)

\* The next sextet: the accumulator keeps it, and with the one before gives
\* the next byte.
LEMMA SextetRead ==
    ASSUME data \in Seq(Byte), NEW g \in Nat, NEW r \in 0 .. 3, NEW b, Ready(b, g, r),
           NEW s, s = Sextet(data, g, r)
    PROVE  Fresh((64 * b + s) % Word, g, r, s)
  <1>1. s \in 0 .. 63 /\ b \in Nat
    BY SextetType DEF Ready
  <1>2. PICK w : w = (64 * b + s) % Word
    OBVIOUS
  <1>3. Narrowed(w, b, s)
    <2>1. Word \in Nat \ {0} /\ Word % 16384 = 0
      BY CodecAssumption
    <2>2. Shifting(Word, b, s, w)
      BY <1>1, <1>2, <2>1 DEF Shifting
    <2> QED BY <2>2, Shifts
  <1>4. PICK e \in Nat : w = 64 * e + s /\ e % 256 = b % 256
    BY <1>3 DEF Narrowed
  <1>5. PICK p \in 0 .. 63 : p = e % 64
    OBVIOUS
  <1>6. p = b % 64
    BY ONLY <1>1, <1>4, <1>5, e \in Nat
  <1>7. TakenFrom(w, p, s)
    BY ZenonT(40), <1>1, <1>4, <1>5, TakenOut
  <1>8. r > 0 => p = Sextet(data, g, r - 1)
    BY <1>6 DEF Ready
  <1>9. /\ 4 * Sextet(data, g, 0) + (Sextet(data, g, 1) \div 16) = ByteOf(data, 3 * g)
        /\ 16 * (Sextet(data, g, 1) % 16) + (Sextet(data, g, 2) \div 4) = ByteOf(data, 3 * g + 1)
        /\ 64 * (Sextet(data, g, 2) % 4) + Sextet(data, g, 3) = ByteOf(data, 3 * g + 2)
    BY SextetsHold
  <1>10. r = 1 => 4 * p + (s \div 16) = ByteOf(data, 3 * g)
    BY <1>8, <1>9
  <1>11. r = 2 => 16 * (p % 16) + (s \div 4) = ByteOf(data, 3 * g + 1)
    BY <1>8, <1>9
  <1>12. r = 3 => 64 * (p % 4) + s = ByteOf(data, 3 * g + 2)
    BY <1>8, <1>9
  <1>13. Fresh(w, g, r, s)
    BY <1>7, <1>10, <1>11, <1>12 DEF TakenFrom, Fresh
  <1> QED BY <1>2, <1>13

LEMMA DecodeCharKeeps == ASSUME CodecInv, Codec!DecodeChar PROVE CodecInv'
  <1> DEFINE n == Len(data)
             val == Codec!CharValue(text[i + 1])
             w   == (64 * acc.buf + val) % Word
  <1>1. /\ step = "decode" /\ i < Len(text) /\ i' = i + 1
        /\ UNCHANGED <<kind, data, text, room>>
    BY DEF Codec!DecodeChar
  <1>2. PICK g \in Nat, r \in 0 .. 3 : Decoding(g, r)
    BY <1>1 DEF CodecInv
  <1>3. /\ CodecTypes /\ n \in Nat /\ Encodes(text, kind, data) /\ Len(output) <= room
        /\ i \in Nat /\ room \in Nat /\ Len(text) \in Nat
    BY <1>1 DEF CodecInv, CodecTypes
  <1>4. Needed(n) \in Nat
    BY <1>3 DEF Needed
  <1>5. Encodes(text, kind, data)' /\ i' \in Nat /\ i' <= Len(text')
    BY <1>1, <1>3
  <1>6. CASE i >= Needed(n)
    <2>1. i + 1 \in Needed(n) + 1 .. Len(text)
      BY <1>1, <1>3, <1>4, <1>6
    <2>2. text[i + 1] = Codec!PadCharacter
      BY <1>3, <2>1 DEF Encodes
    <2>3. val = -1
      BY <2>2, PaddingIsSkipped
    <2>4. UNCHANGED <<step, acc, output>>
      BY <2>2, <2>3 DEF Codec!DecodeChar
    <2>5. 4 * g + r = Needed(n)
      BY <1>2, <1>3, <1>4, <1>6 DEF Decoding
    <2>6. i' > Needed(n)
      BY <1>1, <1>3, <1>4, <1>6
    <2>7. Decoding(g, r)'
      BY <1>1, <1>2, <2>4, <2>5, <2>6 DEF Decoding
    <2>8. CodecTypes'
      BY <1>1, <1>3, <1>5, <2>4 DEF CodecTypes
    <2>9. \E h \in Nat, t \in 0 .. 3 : Decoding(h, t)'
      BY <2>7
    <2> QED BY <1>1, <1>3, <1>5, <2>4, <2>8, <2>9 DEF CodecInv
  <1>7. CASE i < Needed(n)
    <2>1. i = 4 * g + r
      BY <1>2, <1>3, <1>4, <1>7 DEF Decoding
    <2>2. text[i + 1] = Codec!Table(kind, Sextet(data, g, r))
      BY <1>3, <1>7, <2>1 DEF Encodes, Begins
    <2>3. val = Sextet(data, g, r) /\ val \in 0 .. 63
      <3>1. /\ kind \in {"url", "plain"} /\ Sextet(data, g, r) \in 0 .. 63
        BY <1>3, SextetType DEF CodecTypes
      <3>2. Codec!CharValue(Codec!Table(kind, Sextet(data, g, r))) = Sextet(data, g, r)
        BY <3>1, ReadsBack
      <3> QED BY <2>2, <3>1, <3>2
    <2>4. Ready(acc.buf, g, r) /\ acc.bits = <<0, 6, 4, 2>>[r + 1]
      BY <1>2 DEF Decoding, Ready
    <2>5. Fresh(w, g, r, val)
      BY <1>3, <2>3, <2>4, SextetRead DEF CodecTypes
    <2>6. /\ w \in Nat /\ w % 64 = val
          /\ r = 1 => Codec!Shifted(w, 4) % 256 = ByteOf(data, 3 * g)
          /\ r = 2 => Codec!Shifted(w, 2) % 256 = ByteOf(data, 3 * g + 1)
          /\ r = 3 => Codec!Shifted(w, 0) % 256 = ByteOf(data, 3 * g + 2)
      BY <2>5 DEF Fresh
    <2>7. Codec!Collect(w, acc.bits + 6)
      <3>1. ~(val < 0)
        BY <2>3
      <3> QED BY <3>1 DEF Codec!DecodeChar
    <2> HIDE DEF w, val
    <2>8. PICK l \in Nat : l = Len(output)
      BY <1>3 DEF CodecTypes
    <2>9. /\ l = 3 * g + <<0, 0, 1, 2>>[r + 1]
          /\ \A j \in 1 .. l : j <= n /\ output[j] = data[j]
      BY <1>2, <2>8 DEF Decoding
    <2>10. 4 * g + r < Needed(n)
      BY <1>7, <2>1
    <2>11. CASE r = 0
      <3>1. acc.bits = 0 /\ l = 3 * g
        BY <2>4, <2>9, <2>11
      <3>2. acc' = [buf |-> w, bits |-> 6] /\ UNCHANGED <<step, output>>
        <4>1. Codec!Collect(w, 6)
          BY <2>7, <3>1
        <4> QED BY <4>1 DEF Codec!Collect
      <3>3. 4 * g + 1 <= Needed(n) /\ i' = 4 * g + 1
        BY <1>1, <1>4, <2>1, <2>10, <2>11
      <3>4. /\ acc'.bits = <<0, 6, 4, 2>>[1 + 1] /\ acc'.buf \in Nat
            /\ acc'.buf % 64 = Sextet(data, g, 1 - 1)
        BY <2>3, <2>6, <2>11, <3>2
      <3>5. Len(output') = 3 * g + <<0, 0, 1, 2>>[1 + 1]
        <4>1. <<0, 0, 1, 2>>[1 + 1] = 0
          OBVIOUS
        <4>2. Len(output') = l
          BY <2>8, <3>2
        <4> QED BY <3>1, <4>1, <4>2
      <3>6. \A j \in 1 .. Len(output') : j <= n /\ output'[j] = data[j]
        BY <2>8, <2>9, <3>2
      <3>7. Decoding(g, 1)'
        BY <1>1, <3>3, <3>4, <3>5, <3>6 DEF Decoding
      <3>8. CodecTypes'
        BY <1>1, <1>3, <1>5, <3>2 DEF CodecTypes
      <3>9. \E h \in Nat, t \in 0 .. 3 : Decoding(h, t)'
        BY <3>7
      <3> QED BY <1>1, <1>3, <1>5, <3>2, <3>8, <3>9 DEF CodecInv
    <2>12. CASE r > 0
      <3>1. l = 3 * g + (r - 1) /\ l < n
        <4>1. Known(g, r) = 3 * g + (r - 1) /\ Known(g, r) < n
          BY <1>3, <2>10, <2>12, Places
        <4> QED BY <2>9, <4>1 DEF Known
      <3>2. r = 1 \/ r = 2 \/ r = 3
        BY <2>12
      <3>3. acc.bits = 8 - 2 * r
        BY <2>4, <3>2
      <3>4. PICK byte : byte = Codec!Shifted(w, 6 - 2 * r) % 256
        OBVIOUS
      <3>5. /\ acc' = [buf |-> w, bits |-> 6 - 2 * r]
            /\ IF l >= room THEN step' = "overflow" /\ UNCHANGED output
                            ELSE output' = Append(output, byte) /\ UNCHANGED step
        <4>1. PICK c \in Nat : c = acc.bits + 6 /\ c >= 8 /\ c - 8 = 6 - 2 * r
          BY <3>2, <3>3
        <4>2. Codec!Collect(w, c)
          BY <2>7, <4>1
        <4> QED BY <2>8, <3>4, <4>1, <4>2 DEF Codec!Collect
      <3>6. byte = data[l + 1] /\ byte \in Nat
        <4>1. byte = ByteOf(data, l)
          <5>1. CASE r = 1
            BY <2>6, <3>1, <3>4, <5>1
          <5>2. CASE r = 2
            BY <2>6, <3>1, <3>4, <5>2
          <5>3. CASE r = 3
            BY <2>6, <3>1, <3>4, <5>3
          <5> QED BY <3>2, <5>1, <5>2, <5>3
        <4>2. byte \in Byte
          BY <1>3, <4>1, BytesOf DEF CodecTypes
        <4>3. byte \in Nat
          BY <4>2 DEF Byte
        <4> QED BY <3>1, <4>1, <4>3 DEF ByteOf
      <3>7. CASE l >= room
        <4>1. step' = "overflow" /\ output' = output
          BY <3>5, <3>7
        <4>2. CodecTypes'
          BY <1>1, <1>3, <1>5, <4>1 DEF CodecTypes
        <4>3. l = room
          BY <1>3, <2>8, <3>7
        <4> QED BY <1>1, <2>8, <3>1, <4>1, <4>2, <4>3 DEF CodecInv
      <3>8. CASE ~(l >= room)
        <4>1. step' = step /\ output' = Append(output, byte)
          BY <3>5, <3>8
        <4>2. /\ output' \in Seq(Nat) /\ Len(output') = l + 1
              /\ \A j \in 1 .. l : output'[j] = output[j]
              /\ output'[l + 1] = byte
          BY <1>3, <2>8, <3>6, <4>1 DEF CodecTypes
        <4>3. \A j \in 1 .. l + 1 : j <= n /\ output'[j] = data[j]
          <5> TAKE j \in 1 .. l + 1
          <5>1. j \in 1 .. l \/ j = l + 1
            OBVIOUS
          <5> QED BY SMTT(30), <2>9, <3>1, <3>6, <4>2, <5>1
        <4>4. Len(output') <= room'
          BY <1>1, <1>3, <3>8, <4>2
        <4>5. CodecTypes'
          BY <1>1, <1>3, <1>5, <4>2 DEF CodecTypes
        <4>6. \E h \in Nat, t \in 0 .. 3 : Decoding(h, t)'
          <5>1. CASE r = 3
            <6>1. 4 * (g + 1) + 0 <= Needed(n) /\ i' = 4 * (g + 1) + 0
              BY <1>1, <1>4, <2>1, <2>10, <5>1
            <6>2. l + 1 = 3 * (g + 1) + <<0, 0, 1, 2>>[0 + 1]
              BY <3>1, <5>1
            <6>3. acc'.bits = <<0, 6, 4, 2>>[0 + 1] /\ acc'.buf \in Nat
              BY <2>6, <3>5, <5>1
            <6>4. Decoding(g + 1, 0)'
              BY <1>1, <4>2, <4>3, <6>1, <6>2, <6>3 DEF Decoding
            <6> QED BY <6>4
          <5>2. CASE r # 3
            <6>1. 4 * g + (r + 1) <= Needed(n) /\ i' = 4 * g + (r + 1)
              BY <1>1, <1>4, <2>1, <2>10
            <6>2. l + 1 = 3 * g + <<0, 0, 1, 2>>[(r + 1) + 1]
              BY <3>1, <3>2, <5>2
            <6>3. /\ acc'.bits = <<0, 6, 4, 2>>[(r + 1) + 1] /\ acc'.buf \in Nat
                  /\ acc'.buf % 64 = Sextet(data, g, (r + 1) - 1)
              <7>1. (r + 1) - 1 = r
                OBVIOUS
              <7> QED BY <2>3, <2>6, <3>2, <3>5, <5>2, <7>1
            <6>4. r + 1 \in 0 .. 3
              BY <5>2
            <6>5. Decoding(g, r + 1)'
              BY <1>1, <4>2, <4>3, <6>1, <6>2, <6>3 DEF Decoding
            <6> QED BY <6>4, <6>5
          <5> QED BY <5>1, <5>2
        <4> QED BY <1>1, <1>3, <1>5, <4>1, <4>4, <4>5, <4>6 DEF CodecInv
      <3> QED BY <3>7, <3>8
    <2> QED BY <2>11, <2>12
  <1> QED BY <1>3, <1>4, <1>6, <1>7

LEMMA CodecStutters == ASSUME CodecInv, UNCHANGED codecVars PROVE CodecInv'
  <1>1. UNCHANGED <<step, kind, data, text, i, room, acc, output>>
    BY DEF codecVars
  <1>2. \A q \in Nat : Encoding(q) => Encoding(q)'
    BY <1>1 DEF Encoding
  <1>3. \A g \in Nat, r \in 0 .. 3 : Decoding(g, r) => Decoding(g, r)'
    BY <1>1 DEF Decoding
  <1>4. CodecTypes'
    BY <1>1 DEF CodecInv, CodecTypes
  <1> QED BY <1>1, <1>2, <1>3, <1>4 DEF CodecInv

\* Each encoder writes the sextets of the bytes, and the decoder has at each
\* character the bytes that the sextets so far decide.
THEOREM CodecCorrect == UtilsSpec => []CodecInv
  <1>1. UtilsInit => CodecInv
    BY CodecStarts DEF UtilsInit
  <1>2. ASSUME CodecInv, [UtilsNext]_Utils PROVE CodecInv'
    <2>1. CASE Codec!Next
      BY <1>2, <2>1, EncodeKeeps, EncodeGroupKeeps, EncodeEndKeeps, DecodeKeeps,
         DecodeCharKeeps, DecodeEndKeeps DEF Codec!Next
    <2>2. CASE UNCHANGED codecVars
      BY <1>2, <2>2, CodecStutters
    <2> QED BY <1>2, <2>1, <2>2 DEF UtilsNext, Utils
  <1> QED BY <1>1, <1>2, PTL DEF UtilsSpec

LEMMA Wider == ASSUME NEW S, NEW T, S \subseteq T, NEW s \in Seq(S) PROVE s \in Seq(T)
  OBVIOUS

\* Either encoder and the decoder: what is decoded is what was encoded.
THEOREM DecodesBack == UtilsSpec => []DecodesWhatWasEncoded
  <1>1. ASSUME CodecInv PROVE DecodesWhatWasEncoded
    <2> SUFFICES ASSUME step = "decoded" PROVE output = data
      BY DEF DecodesWhatWasEncoded, Codec!DecodesWhatWasEncoded
    <2>1. /\ CodecTypes /\ i = Len(text) /\ Encodes(text, kind, data)
      BY <1>1 DEF CodecInv
    <2>2. PICK g \in Nat, r \in 0 .. 3 : Decoding(g, r)
      BY <1>1 DEF CodecInv
    <2>3. PICK n \in Nat : n = Len(data)
      BY <2>1 DEF CodecTypes
    <2>4. PICK k \in Nat : k = Needed(n)
      BY DEF Needed
    <2>5. k <= i /\ i \in Nat
      BY <2>1, <2>3, <2>4 DEF Encodes, Begins, CodecTypes
    <2>6. 4 * g + r <= k /\ (i = 4 * g + r \/ (i > k /\ 4 * g + r = k))
      BY <2>2, <2>3, <2>4 DEF Decoding
    <2>7. 4 * g + r = k
      BY <2>5, <2>6
    <2>8. k = (4 * n + 2) \div 3
      BY <2>4 DEF Needed
    <2>9. PICK l \in Nat : l = Len(output)
      BY <2>1 DEF CodecTypes
    <2>10. l = 3 * g + <<0, 0, 1, 2>>[r + 1]
      BY <2>2, <2>9 DEF Decoding
    <2>11. r = 0 \/ r = 1 \/ r = 2 \/ r = 3
      OBVIOUS
    <2>12. 3 * k <= 4 * n + 2 /\ 4 * n + 2 <= 3 * k + 2
      BY <2>8
    <2>13. l = n
      BY <2>7, <2>10, <2>11, <2>12
    <2>14. \A j \in 1 .. n : output[j] = data[j]
      BY <2>2, <2>9, <2>13 DEF Decoding
    <2>15. output \in Seq(Nat) /\ data \in Seq(Nat)
      <3>1. Byte \subseteq Nat
        BY DEF Byte
      <3>2. data \in Seq(Byte) /\ output \in Seq(Nat)
        BY <2>1 DEF CodecTypes
      <3> QED BY <3>1, <3>2, Wider
    <2>16. Len(output) = Len(data) /\ \A j \in 1 .. Len(output) : output[j] = data[j]
      BY <2>3, <2>9, <2>13, <2>14
    <2> QED BY <2>15, <2>16
  <1> QED BY <1>1, CodecCorrect, PTL

\* No encoder and not the decoder writes past its buffer; an encoder refuses
\* none that holds the text in whole groups of four and a zero, the decoder
\* none that holds the bytes.
THEOREM RoomIsUsed == UtilsSpec => []UsesItsRoom
  <1>1. ASSUME CodecInv PROVE UsesItsRoom
    BY <1>1 DEF CodecInv, UsesItsRoom, Codec!UsesItsRoom
  <1> QED BY <1>1, CodecCorrect, PTL
================================================================================
