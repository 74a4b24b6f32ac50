------------------------------ MODULE MCJsonParser ------------------------------
EXTENDS JsonParser

\* Sentences of at most n tokens, by number of containers inside one another.
CONSTANT MaxTokens

Short(S) == {w \in S : Len(w) <= MaxTokens}

Joined(S, T) == Short(S \cup {v \o <<",">> \o w : v \in S, w \in T})

Lists(S) == LET two == Joined(S, S) IN Joined(S, two)

ASSUME MaxTokens \in Nat

Sentences ==
    LET values[d \in 0 .. DepthLimit + 1] ==
            IF d = 0 THEN {<<"scalar">>, <<"text">>}
            ELSE LET inner   == values[d - 1]
                     members == {<<"text", ":">> \o w : w \in inner}
                 IN  Short(inner \cup {<<"[", "]">>, <<"{", "}">>}
                             \cup {<<"[">> \o w \o <<"]">> : w \in Lists(inner)}
                             \cup {<<"{">> \o w \o <<"}">> : w \in Lists(members)})
    IN  values[DepthLimit + 1]

\* Every beginning of a sentence, followed by one token of any kind or by none:
\* what is malformed goes wrong at its last token, or is too deep.
MCInputs ==
    LET beginnings == UNION {{SubSeq(w, 1, k) : k \in 0 .. Len(w)} : w \in Sentences}
    IN  beginnings \cup {w \o <<t>> : w \in beginnings, t \in Tokens}
===============================================================================
