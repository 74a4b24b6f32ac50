------------------------------ MODULE MCJsonAnswer ------------------------------
EXTENDS JsonAnswer

MCStrings == {<<"special", "plain">>}
MCScalars == {<<"digit", "digit">>}
===============================================================================
