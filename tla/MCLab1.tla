-------------------------------- MODULE MCLab1 --------------------------------
EXTENDS Kasiski
Files(symbols, lengths) == UNION {[1 .. n -> symbols] : n \in lengths}
Lower(codes) == {[case |-> "lower", code |-> c] : c \in codes}
\* Every short file through the encoder and the decoder, and longer texts of two
\* letters and another symbol, and an empty one, with keys of two and three
\* letters and of none, through all.
MCTexts == [roundTrip |-> Files(Symbol, 0 .. 3),
            crack     |-> Files(Lower({0, 1}) \cup {Other}, {0, 8})]
MCSecrets == [roundTrip |-> Files(Symbol, 0 .. 2),
              crack     |-> Files(Lower({0, 2}), {0, 2, 3}) \cup {<<Other>>}]
===============================================================================
