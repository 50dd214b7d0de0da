----------------------------- MODULE MCKeyInfo -----------------------------
(***************************************************************************)
(* KeyInfo with the real numbers of some keys, and 256 slots.              *)
(***************************************************************************)
EXTENDS KeyInfo

F0md == \h46306D64      \* the modes of two fans share a slot, and their info
F1md == \h46316D64
Ftst == \h46747374
Tf04 == \h54663034      \* two sensors that share a slot, and their info
Tf14 == \h54663134
Tp0d == \h54703064      \* a sensor that ends in "d", like the modes
Wide == \h57494445      \* a key whose value is reported wider than 32 bytes
Null == \h4E554C4C      \* a key of neither size nor type, an EmptyResponse
Void == \h564F4944      \* a key without a value, but with a type: it is cached

MCKeys == {F0md, F1md, Ftst, Tf04, Tf14, Tp0d, Wide, Null, Void}

\* A slot is chosen by the last character, and does not record its key: the modes and
\* this sensor are answered with each other's info, and the rest is Alone.
ASSUME SensorMeetsMode == {k \in MCKeys : ~Alone(k)} = {F0md, F1md, Tp0d}

MCSize == [k \in Keys |-> CASE k \in {F0md, F1md, Ftst} -> 1
                            [] k = Wide -> 64
                            [] k \in {Null, Void} -> 0
                            [] OTHER -> 4]

MCType == [k \in Keys |-> CASE k \in {F0md, F1md, Ftst} -> "ui8"
                            [] k \in {Wide, Void} -> "other"
                            [] k = Null -> "none"
                            [] OTHER -> "flt"]

MCWritable == {F0md, F1md, Ftst}
MCVolatile == {Tf04, Tp0d}

=============================================================================
