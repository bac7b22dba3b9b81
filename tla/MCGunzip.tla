------------------------------ MODULE MCGunzip -------------------------------
(* Inputs for Gunzip.                                                        *)
EXTENDS Gunzip

Stdin(s, old) == [stdin |-> TRUE, force |-> FALSE, stream |-> s, old |-> old]
File(s) == [stdin |-> FALSE, force |-> FALSE, stream |-> s, old |-> <<>>]
Forced(c) == [c EXCEPT !.force = TRUE]

One == <<"h", "d", "d", "e">>
Two == <<"h", "d", "e", "h", "d", "e">>
Named == <<"H", "n", "0", "d", "e">>
Packed == <<"p", "d", "d", "e", "p", "d", "e", "x">>

FromStdin == {
    One, Two, Two \o One, Named, <<"H", "0", "e", "h", "d", "e">>,      \* gzip
    <<"h", "d", "e", "x">>, <<"h", "d", "x", "e">>, <<"h", "d">>, <<"H", "n">>,
    <<"z", "d", "d">>, <<"p", "d", "e">>, <<"k", "d", "e">>, <<"r", "d">>, <<"x">>, <<>>, <<"H", "n", "0">>}

\* From a file, every input of up to five units, and some longer ones.
FromFile ==
    UNION {[1 .. n -> {"h", "d", "e", "x"}] : n \in 0 .. 5}
    \cup FromStdin \cup {Packed, <<"p", "d", "e", "p", "d", "e">>, Two \o Named, Named \o Two}
    \cup {<<"p", "d", "e">> \o s : s \in {One, <<"z", "d", "d">>, <<"r">>}}

MCCalls ==
    {Stdin(s, <<>>) : s \in FromStdin} \cup {File(s) : s \in FromFile}
    \cup {Forced(Stdin(s, <<>>)) : s \in {<<"x", "d", "e", "h">>, <<>>, <<"z", "d">>, <<"k">>,
                                  <<"r", "d", "e", "h", "d", "e">>}}
    \cup {Forced(File(s)) : s \in {<<"x", "x", "h", "d">>, <<"p", "e", "r">>,
                                 <<"p", "d", "e", "r", "d">>, <<"r", "d", "e">>, <<"h", "d", "e", "r", "d">>,
                                 <<"p", "e">> \o One, One, Packed}}
    \cup {Stdin(<<"h", "d", "e">>, Two), Stdin(Two, One)}

\* A member without its end.
Damaged == {File(<<"h", "d">>)}
=============================================================================
