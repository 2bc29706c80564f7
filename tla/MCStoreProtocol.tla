--------------------------- MODULE MCStoreProtocol ---------------------------
(* The store protocol for TLC: strings over a few characters.              *)
EXTENDS StoreProtocol, TLC

MCChars == ProtocolChars \cup {"a", "b", "k", "r"}
MCCsvKeys == {<<"k">>}
MCPlainKeys == {<<"r">>}

\* Ids as the SDK makes them, all of one length, and ids of two lengths, which
\* the listener's schema accepts as well.
EqualLengths == {<<"a", "b">>, <<"b", "a">>, <<"b", "b">>}
TwoLengths == {<<"a", "b">>, <<"a">>}

\* Queues without orders, with two and with three.
MCStored == {<<>>, << <<"a", "b">>, <<"b", "a">> >>,
             << <<"b", "b">>, <<"a", "b">>, <<"b", "a">> >>}
TwoLengthsStored == {<< <<"a", "b">>, <<"a">> >>}

\* Request texts with a newline, a backslash and a comma in them.
MCValues == {<<"\n", ",", "\\", "n">>}

ClientSymmetry == Permutations(Clients)
=============================================================================
