---------------------------- MODULE StoreProtocol ----------------------------
(***************************************************************************)
(* The store as it is built: clients post text requests over HTTP with a   *)
(* ten second timeout, the server parses one request at a time and runs it *)
(* on LMDB, where a list is one byte string with commas, and the answer    *)
(* goes back as text.                                                      *)
(*                                                                         *)
(* A string is a sequence of characters; the name of a command counts as   *)
(* one.  A request whose client gave up stays in the server's backlog and  *)
(* may still be run.                                                       *)
(***************************************************************************)
EXTENDS Naturals, Sequences, FiniteSets, SequencesExt

CONSTANTS
    Chars,      \* the characters of strings
    Clients,    \* listeners and enclave managers
    CsvKeys,    \* keys of the tables of comma-separated values
    PlainKeys,  \* keys of the tables of plain values
    Elements,   \* the elements callers put into lists: strings without commas
    Values,     \* the values callers store
    Stored,     \* lists that may be in the database when the server starts
    None,       \* Python's None
    MaxCalls    \* bound: calls altogether

Keys == CsvKeys \cup PlainKeys

\* Between the elements of a list, and between the keys a lookup finds.
Comma == ","

\* The characters with a meaning: escapes and separators, commands, tables and
\* the kinds of answers.
ProtocolChars ==
    {"\n", "\\", "n", Comma}
        \cup {"L", "G", "R", "S", "CA", "CP", "CR", "CM", "CD", "c", "p", "v", "l", "t", "f"}

ASSUME ProtocolAssumption ==
    /\ ProtocolChars \subseteq Chars
    /\ Elements \cup Keys \cup Values \subseteq Seq(Chars)
    /\ \A e \in Elements \cup Keys : e # <<>> /\ Comma \notin Range(e)
    /\ CsvKeys \cap PlainKeys = {}
    /\ \A l \in Stored : l \in Seq(Elements) /\ IsInjective(l)
    /\ None \notin Seq(Chars)

VARIABLES
    bytes,      \* key -> the byte string LMDB holds, empty if there is no key
    conn,       \* the connection of each client: idle, sent, answered
    orphans,    \* requests in the backlog whose client has given up, with their numbers
    used,       \* elements that have been put into a list
    delivered,  \* element -> how often pops returned it since it was last put into a list
    ncalls      \* calls so far; its number tells equal requests of a client apart

protoVars == <<bytes, conn, orphans, used, delivered, ncalls>>

Closed == [st |-> "idle"]

-----------------------------------------------------------------------------
(* Text                                                                    *)

EscapeChar(ch) ==
    CASE ch = "\n" -> <<"\\", "n">> [] ch = "\\" -> <<"\\", "\\">> [] OTHER -> <<ch>>

\* unicode_escape, on the characters that matter to the protocol.
Escape(s) ==
    LET from[i \in 1 .. Len(s) + 1] ==
            IF i > Len(s) THEN <<>> ELSE EscapeChar(s[i]) \o from[i + 1]
    IN from[1]

Unescape(s) ==
    LET from[i \in 1 .. Len(s) + 1] ==
            CASE i > Len(s) -> <<>>
              [] i < Len(s) /\ s[i] = "\\" ->
                    <<IF s[i + 1] = "n" THEN "\n" ELSE s[i + 1]>> \o from[i + 2]
              [] OTHER -> <<s[i]>> \o from[i + 1]
    IN from[1]

\* Python's split: always at least one field.
Split(s, sep) ==
    LET from[i \in 1 .. Len(s) + 1] ==
            IF i > Len(s) THEN << <<>> >>
            ELSE LET rest == from[i + 1]
                 IN IF s[i] = sep THEN << <<>> >> \o rest
                    ELSE << <<s[i]>> \o Head(rest) >> \o Tail(rest)
    IN from[1]

Join(fields, sep) ==
    LET from[i \in 1 .. Len(fields)] ==
            IF i = Len(fields) THEN fields[i] ELSE fields[i] \o <<sep>> \o from[i + 1]
    IN from[1]

\* A request or an answer on the wire, and read back.
Encode(fields) == Join([i \in DOMAIN fields |-> Escape(fields[i])], "\n")
Decode(text) == LET args == Split(text, "\n") IN [i \in DOMAIN args |-> Unescape(args[i])]

\* What the other side reads of the fields one side writes.
Sent(fields) == Decode(Encode(fields))

\* The server opens the database it finds; each list is in it once.
ProtoInit ==
    /\ \E l \in Stored, k \in CsvKeys :
        /\ bytes = [x \in Keys |-> IF x = k /\ l # <<>> THEN Join(l, Comma) ELSE <<>>]
        /\ used = Range(l)
    /\ conn = [c \in Clients |-> Closed]
    /\ orphans = {}
    /\ delivered = [e \in Elements |-> 0] /\ ncalls = 0

-----------------------------------------------------------------------------
(* The proxy's requests                                                    *)

\* An element is put into a list when it is new, as a listener schedules an order,
\* or after a pop returned it, as a manager lists the order as processed.
Calls ==
    [op : {"append", "prepend"}, key : CsvKeys,
     val : (Elements \ used) \cup {e \in Elements : delivered[e] > 0}]
    \cup [op : {"match_pop", "search_delete"}, key : CsvKeys, val : Elements]
    \cup [op : {"pop"}, key : CsvKeys]
    \cup [op : {"get", "remove"}, key : Keys]
    \cup [op : {"set"}, key : PlainKeys, val : Values]
    \cup [op : {"lookup"}, keys : {CsvKeys, PlainKeys}]

\* The table a lookup names: one holds lists, the other plain values.
TableName(keys) == IF keys = CsvKeys THEN <<"c">> ELSE <<"p">>

\* set, get, remove and lookup.
PlainRequest(q) ==
    CASE q.op = "lookup" -> << <<"L">>, TableName(q.keys)>>
      [] q.op = "get" -> << <<"G">>, q.key>>
      [] q.op = "remove" -> << <<"R">>, q.key>>
      [] q.op = "set" -> << <<"S">>, q.key, q.val>>

\* csv_append, csv_prepend, csv_pop, csv_match_pop and csv_search_delete.
CsvRequest(q) ==
    CASE q.op = "append" -> << <<"CA">>, q.key, q.val>>
      [] q.op = "prepend" -> << <<"CP">>, q.key, q.val>>
      [] q.op = "pop" -> << <<"CR">>, q.key>>
      [] q.op = "match_pop" -> << <<"CM">>, q.key, q.val>>
      [] q.op = "search_delete" -> << <<"CD">>, q.key, q.val>>

Request(q) ==
    Sent(IF q.op \in {"lookup", "get", "remove", "set"} THEN PlainRequest(q)
         ELSE CsvRequest(q))

-----------------------------------------------------------------------------
(* LMDB: comma-separated values as byte strings                            *)

\* csv_extend: the element goes behind or before the old value.
CsvExtend(v, e, isPrepend) ==
    CASE v = <<>> -> e
      [] v # <<>> /\ isPrepend -> e \o <<Comma>> \o v
      [] OTHER -> v \o <<Comma>> \o e

FirstValue(v) == Head(Split(v, Comma))

\* Fault: the key of a list with one element is not deleted.
CsvPopKeepsLast(v) ==
    IF FirstValue(v) = v THEN v ELSE SubSeq(v, Len(FirstValue(v)) + 2, Len(v))

\* csv_pop without its first element and the comma behind it.
CsvPop(v) == SubSeq(v, Len(FirstValue(v)) + 2, Len(v))

\* Where csv_search_delete looks: it steps by the length of the element it
\* searches, whatever the lengths of the elements in the list are.
Strides(v, e) == {i \in DOMAIN v : (i - 1) % (Len(e) + 1) = 0}

MatchAt(v, e, i) == i + Len(e) - 1 <= Len(v) /\ SubSeq(v, i, i + Len(e) - 1) = e

Cut(v, i, j) == SubSeq(v, 1, i - 1) \o SubSeq(v, j + 1, Len(v))

\* A comparison that runs past the end of the buffer reads foreign bytes, so it
\* may succeed when the bytes before the end agree.
OverrunAt(v, e, i) == i + Len(e) - 1 > Len(v) /\ IsPrefix(SubSeq(v, i, Len(v)), e)

\* Fault: a match that is not the last element leaves its comma behind.
EraseAtComma(v, e, i) == Cut(v, i, i + Len(e) - 1)

EraseAt(v, e, i) ==
    CASE i + Len(e) - 1 < Len(v) -> Cut(v, i, i + Len(e))
      [] i + Len(e) - 1 = Len(v) /\ Len(e) < Len(v) -> Cut(v, i - 1, Len(v))
      [] OTHER -> <<>>

\* Erasing past the end ends the value early; for an element longer than the
\* whole value none of the three ways to erase is taken.
EraseOverrun(v, e, i) == IF Len(e) > Len(v) THEN v ELSE SubSeq(v, 1, i - 2)

\* The possible outcomes of csv_search_delete: the value left and whether the
\* element was found.
CsvSearchDelete(v, e) ==
    LET hits == {i \in Strides(v, e) : MatchAt(v, e, i)}
        overruns == {i \in Strides(v, e) : OverrunAt(v, e, i)}
    IN IF hits # {}
       THEN {[left |-> EraseAt(v, e, CHOOSE i \in hits : \A j \in hits : i <= j),
              found |-> TRUE]}
       ELSE {[left |-> v, found |-> FALSE]}
            \cup {[left |-> EraseOverrun(v, e, i), found |-> TRUE] : i \in overruns}

-----------------------------------------------------------------------------
(* The server                                                              *)

Found(v) == IF v = <<>> THEN << <<"n">> >> ELSE << <<"v">>, v>>
Flag(b) == << <<IF b THEN "t" ELSE "f">> >>

InOrder(ks) == SetToSeq(ks)

\* The keys of the table, joined with commas.
Lookup(ks) ==
    LET there == {k \in ks : bytes[k] # <<>>}
    IN IF there = {} THEN << <<"n">> >> ELSE << <<"l">>, Join(InOrder(there), Comma)>>

Left(w, answer) == {[left |-> w, answer |-> answer]}

\* KvDBStore.get, set and remove: the value left and the answer.
RunPlain(cmd, v, args) ==
    CASE cmd = "G" -> Left(v, Found(v))
      [] cmd = "S" -> Left(args[3], Flag(TRUE))
      [] cmd = "R" -> Left(<<>>, Flag(v # <<>>))

\* KvDBStore.csv_append, csv_prepend, csv_pop, csv_match_pop, csv_search_delete.
RunCsv(cmd, v, args) ==
    CASE cmd = "CA" -> Left(CsvExtend(v, args[3], FALSE), Flag(TRUE))
      [] cmd = "CP" -> Left(CsvExtend(v, args[3], TRUE), Flag(TRUE))
      [] cmd = "CR" -> Left(IF v = <<>> THEN v ELSE CsvPop(v), Found(FirstValue(v)))
      [] cmd = "CM" -> IF v = <<>> \/ FirstValue(v) # args[3] THEN Left(v, Found(<<>>))
                       ELSE Left(CsvPop(v), Found(args[3]))
      [] cmd = "CD" -> {[left |-> r.left, answer |-> Flag(r.found)] :
                            r \in CsvSearchDelete(v, args[3])}

\* _process_request, by the command in the first field.
Process(args) ==
    LET cmd == args[1][1]
        v == bytes[args[2]]
    IN IF cmd \in {"G", "S", "R"} THEN RunPlain(cmd, v, args) ELSE RunCsv(cmd, v, args)

\* What one request can leave in the database, and its answer.
Run(args) ==
    IF args[1] = <<"L">>
    THEN {[bytes |-> bytes, answer |-> Lookup(IF args[2] = <<"c">> THEN CsvKeys ELSE PlainKeys)]}
    ELSE {[bytes |-> [bytes EXCEPT ![args[2]] = r.left], answer |-> r.answer] :
              r \in Process(args)}

Serve(c) ==
    /\ conn[c].st = "sent"
    /\ \E r \in Run(conn[c].args) :
           /\ bytes' = r.bytes
           /\ conn' = [conn EXCEPT ![c] = [st |-> "answered", q |-> conn[c].q,
                                           args |-> Sent(r.answer)]]
    /\ UNCHANGED <<orphans, used, delivered, ncalls>>

\* The answer to a client that has gone is written to a closed connection.
ServeOrphan(o) ==
    /\ \E r \in Run(Request(o[2])) : bytes' = r.bytes
    /\ orphans' = orphans \ {o}
    /\ UNCHANGED <<conn, used, delivered, ncalls>>

-----------------------------------------------------------------------------
(* The proxy                                                               *)

\* _postmsg opens a connection and writes the request.
Post(c) ==
    /\ conn[c] = Closed /\ ncalls < MaxCalls
    /\ ncalls' = ncalls + 1
    /\ \E q \in Calls :
        /\ conn' = [conn EXCEPT ![c] = [st |-> "sent", q |-> q, args |-> Request(q),
                                        n |-> ncalls']]
        /\ used' = IF q.op \in {"append", "prepend"} THEN used \cup {q.val} ELSE used
        /\ delivered' = IF q.op \in {"append", "prepend"} /\ q.val \in used
                        THEN [delivered EXCEPT ![q.val] = @ - 1] ELSE delivered
    /\ UNCHANGED <<bytes, orphans>>

\* What the proxy makes of an answer to a request that sets or gets.
SetResult(args) == CASE args = << <<"t">> >> -> TRUE [] args = << <<"f">> >> -> FALSE
                     [] OTHER -> None
GetResult(args) == IF Len(args) = 2 /\ args[1] = <<"v">> THEN args[2] ELSE None
LookupResult(args) ==
    IF Len(args) = 2 /\ args[1] = <<"l">> THEN Range(Split(args[2], Comma)) ELSE {}

Result(q, args) ==
    CASE q.op = "lookup" -> LookupResult(args)
      [] q.op \in {"get", "pop", "match_pop"} -> GetResult(args)
      [] OTHER -> SetResult(args)

\* The answer arrives and the call returns.
Receive(c) ==
    /\ conn[c].st = "answered"
    /\ LET r == Result(conn[c].q, conn[c].args)
       IN delivered' = IF conn[c].q.op \in {"pop", "match_pop"} /\ r # None
                       THEN [delivered EXCEPT ![r] = @ + 1] ELSE delivered
    /\ conn' = [conn EXCEPT ![c] = Closed]
    /\ UNCHANGED <<bytes, orphans, used, ncalls>>

\* Ten seconds pass: the call raises, and a request that the server has not read
\* yet stays in its backlog.
Timeout(c) ==
    /\ conn[c].st # "idle"
    /\ orphans' = IF conn[c].st = "sent" THEN orphans \cup {<<c, conn[c].q, conn[c].n>>}
                  ELSE orphans
    /\ conn' = [conn EXCEPT ![c] = Closed]
    /\ UNCHANGED <<bytes, used, delivered, ncalls>>

\* The server goes away with the request unread: the call raises.
Break(c) ==
    /\ conn[c].st = "sent"
    /\ conn' = [conn EXCEPT ![c] = Closed]
    /\ UNCHANGED <<bytes, orphans, used, delivered, ncalls>>

ProtoNext ==
    \/ \E c \in Clients : Post(c) \/ Break(c) \/ Serve(c) \/ Receive(c) \/ Timeout(c)
    \/ \E o \in orphans : ServeOrphan(o)

ProtoSpec == ProtoInit /\ [][ProtoNext]_protoVars

-----------------------------------------------------------------------------
(* The interface it implements                                             *)

\* The list a byte string stands for.
List(v) == IF v = <<>> THEN <<>> ELSE Split(v, Comma)

AbstractTable == [k \in Keys |-> IF k \in CsvKeys THEN List(bytes[k]) ELSE bytes[k]]

\* Callers split a list they get at its commas.
AbstractResult(q, r) ==
    IF q.op = "get" /\ q.key \in CsvKeys /\ r # None THEN List(r) ELSE r

AbstractCalls ==
    [c \in Clients |->
        CASE conn[c].st = "idle" -> Closed
          [] conn[c].st = "sent" -> [st |-> "called", q |-> conn[c].q, n |-> conn[c].n]
          [] conn[c].st = "answered" ->
                [st |-> "done", q |-> conn[c].q,
                 result |-> AbstractResult(conn[c].q, Result(conn[c].q, conn[c].args))]]

Interface == INSTANCE CsvStore WITH
    table <- AbstractTable, calls <- AbstractCalls, late <- orphans, made <- ncalls

\* The text protocol and the byte strings implement the interface: every request
\* is applied at most once and atomically to the lists the byte strings stand
\* for, and what the proxy returns is what the interface promises, with requests
\* of clients that timed out run late in between.
ImplementsInterface == Interface!Spec

\* An element that is put into a list is returned by at most one pop before it is
\* put into one again, and while the client has it it is in no list, also when
\* pops time out and are repeated while the first ones are still in the server's
\* backlog.
PoppedOnce ==
    \A e \in Elements :
        /\ delivered[e] <= 1
        /\ delivered[e] > 0 => \A k \in CsvKeys : e \notin Range(List(bytes[k]))
=============================================================================
