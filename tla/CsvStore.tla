------------------------------ MODULE CsvStore ------------------------------
(***************************************************************************)
(* What the key-value storage interfaces promise their callers: a table of *)
(* lists of elements and a table of plain values, every operation atomic,  *)
(* and each call applied at most once.  A call that raises may have been   *)
(* applied, may be applied later, or never.                                *)
(***************************************************************************)
EXTENDS Naturals, Sequences, SequencesExt

CONSTANTS
    Clients,    \* listeners and enclave managers
    CsvKeys,    \* keys whose value is a list of elements
    PlainKeys,  \* keys whose value is opaque
    Elements,   \* list elements
    Values,     \* opaque values
    Stored,     \* lists that may be in the database when the server starts
    None        \* the result of a call that finds nothing

VARIABLES
    table,  \* key -> its list or value
    calls,  \* the call each client is in
    late,   \* calls that raised and may still be applied: client, request, number
    made    \* the number of calls made

vars == <<table, calls, late, made>>

Keys == CsvKeys \cup PlainKeys

Missing == <<>>

Present(ks) == {k \in ks : table[k] # Missing}

\* The requests a caller can make.
Requests ==
    [op : {"append", "prepend", "match_pop", "search_delete"}, key : CsvKeys, val : Elements]
    \cup [op : {"pop"}, key : CsvKeys]
    \cup [op : {"get", "remove"}, key : Keys]
    \cup [op : {"set"}, key : PlainKeys, val : Values]
    \cup [op : {"lookup"}, keys : {CsvKeys, PlainKeys}]

\* The interface: what each request makes of the list or value under its key ...
Effect(q, v) ==
    CASE q.op = "append" -> Append(v, q.val)
      [] q.op = "prepend" -> <<q.val>> \o v
      [] q.op = "pop" -> IF v = <<>> THEN v ELSE Tail(v)
      [] q.op = "match_pop" -> IF v # <<>> /\ Head(v) = q.val THEN Tail(v) ELSE v
      [] q.op = "search_delete" -> RemoveFirst(v, q.val)
      [] q.op = "set" -> q.val
      [] q.op = "remove" -> Missing
      [] q.op = "get" -> v

\* ... and what it returns.
Outcome(q) ==
    IF q.op = "lookup" THEN Present(q.keys)
    ELSE LET v == table[q.key]
         IN CASE q.op \in {"append", "prepend", "set"} -> TRUE
              [] q.op = "pop" -> IF v = <<>> THEN None ELSE Head(v)
              [] q.op = "match_pop" ->
                    IF v # <<>> /\ Head(v) = q.val THEN q.val ELSE None
              [] q.op = "search_delete" -> q.val \in Range(v)
              [] q.op = "remove" -> v # Missing
              [] q.op = "get" -> IF v = Missing THEN None ELSE v

Init ==
    /\ table \in [Keys -> Stored \cup {Missing}]
    /\ \A k \in PlainKeys : table[k] = Missing
    /\ calls = [c \in Clients |-> [st |-> "idle"]]
    /\ late = {} /\ made = 0

Take(q) == table' = IF q.op = "lookup" THEN table
                    ELSE [table EXCEPT ![q.key] = Effect(q, @)]

Call(c) ==
    /\ calls[c].st = "idle"
    /\ made' = made + 1
    /\ \E q \in Requests :
           calls' = [calls EXCEPT ![c] = [st |-> "called", q |-> q, n |-> made']]
    /\ UNCHANGED <<table, late>>

Apply(c) ==
    /\ calls[c].st = "called"
    /\ Take(calls[c].q)
    /\ calls' = [calls EXCEPT ![c] = [st |-> "done", q |-> calls[c].q,
                                      result |-> Outcome(calls[c].q)]]
    /\ UNCHANGED <<late, made>>

Return(c) ==
    /\ calls[c].st = "done"
    /\ calls' = [calls EXCEPT ![c] = [st |-> "idle"]]
    /\ UNCHANGED <<table, late, made>>

Raise(c) ==
    /\ calls[c].st # "idle"
    /\ late' \in {late} \cup IF calls[c].st = "called"
                             THEN {late \cup {<<c, calls[c].q, calls[c].n>>}} ELSE {}
    /\ calls' = [calls EXCEPT ![c] = [st |-> "idle"]]
    /\ UNCHANGED <<table, made>>

ApplyLate(p) ==
    /\ Take(p[2])
    /\ late' = late \ {p}
    /\ UNCHANGED <<calls, made>>

Next ==
    \/ \E c \in Clients : Call(c) \/ Apply(c) \/ Return(c) \/ Raise(c)
    \/ \E p \in late : ApplyLate(p)

Spec == Init /\ [][Next]_vars
=============================================================================
