------------------------ MODULE MCWorkOrderProtocol ------------------------
EXTENDS WorkOrderProtocol

\* One client builds its order in every way worth telling apart: encrypted and
\* plain items in both orders, data behind the hash, no data, no hash, no such
\* workload.  The other is a plain user of the generic client.
MCPrograms ==
    <<[workload : {"known"},
       calls : {<<"session", "session", "hash">>, <<"session", "-", "hash">>,
                <<"-", "session", "hash">>, <<"session", "hash", "session">>, <<"hash">>, <<"session">>}]
          \cup [workload : {"unknown"}, calls : {<<"session", "hash">>}],
      [workload : {"known"}, calls : {<<"session", "hash">>}]>>
=============================================================================
