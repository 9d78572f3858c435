--------------------------- MODULE MCRemoteCommands ---------------------------
(***************************************************************************)
(* Instances of RemoteCommands.                                             *)
(***************************************************************************)
EXTENDS RemoteCommands, TLC

CONSTANTS q1, q2, q3, k1, k2, k3, k4, k5, title, lot, intent, entry

ThreeRequests == {q1, q2, q3}

\* Two keys for the journal, two for the thread, one for the managed run.
MCKey == {k1, k2, k3, k4, k5}
MCToolOf == [k \in Key |-> CASE k \in {k1, k2} -> "journal"
                             [] k \in {k3, k4} -> "thread"
                             [] OTHER -> "pipeline"]

\* The changes of a thread that may go through; what a journal entry or a
\* run's command says makes no difference to anybody.
MCBodyOf == [k \in Key |-> IF MCToolOf[k] = "thread"
                          THEN Body \ {entry} ELSE Body \cap {entry}]
Kinds == (title :> "thread") @@ (lot :> "lot") @@ (intent :> "sell_allocation")
           @@ (entry :> "thread")
MCKindOf == [b \in Body |-> Kinds[b]]

\* Requests are alike, and so are the keys of one tool.
Alike == Permutations(Request) \cup Permutations({k1, k2}) \cup Permutations({k3, k4})
=============================================================================
