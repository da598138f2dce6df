----------------------------- MODULE MCHashTable ----------------------------
(* An instance of HashTable: positions that share a slot, one of them a mate. *)
EXTENDS HashTable, TLC

MCKey == 1 :> 0 @@ 2 :> 2
MCValue == 1 :> (0 :> {0} @@ 1 :> {1}) @@ 2 :> (0 :> {-1} @@ 1 :> {3, 4})
MCWindows == {<<-1, 1>>, <<3, 5>>, <<-5, -4>>}

\* Windows as parallel_search() has them: one within the mates, and its null window.
PlainWindows == {<<-1, 1>>, <<0, 1>>}
MCScores == -5 .. 5

=============================================================================
