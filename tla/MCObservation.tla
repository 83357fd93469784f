---------------------------- MODULE MCObservation ----------------------------
(* Small instances of Observation: two subscribers of a simple query, one of a
   query that is fetched again.                                             *)
EXTENDS Observation, TLC

CONSTANTS simpleQuery, reloadingQuery, first, second, third

MCQuery      == {simpleQuery, reloadingQuery}
MCSimple     == {simpleQuery}
MCSubscriber == {first, second, third}
MCObserves   == (first :> simpleQuery) @@ (second :> simpleQuery)
                @@ (third :> reloadingQuery)

Symmetry == Permutations(Id) \cup Permutations({first, second})
=============================================================================
