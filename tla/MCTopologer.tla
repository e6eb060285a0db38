----------------------------- MODULE MCTopologer -----------------------------
(* A small topology for TLC, in which the settings of at most one element   *)
(* differ from a plain awaited declaration.                                *)
EXTENDS Topologer, TLC

CONSTANTS logs, audit, jobs, mail

SomeExchanges == <<logs, audit>>
SomeQueues == <<jobs, mail>>
SomeQueueBindings == <<<<jobs, logs>>>>
SomeExchangeBindings == <<<<audit, logs>>>>

Plain == [passive |-> FALSE, noWait |-> FALSE, durable |-> TRUE, autoDelete |-> FALSE,
          exclusive |-> FALSE, quorum |-> FALSE, args |-> "nil"]
Exclusive == {[Plain EXCEPT !.exclusive = TRUE]}
Short == {[Plain EXCEPT !.autoDelete = TRUE], [Plain EXCEPT !.durable = FALSE]} \cup Exclusive
Unanswered == {[Plain EXCEPT !.noWait = TRUE]}
Quorum == {[Plain EXCEPT !.quorum = TRUE, !.args = "other"],
           [Plain EXCEPT !.quorum = TRUE, !.exclusive = TRUE, !.noWait = TRUE]}
Passive == {[Plain EXCEPT !.passive = TRUE]}

\* One element with other settings, or none.
Varied(elements, settings) ==
    {[[e \in Entities |-> Plain] EXCEPT ![p[1]] = p[2]]
     : p \in {p \in elements \X (settings \cup {Plain}) : Configured(p[1], p[2])}}

\* Two builds of every config, with one call beside them; and no build, with calls
\* enough to declare both queues and for a purge to race with arrivals,
\* deliveries and deletions.
BuildScenarios ==
    [conf : Varied({jobs}, Short \cup Quorum \cup Passive) \cup Varied({logs}, Short)
            \cup Varied({<<jobs, logs>>}, Unanswered),
     builds : {2}, ops : {1}]
PurgeScenarios == [conf : {[e \in Entities |-> Plain]}, builds : {0}, ops : {6}]
SomeScenarios == BuildScenarios \cup PurgeScenarios
PlainOrExclusive == {Plain} \cup Exclusive

\* Builders are interchangeable.
Symmetry == Permutations(Builders)
=============================================================================
