------------------------------- MODULE Loans -------------------------------
(***************************************************************************)
(* What a pool promises about each thing it manages (the ChannelHosts of   *)
(* the channel cache, the ConnectionHosts of the connection queue): it is  *)
(* outside the pool, on the shelf, or lent to one borrower, and a borrower *)
(* can only put it back on the shelf.                                      *)
(***************************************************************************)
CONSTANTS Items, Borrowers, Shelf, Outside

VARIABLE place

Init == place = [i \in Items |-> Outside]

Move(i, from, to) == place[i] = from /\ place' = [place EXCEPT ![i] = to]

Stock(i) == Move(i, Outside, Shelf)

Lend(i, b) == Move(i, Shelf, b)

GiveBack(i, b) == Move(i, b, Shelf)

\* Shutdown retires several things at once.
Retire(S) ==
    /\ \A i \in S : place[i] = Shelf
    /\ place' = [i \in Items |-> IF i \in S THEN Outside ELSE place[i]]

Next ==
    \/ \E i \in Items : Stock(i) \/ \E b \in Borrowers : Lend(i, b) \/ GiveBack(i, b)
    \/ \E S \in SUBSET Items : Retire(S)

Spec == Init /\ [][Next]_place
=============================================================================
