-------------------------- MODULE MCHttpService --------------------------
(***************************************************************************)
(* The service over the transactions of MCTokenChainStore.                 *)
(***************************************************************************)
EXTENDS MCTokenChainStore, HttpService

CONSTANT bad

\* A coinbase and one other transaction, or two that spend from one list.
MCServiceBlocks ==
  {<<c>> \o s : c \in {cb1, cb2, cb3}, s \in SeqOf({pay, join, regX, regE, move, again}, 1)}
    \cup {<<cb2, pay, regX>>, <<cb2, regX, pay>>, <<cb3, again, move>>, <<cb3, regX, again>>}

\* The blocks of the runs that reorganise the chain under a request.
MCServeReorgBlocks == {<<cb1>>, <<cb2>>, <<cb2, pay>>, <<cb2, regX>>, <<cb2, regE>>, <<cb3, move>>}

MCServeReorgRequests == {<<B>>, <<bad>>}

MCRequests == {<<A>>, <<B, A>>, <<A, bad>>}

\* One unit of ELA is 10 base units, one unit of a token is 4.
MCAssetUnit == [a \in {ela, X, Y, E} |-> IF a = ela THEN 10 ELSE 4]
=============================================================================
