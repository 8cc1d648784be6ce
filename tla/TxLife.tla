------------------------------- MODULE TxLife -------------------------------
(***************************************************************************)
(* What a node promises about the transactions it takes: at any time each  *)
(* is unknown to it, waiting or confirmed, and of two that conflict it     *)
(* holds at most one, waiting or confirmed.  Chain, pool and miner realise *)
(* this without ever looking at both at once; TokenNode shows that they    *)
(* do, whatever blocks come and go.                                        *)
(***************************************************************************)
CONSTANTS
  Transactions,   \* the transactions there are
  Excludes        \* the pairs of transactions that exclude each other

VARIABLE status   \* status[t]: "unknown", "waiting" or "confirmed"

\* Two different transactions of S exclude each other.
Clash(S) == \E s, t \in S : s # t /\ <<s, t>> \in Excludes

In(st) == {t \in Transactions : status[t] = st}

Init ==
  /\ status \in [Transactions -> {"unknown", "confirmed"}]
  /\ ~Clash(In("confirmed"))

\* t is taken if nothing that is waiting or confirmed excludes it.
Admit(t) ==
  /\ status[t] = "unknown"
  /\ \A s \in In("waiting") \cup In("confirmed") : <<s, t>> \notin Excludes
  /\ status' = [status EXCEPT ![t] = "waiting"]

\* The transactions of B are confirmed, which ends the wait of those that
\* they exclude.
Confirm(B) ==
  /\ B \cap In("confirmed") = {}
  /\ ~Clash(B \cup In("confirmed"))
  /\ status' = [t \in Transactions |->
                  IF t \in B THEN "confirmed"
                  ELSE IF status[t] = "waiting" /\ \E s \in B : <<s, t>> \in Excludes
                  THEN "unknown"
                  ELSE status[t]]

\* A reorganisation forgets confirmed transactions.
Revoke(B) ==
  /\ B \subseteq In("confirmed")
  /\ status' = [t \in Transactions |-> IF t \in B THEN "unknown" ELSE status[t]]

\* What a step admits, confirms or revokes can be read off the step.
Entering(st) == {t \in Transactions : status[t] # st /\ status'[t] = st}

Next ==
  \/ Revoke(In("confirmed") \cap Entering("unknown"))
  \/ \E t \in Entering("waiting") : Admit(t)
  \/ Confirm(Entering("confirmed"))

Spec == Init /\ [][Next]_status
=============================================================================
