--------------------------- MODULE ResourceLedger ---------------------------
(***************************************************************************)
(* What the broker promises about the resources it manages, whoever writes *)
(* the advertisements and in whatever order: there is one ledger with, for *)
(* each cluster, what its agent last reported and what is held for         *)
(* reservations.  Holding, releasing and reporting are atomic, nobody's    *)
(* entry is lost, a report never touches what is held, and nothing is held *)
(* that the report does not cover.                                         *)
(***************************************************************************)
EXTENDS Integers

CONSTANTS Kinds, Clusters,
          Amounts,   \* the quantities reservations ask for
          Reports    \* the quantities agents report

VARIABLES reported,  \* [Clusters -> quantities]
          held       \* [Clusters -> quantities]

ledgerVars == <<reported, held>>

Zero == [k \in Kinds |-> 0]

LedgerInit ==
  /\ reported \in [Clusters -> Reports \cup {Zero}]
  /\ held = [c \in Clusters |-> Zero]

Hold(c, q) ==
  /\ \A k \in Kinds : reported[c][k] - held[c][k] >= q[k]
  /\ held' = [held EXCEPT ![c] = [k \in Kinds |-> held[c][k] + q[k]]]
  /\ UNCHANGED reported

Release(c, q) ==
  /\ held' = [held EXCEPT ![c] = [k \in Kinds |-> held[c][k] - q[k]]]
  /\ UNCHANGED reported

Report(c, x) ==
  /\ reported' = [reported EXCEPT ![c] = x]
  /\ UNCHANGED held

LedgerNext ==
  \E c \in Clusters : \/ \E q \in Amounts : Hold(c, q) \/ Release(c, q)
                      \/ \E x \in Reports : Report(c, x)

LedgerSpec == LedgerInit /\ [][LedgerNext]_ledgerVars
=============================================================================
