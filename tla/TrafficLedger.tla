--------------------------- MODULE TrafficLedger ---------------------------
(***************************************************************************)
(* What the traffic pipeline promises, without saying how: an Agent        *)
(* records usage in numbered rows, and the Manager credits at most one     *)
(* recorded row for each number, once, with exactly the bytes recorded,    *)
(* however often and over whichever connections rows are sent, and even    *)
(* when a number has been given to two rows (traffic_events carries        *)
(* UNIQUE(machine_id, sequence), internal/manager/db/schema.go).           *)
(***************************************************************************)
EXTENDS Integers

CONSTANT Scopes

VARIABLES
  recorded, \* rows the Agent has ever recorded
  credited, \* rows the Manager has added to its totals
  total     \* total[s]: the bytes the Manager shows for scope s

LedgerRow == [seq : Nat, scope : Scopes, bytes : Nat]

LedgerInit ==
  /\ recorded = {} /\ credited = {}
  /\ total = [s \in Scopes |-> 0]

Record(r) ==
  /\ r \in LedgerRow
  /\ recorded' = recorded \cup {r}
  /\ UNCHANGED <<credited, total>>

Credit(r) ==
  /\ r \in recorded
  /\ \A x \in credited : x.seq # r.seq
  /\ credited' = credited \cup {r}
  /\ total' = [total EXCEPT ![r.scope] = @ + r.bytes]
  /\ UNCHANGED recorded

\* The new row is named by its presence in recorded', which a model checker
\* can enumerate while LedgerRow is infinite.
LedgerNext ==
  \/ \E r \in recorded' \ recorded : Record(r)
  \/ \E r \in recorded : Credit(r)

LedgerSpec == LedgerInit /\ [][LedgerNext]_<<recorded, credited, total>>
=============================================================================
