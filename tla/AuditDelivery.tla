--------------------------- MODULE AuditDelivery ---------------------------
(***************************************************************************)
(* What the reader of the audit sink is promised, whatever the node, the   *)
(* pod and the object store do (header of                                  *)
(* src/apps/base/observability-audit-sink/scripts/ship.sh): the bytes of   *)
(* the audit log reach the sink in the order they were written, and a byte *)
(* that will not is declared lost before anything younger is shipped.      *)
(* AuditShipper implements it.                                             *)
(***************************************************************************)
EXTENDS Integers

CONSTANTS MaxFiles, MaxLen

VARIABLES
  written,    \* bytes the API server wrote, as <<file, offset>>
  onNode,     \* those the node still holds
  stored,     \* those the sink holds
  declared    \* those the sink declares lost

vars == <<written, onNode, stored, declared>>

Bytes == (1..MaxFiles) \X (1..MaxLen)
Older(b, c) == b[1] < c[1] \/ (b[1] = c[1] /\ b[2] < c[2])

\* The history of the sink begins with the oldest file it holds a byte of.
History(S) == {b \in Bytes : \E c \in S : c[1] <= b[1]}

Init == written = {} /\ onNode = {} /\ stored = {} /\ declared = {}

\* The API server writes at the end of the log.
Write ==
  /\ \E b \in Bytes :
       /\ \A c \in written : Older(c, b)
       /\ written' = written \cup {b}
       /\ onNode' = onNode \cup {b}
  /\ UNCHANGED <<stored, declared>>

\* The node drops bytes, shipped or not.
Expire ==
  /\ onNode' \subseteq onNode
  /\ UNCHANGED <<written, stored, declared>>

\* A range reaches the sink once all that is older is accounted for.
Ship ==
  /\ stored \subseteq stored' /\ stored' \subseteq written
  /\ \A b \in stored' \ stored : \A c \in written \cap History(stored') :
       Older(c, b) => c \in stored' \cup declared
  /\ UNCHANGED <<written, onNode, declared>>

\* What is declared lost is lost: no byte the node still holds is given up.
Declare ==
  /\ declared \subseteq declared'
  /\ declared' \ declared \subseteq written \ onNode
  /\ UNCHANGED <<written, onNode, stored>>

Next == Expire \/ Declare \/ Ship \/ Write

Spec == Init /\ [][Next]_vars
=============================================================================
