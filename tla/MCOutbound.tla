------------------------------ MODULE MCOutbound ------------------------------
(* Instances of the outbox delivery specification for TLC. *)
EXTENDS OutboundDispatcher

\* "medium" may not be evicted, the others may.
MCPriority == [k \in Producers |-> IF k \in {"medium", "medium2"} THEN 2 ELSE 1]
MCPayloadBytes == [k \in Producers |-> 1]
MCLargePayload == [k \in Producers |-> 3]

==============================================================================
