---- MODULE SensorFrames ----
(***************************************************************************)
(* The frames the sensor brokers send their endpoint agents.  An event is   *)
(*   [kind, type, ts, opt, text]                                            *)
(* where `opt` maps every optional field of ConnectionLifecycleEvent or     *)
(* ProcessExecEvent to a value or None, and `text` is the class of its text *)
(* fields: empty, one that fits its array, or one that does not.  A payload *)
(* has the set of flags whose bit is set and a number for every field, 0    *)
(* where the encoder left the field alone.                                  *)
(***************************************************************************)
EXTENDS Integers, FiniteSets

CONSTANT None

LifecycleFields ==
  {"agentPid", "agentTgid", "kernelPid", "kernelTgid", "pidNamespace", "uid", "startTicks",
   "netns", "cookie", "connectionId", "tcpState", "local", "localPort", "remote", "remotePort"}
ProcessFields ==
  {"pid", "tgid", "parentPid", "parentTgid", "uid", "gid", "start", "key", "parentStart",
   "parentKey", "session", "elevated", "exitCode", "cgroup"}
FieldsOf(kind) == IF kind = "lifecycle" THEN LifecycleFields ELSE ProcessFields
TypesOf(kind) == IF kind = "lifecycle" THEN {"connect", "accept", "close"} ELSE {"start", "exit"}

\* The thread id that goes with each process id, and the port of each address.
Pairs(kind) ==
  IF kind = "lifecycle" THEN {<<"agentPid", "agentTgid">>, <<"kernelPid", "kernelTgid">>}
  ELSE {<<"pid", "tgid">>, <<"parentPid", "parentTgid">>}
Ports == {<<"local", "localPort">>, <<"remote", "remotePort">>}
PairFields(kind) == UNION {{p[1], p[2]} : p \in Pairs(kind)}

\* An event of the given fields and values; every other field is nullopt.
Event(kind, type, ts, values, text) ==
  [kind |-> kind, type |-> type, ts |-> ts, text |-> text,
   opt |-> [f \in FieldsOf(kind) |-> IF f \in DOMAIN values THEN values[f] ELSE None]]

\* copy_text: an array of N bytes keeps the first N - 1.
CopyText(text) == IF text = "long" THEN "cut" ELSE text

\* Fields that are present, other than the pairs; a port only with its address.
Single(e) ==
  {f \in FieldsOf(e.kind) \ PairFields(e.kind) :
     /\ e.opt[f] # None
     /\ \A p \in Ports : f = p[2] => e.opt[p[1]] # None}

Payload(e, flags, values) ==
  [type |-> e.type, ts |-> e.ts, text |-> CopyText(e.text), flags |-> flags,
   values |-> [f \in FieldsOf(e.kind) |-> IF f \in flags THEN values[f] ELSE 0]]
MakeFrame(kind, seq, payload) == [kind |-> kind, seq |-> seq, payload |-> payload]

LinuxFlagsByPid(e) ==
  Single(e) \cup UNION {{p[1], p[2]} : p \in {q \in Pairs(e.kind) : e.opt[q[1]] # None}}
\* Linux: a process id is carried only together with its thread group id.
LinuxFlags(e) ==
  Single(e) \cup UNION {{p[1], p[2]} : p \in {q \in Pairs(e.kind) : e.opt[q[1]] # None /\ e.opt[q[2]] # None}}
LinuxEncodeLifecycle(seq, e) == MakeFrame("lifecycle", seq, Payload(e, LinuxFlags(e), e.opt))
LinuxEncodeProcessExec(seq, e) == MakeFrame("process", seq, Payload(e, LinuxFlags(e), e.opt))

\* The flagged fields of a payload; the event's texts come back as they were cut.
Decoded(frame) ==
  [kind |-> frame.kind, type |-> frame.payload.type, ts |-> frame.payload.ts,
   text |-> frame.payload.text,
   opt |-> [f \in FieldsOf(frame.kind) |->
              IF f \in frame.payload.flags THEN frame.payload.values[f] ELSE None]]
LinuxDecodeLifecycle(frame) == IF frame.kind = "lifecycle" THEN Decoded(frame) ELSE None
LinuxDecodeProcessExec(frame) == IF frame.kind = "process" THEN Decoded(frame) ELSE None

\* Windows: the format has no pid namespace, network namespace, socket cookie
\* or cgroup, and a missing thread id becomes the process id.
Unsupported == {"pidNamespace", "netns", "cookie", "cgroup"}
WindowsFlags(e) ==
  (Single(e) \ Unsupported) \cup UNION {{p[1], p[2]} : p \in {q \in Pairs(e.kind) : e.opt[q[1]] # None}}
WindowsValues(e) ==
  [f \in FieldsOf(e.kind) |->
     IF e.opt[f] = None /\ \E p \in Pairs(e.kind) : p[2] = f
     THEN e.opt[(CHOOSE p \in Pairs(e.kind) : p[2] = f)[1]] ELSE e.opt[f]]
WindowsEncodeLifecycle(seq, e) == MakeFrame("lifecycle", seq, Payload(e, WindowsFlags(e), WindowsValues(e)))
WindowsEncodeProcessExec(seq, e) == MakeFrame("process", seq, Payload(e, WindowsFlags(e), WindowsValues(e)))
WindowsDecodeLifecycle(frame) ==
  IF frame.kind = "lifecycle" /\ frame.payload.type \in TypesOf("lifecycle") THEN Decoded(frame) ELSE None
WindowsDecodeProcessExec(frame) ==
  IF frame.kind = "process" /\ frame.payload.type \in TypesOf("process") THEN Decoded(frame) ELSE None

----
(***************************************************************************)
(* Reference: what an endpoint should receive of an event.  Field by field, *)
(* whatever of the event the platform's format can carry and nothing else.  *)
(***************************************************************************)
Missing(e, f) == f \in FieldsOf(e.kind) /\ e.opt[f] = None
Halves(e, f) == UNION {{p[1], p[2]} : p \in {q \in Pairs(e.kind) : f \in {q[1], q[2]}}}
PortAlone(e, f) == \E p \in Ports : f = p[2] /\ Missing(e, p[1])
CarriedByLinux(e) ==
  [e EXCEPT !.text = CopyText(@),
            !.opt = [f \in FieldsOf(e.kind) |->
                       IF PortAlone(e, f) \/ \E g \in Halves(e, f) : Missing(e, g)
                       THEN None ELSE e.opt[f]]]
CarriedByWindows(e) ==
  [e EXCEPT !.text = CopyText(@),
            !.opt = [f \in FieldsOf(e.kind) |->
                       CASE f \in Unsupported \/ PortAlone(e, f) -> None
                         [] \E p \in Pairs(e.kind) : f = p[2] ->
                              LET pid == e.opt[(CHOOSE p \in Pairs(e.kind) : f = p[2])[1]]
                              IN IF pid = None \/ e.opt[f] = None THEN pid ELSE e.opt[f]
                         [] OTHER -> e.opt[f]]]
====
