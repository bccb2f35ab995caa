----------------------------- MODULE NapSequence -----------------------------
(***************************************************************************)
(* The durable NAP/1 sequence state of one agent and everything that       *)
(* allocates from it (src/core/nap_sequence.cpp, SequenceSendLease in      *)
(* src/core/fleet_client.cpp, next_sequence in                             *)
(* src/core/upgrade_runtime.cpp), in several processes that may die or     *)
(* fail to write at any point.                                             *)
(*                                                                         *)
(* On Windows the state is two checksummed slot files and a legacy mirror, *)
(* and everybody allocates with next_nap_sequence.  On Linux it is the     *)
(* legacy file alone: the outbox dispatcher rewrites it in place           *)
(* (next_nap_sequence), heartbeats and hellos replace it and keep the lock *)
(* while they send (SequenceSendLease), and the updater replaces it        *)
(* (next_sequence).                                                        *)
(*                                                                         *)
(* A file is abstracted to what its parser makes of it: a number, Torn     *)
(* (truncated or partly written: parse_record and parse_decimal throw) or  *)
(* Missing.  Waiting for the lock and timing out on it change nothing and  *)
(* are not actions.                                                        *)
(***************************************************************************)
EXTENDS Integers, FiniteSets

CONSTANTS
  Platforms,       \* where the agent may run: a subset of {"windows", "linux"}
  Processes,
  MaxSequence,     \* numeric_limits<uint64_t>::max()
  MaxInitial,      \* model bound: sequences handed out before
  MaxAllocations,  \* model bound: sequences handed out; no Linux run gets to MaxSequence
  MaxFaults        \* model bound, by platform: crashes, failed writes, damaged slots

ASSUME SequenceAssumption ==
  /\ Platforms \subseteq {"windows", "linux"}
  /\ "nobody" \notin Processes
  /\ {MaxSequence, MaxInitial, MaxAllocations} \subseteq Nat /\ MaxInitial <= MaxSequence
  /\ MaxFaults \in [Platforms -> Nat]

VARIABLES
  platform,
  files,        \* contents of sequence.0, sequence.1 and sequence
  lock,         \* holder of sequence.lock
  stage,        \* what each process does next
  opened,       \* the file a process writes is truncated and not yet complete
  current,      \* the sequence a process allocates from
  issued, allocations,   \* the last sequence handed out, and how many
  faults

vars == <<platform, files, lock, stage, opened, current, issued, allocations, faults>>

Missing == -2
Torn == -1
Valid(content) == content >= 0

Slots == {"sequence.0", "sequence.1"}
Legacy == "sequence"
Files == Slots \cup {Legacy}
Nobody == "nobody"

Stages == {"idle", "init0", "init1", "init_legacy", "repair0", "repair1",
           "first", "second", "mirror", "in_place", "sending"}

TypeOK ==
  /\ platform \in Platforms
  /\ files \in [Files -> {Missing, Torn} \cup 0..MaxSequence]
  /\ lock \in Processes \cup {Nobody}
  /\ stage \in [Processes -> Stages]
  /\ opened \in [Processes -> BOOLEAN]
  /\ current \in [Processes -> 0..MaxSequence]
  /\ issued \in 0..MaxSequence
  /\ allocations \in 0..MaxAllocations
  /\ faults \in 0..MaxFaults[platform]

\* A state directory before enrolment, or one with the legacy file only: that is
\* what an older Windows agent left behind and what Linux agents use.
Init ==
  /\ platform \in Platforms
  /\ \E legacy \in {Missing} \cup 0..MaxInitial :
       /\ files = [f \in Files |-> IF f = Legacy THEN legacy ELSE Missing]
       /\ issued = IF Valid(legacy) THEN legacy ELSE 0
  /\ lock = Nobody
  /\ stage = [p \in Processes |-> "idle"]
  /\ opened = [p \in Processes |-> FALSE]
  /\ current = [p \in Processes |-> 0]
  /\ allocations = 0
  /\ faults = 0

-----------------------------------------------------------------------------
(* Writing files *)

Goto(p, s) == stage' = [stage EXCEPT ![p] = s]

\* durable_write_text and durable_write_legacy, first half: CREATE_ALWAYS or
\* O_TRUNC empties the file;
Open(p, f) ==
  /\ ~opened[p]
  /\ files' = [files EXCEPT ![f] = Torn]
  /\ opened' = [opened EXCEPT ![p] = TRUE]
  /\ UNCHANGED <<stage, lock, issued, allocations>>

\* second half: the contents are written, flushed and, by write_slot, verified.
Fill(p, f, value) ==
  /\ opened[p]
  /\ files' = [files EXCEPT ![f] = value]
  /\ opened' = [opened EXCEPT ![p] = FALSE]

WriteSlot(p, f, value, then) ==
  /\ \/ Open(p, f)
     \/ Fill(p, f, value) /\ Goto(p, then) /\ UNCHANGED <<lock, issued, allocations>>
  /\ UNCHANGED <<platform, current, faults>>

\* Mutant: the number found is handed out instead of the one after it.
Return_Current(p) ==
  /\ Goto(p, "idle")
  /\ lock' = Nobody
  /\ issued' = current[p]
  /\ allocations' = allocations + 1

\* The lock is released and the caller has its sequence.
Return(p) ==
  /\ Goto(p, "idle")
  /\ lock' = Nobody
  /\ issued' = current[p] + 1
  /\ allocations' = allocations + 1

-----------------------------------------------------------------------------
(* Windows *)

\* initialize_windows_sequence, called by the enrolment of a new identity.
Initialize(p) ==
  /\ platform = "windows" /\ stage[p] = "idle" /\ lock = Nobody
  /\ \A f \in Files : files[f] = Missing
  /\ lock' = p
  /\ Goto(p, "init0")
  /\ UNCHANGED <<platform, files, opened, current, issued, allocations, faults>>

InitSlot0(p) == stage[p] = "init0" /\ WriteSlot(p, "sequence.0", 0, "init1")
InitSlot1(p) == stage[p] = "init1" /\ WriteSlot(p, "sequence.1", 0, "init_legacy")
InitLegacy(p) ==
  /\ stage[p] = "init_legacy"
  /\ \/ Open(p, Legacy)
     \/ /\ Fill(p, Legacy, 0)
        /\ Goto(p, "idle") /\ lock' = Nobody
        /\ UNCHANGED <<issued, allocations>>
  /\ UNCHANGED <<platform, current, faults>>

\* What next_windows_sequence starts from; Torn when it throws because nothing can
\* be trusted.
Current(F) ==
  LET s0 == F["sequence.0"]
      s1 == F["sequence.1"]
  IN  IF Valid(s0) \/ Valid(s1) THEN IF s0 > s1 THEN s0 ELSE s1
      ELSE IF s0 = Torn \/ s1 = Torn THEN Torn
      ELSE IF Valid(F[Legacy]) THEN F[Legacy] ELSE Torn

\* SequenceLock; the lock is free again when its holder ends, however it ends.
CanLock(p) == stage[p] = "idle" /\ lock = Nobody

\* next_windows_sequence reads the slots and decides which of them to rewrite.
Begin(p) ==
  /\ platform = "windows"
  /\ allocations < MaxAllocations
  /\ CanLock(p) /\ lock' = p
  /\ Valid(Current(files))
  /\ current' = [current EXCEPT ![p] = Current(files)]
  /\ Goto(p, IF ~Valid(files["sequence.0"]) THEN "repair0"
             ELSE IF ~Valid(files["sequence.1"]) THEN "repair1" ELSE "first")
  /\ UNCHANGED <<platform, files, opened, issued, allocations, faults>>

\* Recovery and migration write the slots that are not valid, sequence.0 first.
Repair0(p) ==
  /\ stage[p] = "repair0"
  /\ WriteSlot(p, "sequence.0", current[p],
               IF Valid(files["sequence.1"]) THEN "first" ELSE "repair1")
Repair1(p) == stage[p] = "repair1" /\ WriteSlot(p, "sequence.1", current[p], "first")

Exhausted(p) ==
  /\ stage[p] = "first" /\ ~opened[p] /\ current[p] = MaxSequence
  /\ Goto(p, "idle") /\ lock' = Nobody
  /\ UNCHANGED <<platform, files, opened, current, issued, allocations, faults>>

\* first_path: the slot with the lower number.  It stays that while it is open,
\* and once it is written second_path is the one with the lower number.
FirstSlot ==
  IF files["sequence.0"] <= files["sequence.1"] THEN "sequence.0" ELSE "sequence.1"

WriteFirst(p) ==
  /\ stage[p] = "first" /\ current[p] < MaxSequence
  /\ WriteSlot(p, FirstSlot, current[p] + 1, "second")

\* Mutant: the number is handed out when one copy contains it.
WriteSecond_Skipped(p) ==
  /\ stage[p] = "second"
  /\ Goto(p, "mirror")
  /\ UNCHANGED <<platform, files, lock, opened, current, issued, allocations, faults>>

WriteSecond(p) ==
  /\ stage[p] = "second"
  /\ WriteSlot(p, FirstSlot, current[p] + 1, "mirror")

\* best_effort_write_legacy, then the return; a failed write is only logged.
WriteMirror(p) ==
  /\ stage[p] = "mirror"
  /\ \/ Open(p, Legacy) /\ UNCHANGED faults
     \/ Fill(p, Legacy, current[p] + 1) /\ Return(p) /\ UNCHANGED faults
     \/ /\ faults < MaxFaults[platform] /\ faults' = faults + 1
        /\ opened' = [opened EXCEPT ![p] = FALSE]
        /\ Return(p)
        /\ UNCHANGED files
  /\ UNCHANGED <<platform, current>>

-----------------------------------------------------------------------------
(* Linux *)

\* next_nap_sequence: a missing, empty or full file makes it throw.
BeginInPlace(p) ==
  /\ platform = "linux"
  /\ allocations < MaxAllocations
  /\ CanLock(p) /\ lock' = p
  /\ Valid(files[Legacy]) /\ files[Legacy] < MaxSequence
  /\ current' = [current EXCEPT ![p] = files[Legacy]]
  /\ Goto(p, "in_place")
  /\ UNCHANGED <<platform, files, opened, issued, allocations, faults>>

WriteInPlace(p) ==
  /\ stage[p] = "in_place"
  /\ \/ Open(p, Legacy)
     \/ Fill(p, Legacy, current[p] + 1) /\ Return(p)
  /\ UNCHANGED <<platform, current, faults>>

\* Mutant: the lock is released before the exchange.
KeepLock_Dropped(p) == lock' = Nobody
KeepLock(p) == lock' = p

\* SequenceSendLease: a missing or an empty file counts as zero; the new number
\* replaces the file in one rename.  The lock is kept for the exchange.
Lease(p) ==
  /\ platform = "linux"
  /\ allocations < MaxAllocations
  /\ CanLock(p) /\ KeepLock(p)
  /\ LET value == IF Valid(files[Legacy]) THEN files[Legacy] ELSE 0
     IN  /\ value < MaxSequence
         /\ current' = [current EXCEPT ![p] = value]
         /\ files' = [files EXCEPT ![Legacy] = value + 1]
         /\ issued' = value + 1
  /\ allocations' = allocations + 1
  /\ Goto(p, "sending")
  /\ UNCHANGED <<platform, opened, faults>>

\* The answer has come, or the exchange has failed: send_payload returns.
EndLease(p) ==
  /\ stage[p] = "sending"
  /\ Goto(p, "idle") /\ lock' = Nobody
  /\ UNCHANGED <<platform, files, opened, current, issued, allocations, faults>>

\* next_sequence of the updater: no look at the limit, and an empty file makes
\* stoull throw.
UpdaterAllocates(p) ==
  /\ platform = "linux"
  /\ allocations < MaxAllocations
  /\ CanLock(p)
  /\ files[Legacy] # Torn
  /\ LET value == IF files[Legacy] = Missing THEN 0 ELSE files[Legacy]
         result == (value + 1) % (MaxSequence + 1)
     IN  files' = [files EXCEPT ![Legacy] = result] /\ issued' = result
  /\ allocations' = allocations + 1
  /\ UNCHANGED <<platform, lock, stage, opened, current, faults>>

-----------------------------------------------------------------------------
(* Inspection *)

\* What inspect_nap_sequence_state reports as the sequence; Torn for Unrecoverable.
Inspect ==
  LET s0 == files["sequence.0"]
      s1 == files["sequence.1"]
  IN  IF platform = "linux" THEN IF Valid(files[Legacy]) THEN files[Legacy] ELSE Torn
      ELSE IF Valid(s0) /\ Valid(s1) THEN IF s0 > s1 THEN s0 ELSE s1
      ELSE IF Valid(s0) THEN s0
      ELSE IF Valid(s1) THEN s1
      ELSE IF s0 = Missing /\ s1 = Missing /\ Valid(files[Legacy]) THEN files[Legacy]
      ELSE Torn

\* It takes the lock, reads, and changes nothing; so does an allocation that throws
\* because it finds nothing to trust.
ReadOnly(p) == CanLock(p) /\ UNCHANGED vars

-----------------------------------------------------------------------------
(* Faults *)

Fault == faults < MaxFaults[platform] /\ faults' = faults + 1

\* The process dies, or a write fails and the exception unwinds: the file it was
\* writing stays as it is and the lock is released.
Interrupted(p) ==
  /\ stage[p] # "idle"
  /\ Fault
  /\ Goto(p, "idle") /\ lock' = Nobody
  /\ opened' = [opened EXCEPT ![p] = FALSE]
  /\ UNCHANGED <<platform, files, current, issued, allocations>>

\* Something else damages or removes one of two intact slots.
SlotDamaged(s) ==
  /\ lock = Nobody
  /\ \A slot \in Slots : Valid(files[slot])
  /\ Fault
  /\ \E content \in {Torn, Missing} : files' = [files EXCEPT ![s] = content]
  /\ UNCHANGED <<platform, lock, stage, opened, current, issued, allocations>>

Allocator(p) ==
  \/ InitSlot0(p) \/ InitSlot1(p) \/ InitLegacy(p)
  \/ Repair0(p) \/ Repair1(p) \/ Exhausted(p)
  \/ WriteFirst(p) \/ WriteSecond(p) \/ WriteMirror(p)
  \/ WriteInPlace(p) \/ EndLease(p)

Next ==
  \/ \E p \in Processes :
       \/ Initialize(p) \/ Begin(p) \/ BeginInPlace(p) \/ Lease(p) \/ UpdaterAllocates(p)
       \/ Allocator(p) \/ ReadOnly(p)
       \/ Interrupted(p)
  \/ \E s \in Slots : SlotDamaged(s)

Spec == Init /\ [][Next]_vars

-----------------------------------------------------------------------------
(* Properties *)

\* "rather than ever reusing a sent sequence": whatever is interrupted, a valid
\* slot holds a number that is not below any that was handed out
\* (next_windows_sequence rewrites one slot at a time, the lower one first).  On
\* Linux the file does, whenever the lock is free.
DurableCopy ==
  allocations > 0 =>
    \/ platform = "windows" /\ \E s \in Slots : files[s] >= issued
    \/ platform = "linux" /\ (lock # Nobody \/ files[Legacy] >= issued)

\* "two local reporters cannot allocate N and N+1, then deliver N+1 before N":
\* nothing is allocated while the holder of a SequenceSendLease sends.
LeaseKeepsOrder ==
  \A p \in Processes : stage[p] = "sending" => issued = current[p] + 1

\* The health inspection, which takes the same lock, tells what the next allocation
\* will do: it reports a sequence exactly when the allocation finds one to start
\* from, the same one, and not below anything handed out.
InspectionAgrees ==
  lock = Nobody =>
    /\ platform = "windows" => Inspect = Current(files)
    /\ Valid(Inspect) \/ allocations > 0 => Inspect >= issued

Abstract == INSTANCE SequenceAllocator WITH last <- issued, count <- allocations

\* "Allocates and durably persists the next monotonic NAP/1 message sequence":
\* every sequence handed out is above all earlier ones.
ImplementsSequenceAllocator == Abstract!Spec
==============================================================================
