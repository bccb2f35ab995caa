------------------------------ MODULE NapProofs ------------------------------
(***************************************************************************)
(* Proofs about the NAP sequence state, for any number of processes and    *)
(* any number of faults.                                                   *)
(***************************************************************************)
EXTENDS NapSequence, TLAPS

Writing == {"repair0", "repair1", "first", "second", "mirror", "in_place"}

\* Only the holder of the lock is at work, and what it is about to write is in
\* range.
HolderInv ==
  \A p \in Processes :
    /\ stage[p] # "idle" => lock = p
    /\ opened[p] => stage[p] \notin {"idle", "sending"}
    /\ stage[p] \in {"second", "mirror", "in_place", "sending"} => current[p] < MaxSequence
    /\ stage[p] = "first" /\ opened[p] => current[p] < MaxSequence
    /\ stage[p] \in Writing => allocations < MaxAllocations

s0 == files["sequence.0"]
s1 == files["sequence.1"]

\* What the slots hold at each stage of an allocation or of the enrolment.
SlotsAt(p) ==
  /\ stage[p] \notin {"in_place", "sending"}
  /\ stage[p] \in Writing => current[p] >= issued
  /\ stage[p] \in {"init0", "init1", "init_legacy"} => allocations = 0 /\ issued = 0
  /\ stage[p] = "repair0" => ~Valid(s0) /\ (allocations > 0 => Valid(s1))
  /\ stage[p] = "repair0" /\ Valid(s1) => s1 <= current[p]
  /\ stage[p] = "repair1" => ~Valid(s1) /\ Valid(s0) /\ s0 <= current[p]
  /\ stage[p] = "first" /\ ~opened[p] =>
       /\ Valid(s0) /\ Valid(s1) /\ s0 <= current[p] /\ s1 <= current[p]
  /\ stage[p] = "first" /\ opened[p] =>
       \/ s0 = Torn /\ Valid(s1) /\ s1 <= current[p]
       \/ s1 = Torn /\ Valid(s0) /\ s0 <= current[p]
  /\ stage[p] = "second" =>
       \/ s0 = current[p] + 1 /\ s1 <= current[p] /\ (~opened[p] => Valid(s1))
       \/ s1 = current[p] + 1 /\ s0 <= current[p] /\ (~opened[p] => Valid(s0))
  /\ stage[p] = "mirror" => s0 = current[p] + 1 /\ s1 = current[p] + 1

\* No slot that can be read is below a sequence that was handed out, and once one
\* was handed out one can be read; before that, the legacy file speaks.
SlotsInv ==
  /\ Valid(s0) => s0 >= issued
  /\ Valid(s1) => s1 >= issued
  /\ allocations > 0 => Valid(s0) \/ Valid(s1)
  /\ allocations = 0 /\ Valid(files[Legacy]) => files[Legacy] >= issued
  /\ allocations = 0 /\ files[Legacy] = Missing => issued = 0
  /\ \A p \in Processes : SlotsAt(p)

IInv == TypeOK /\ HolderInv /\ LeaseKeepsOrder /\ (platform = "windows" => SlotsInv)

\* The initial states satisfy the invariant.
LEMMA NapInit == Init => IInv
BY SequenceAssumption
   DEF Init, IInv, TypeOK, HolderInv, LeaseKeepsOrder, SlotsInv, SlotsAt, Valid, Missing, Torn,
       Files, Slots, Legacy, Stages, Nobody, Writing, s0, s1

\* Nobody is at work when the lock is free.
LEMMA FreeLock ==
  ASSUME IInv, lock = Nobody, NEW p \in Processes
  PROVE  stage[p] = "idle" /\ ~opened[p]
BY SequenceAssumption DEF IInv, TypeOK, HolderInv, Nobody

\* Enrolment starts.
LEMMA InitializeKeeps ==
  ASSUME IInv, NEW p \in Processes, Initialize(p)
  PROVE  IInv'
<1> USE SequenceAssumption DEF IInv, Nobody
<1>1. TypeOK'
  BY SMTT(30), FreeLock DEF TypeOK, HolderInv, Writing, Stages, Files, Slots, Legacy, Torn, Missing, Goto, Initialize
<1>2. HolderInv'
  BY SMTT(30), FreeLock DEF TypeOK, HolderInv, LeaseKeepsOrder, SlotsInv, SlotsAt, Valid, Missing, Torn, Files, Slots,
         Legacy, Stages, Writing, s0, s1, Goto, Initialize
<1>3. LeaseKeepsOrder'
  BY SMTT(30), FreeLock DEF TypeOK, HolderInv, LeaseKeepsOrder, SlotsInv, SlotsAt, Valid, Missing, Torn, Files, Slots,
         Legacy, Stages, Writing, s0, s1, Goto, Initialize
<1>4. platform' = "windows" => SlotsInv'
  BY FreeLock DEF TypeOK, HolderInv, LeaseKeepsOrder, SlotsInv, SlotsAt, Valid, Missing, Torn, Files, Slots,
         Legacy, Stages, Writing, s0, s1, Goto, Initialize
<1> QED BY <1>1, <1>2, <1>3, <1>4

\* Enrolment writes a slot.
LEMMA InitSlot0Keeps ==
  ASSUME IInv, NEW p \in Processes, InitSlot0(p)
  PROVE  IInv'
<1> USE SequenceAssumption DEF IInv, Nobody
<1>1. TypeOK'
  <2>1. files' \in [Files -> {Missing, Torn} \cup 0..MaxSequence]
    BY DEF TypeOK, HolderInv, Files, Slots, Legacy, Torn, Missing, Goto, InitSlot0, WriteSlot, Open, Fill
  <2>2. stage' \in [Processes -> Stages] /\ opened' \in [Processes -> BOOLEAN]
    BY ZenonT(30) DEF TypeOK, Stages, Goto, InitSlot0, WriteSlot, Open, Fill
  <2>3. /\ platform' \in Platforms
        /\ lock' \in Processes \cup {Nobody}
        /\ current' \in [Processes -> 0..MaxSequence]
        /\ issued' \in 0..MaxSequence
        /\ allocations' \in 0..MaxAllocations
        /\ faults' \in 0..MaxFaults[platform']
    BY DEF TypeOK, HolderInv, Writing, Goto, InitSlot0, WriteSlot, Open, Fill
  <2> QED BY <2>1, <2>2, <2>3 DEF TypeOK
<1>2. HolderInv'
  BY DEF TypeOK, HolderInv, LeaseKeepsOrder, SlotsInv, SlotsAt, Valid, Missing, Torn, Files, Slots,
         Legacy, Stages, Writing, s0, s1, Goto, InitSlot0, WriteSlot, Open, Fill
<1>3. LeaseKeepsOrder'
  BY DEF TypeOK, HolderInv, LeaseKeepsOrder, SlotsInv, SlotsAt, Valid, Missing, Torn, Files, Slots,
         Legacy, Stages, Writing, s0, s1, Goto, InitSlot0, WriteSlot, Open, Fill
<1>4. platform' = "windows" => SlotsInv'
  BY DEF TypeOK, HolderInv, LeaseKeepsOrder, SlotsInv, SlotsAt, Valid, Missing, Torn, Files, Slots,
         Legacy, Stages, Writing, s0, s1, Goto, InitSlot0, WriteSlot, Open, Fill
<1> QED BY <1>1, <1>2, <1>3, <1>4

\* Enrolment writes a slot.
LEMMA InitSlot1Keeps ==
  ASSUME IInv, NEW p \in Processes, InitSlot1(p)
  PROVE  IInv'
<1> USE SequenceAssumption DEF IInv, Nobody
<1>1. TypeOK'
  <2>1. files' \in [Files -> {Missing, Torn} \cup 0..MaxSequence]
    BY DEF TypeOK, HolderInv, Files, Slots, Legacy, Torn, Missing, Goto, InitSlot1, WriteSlot, Open, Fill
  <2>2. stage' \in [Processes -> Stages] /\ opened' \in [Processes -> BOOLEAN]
    BY DEF TypeOK, Stages, Goto, InitSlot1, WriteSlot, Open, Fill
  <2>3. /\ platform' \in Platforms
        /\ lock' \in Processes \cup {Nobody}
        /\ current' \in [Processes -> 0..MaxSequence]
        /\ issued' \in 0..MaxSequence
        /\ allocations' \in 0..MaxAllocations
        /\ faults' \in 0..MaxFaults[platform']
    BY DEF TypeOK, HolderInv, Writing, Goto, InitSlot1, WriteSlot, Open, Fill
  <2> QED BY <2>1, <2>2, <2>3 DEF TypeOK
<1>2. HolderInv'
  BY DEF TypeOK, HolderInv, LeaseKeepsOrder, SlotsInv, SlotsAt, Valid, Missing, Torn, Files, Slots,
         Legacy, Stages, Writing, s0, s1, Goto, InitSlot1, WriteSlot, Open, Fill
<1>3. LeaseKeepsOrder'
  BY DEF TypeOK, HolderInv, LeaseKeepsOrder, SlotsInv, SlotsAt, Valid, Missing, Torn, Files, Slots,
         Legacy, Stages, Writing, s0, s1, Goto, InitSlot1, WriteSlot, Open, Fill
<1>4. platform' = "windows" => SlotsInv'
  BY DEF TypeOK, HolderInv, LeaseKeepsOrder, SlotsInv, SlotsAt, Valid, Missing, Torn, Files, Slots,
         Legacy, Stages, Writing, s0, s1, Goto, InitSlot1, WriteSlot, Open, Fill
<1> QED BY <1>1, <1>2, <1>3, <1>4

\* Enrolment writes the legacy file.
LEMMA InitLegacyKeeps ==
  ASSUME IInv, NEW p \in Processes, InitLegacy(p)
  PROVE  IInv'
<1> USE SequenceAssumption DEF IInv, Nobody
<1>1. TypeOK'
  <2>1. files' \in [Files -> {Missing, Torn} \cup 0..MaxSequence]
    BY DEF TypeOK, HolderInv, Files, Slots, Legacy, Torn, Missing, Goto, InitLegacy, Open, Fill
  <2>2. stage' \in [Processes -> Stages] /\ opened' \in [Processes -> BOOLEAN]
    BY ZenonT(30) DEF TypeOK, Stages, Goto, InitLegacy, Open, Fill
  <2>3. /\ platform' \in Platforms
        /\ lock' \in Processes \cup {Nobody}
        /\ current' \in [Processes -> 0..MaxSequence]
        /\ issued' \in 0..MaxSequence
        /\ allocations' \in 0..MaxAllocations
        /\ faults' \in 0..MaxFaults[platform']
    BY DEF TypeOK, HolderInv, Writing, Goto, InitLegacy, Open, Fill
  <2> QED BY <2>1, <2>2, <2>3 DEF TypeOK
<1>2. HolderInv'
  BY DEF TypeOK, HolderInv, LeaseKeepsOrder, SlotsInv, SlotsAt, Valid, Missing, Torn, Files, Slots,
         Legacy, Stages, Writing, s0, s1, Goto, InitLegacy, Open, Fill
<1>3. LeaseKeepsOrder'
  BY DEF TypeOK, HolderInv, LeaseKeepsOrder, SlotsInv, SlotsAt, Valid, Missing, Torn, Files, Slots,
         Legacy, Stages, Writing, s0, s1, Goto, InitLegacy, Open, Fill
<1>4. platform' = "windows" => SlotsInv'
  BY DEF TypeOK, HolderInv, LeaseKeepsOrder, SlotsInv, SlotsAt, Valid, Missing, Torn, Files, Slots,
         Legacy, Stages, Writing, s0, s1, Goto, InitLegacy, Open, Fill
<1> QED BY <1>1, <1>2, <1>3, <1>4

\* An allocation reads the slots.
LEMMA BeginKeeps ==
  ASSUME IInv, NEW p \in Processes, Begin(p)
  PROVE  IInv'
<1> USE SequenceAssumption DEF IInv, Nobody
<1>1. TypeOK'
  <2>1. Current(files) \in 0..MaxSequence
    BY DEF TypeOK, Begin, Current, Valid, Files, Slots, Legacy, Torn, Missing
  <2> QED BY <2>1 DEF TypeOK, Stages, Goto, Begin, CanLock
<1>2. HolderInv'
  BY FreeLock DEF TypeOK, HolderInv, LeaseKeepsOrder, SlotsInv, SlotsAt, Valid, Missing, Torn, Files, Slots,
         Legacy, Stages, Writing, s0, s1, Goto, Begin, CanLock, Current
<1>3. LeaseKeepsOrder'
  BY FreeLock DEF TypeOK, HolderInv, LeaseKeepsOrder, SlotsInv, SlotsAt, Valid, Missing, Torn, Files, Slots,
         Legacy, Stages, Writing, s0, s1, Goto, Begin, CanLock, Current
<1>4. platform' = "windows" => SlotsInv'
  BY SMTT(40), FreeLock DEF TypeOK, HolderInv, LeaseKeepsOrder, SlotsInv, SlotsAt, Valid, Missing, Torn, Files, Slots,
         Legacy, Stages, Writing, s0, s1, Goto, Begin, CanLock, Current
<1> QED BY <1>1, <1>2, <1>3, <1>4

\* A slot is repaired.
LEMMA Repair0Keeps ==
  ASSUME IInv, NEW p \in Processes, Repair0(p)
  PROVE  IInv'
<1> USE SequenceAssumption DEF IInv, Nobody
<1>1. TypeOK'
  <2>1. files' \in [Files -> {Missing, Torn} \cup 0..MaxSequence]
    BY DEF TypeOK, HolderInv, Files, Slots, Legacy, Torn, Missing, Goto, Repair0, WriteSlot, Open, Fill
  <2>2. stage' \in [Processes -> Stages] /\ opened' \in [Processes -> BOOLEAN]
    BY ZenonT(30) DEF TypeOK, Stages, Goto, Repair0, WriteSlot, Open, Fill
  <2>3. /\ platform' \in Platforms
        /\ lock' \in Processes \cup {Nobody}
        /\ current' \in [Processes -> 0..MaxSequence]
        /\ issued' \in 0..MaxSequence
        /\ allocations' \in 0..MaxAllocations
        /\ faults' \in 0..MaxFaults[platform']
    BY DEF TypeOK, HolderInv, Writing, Goto, Repair0, WriteSlot, Open, Fill
  <2> QED BY <2>1, <2>2, <2>3 DEF TypeOK
<1>2. HolderInv'
  BY DEF TypeOK, HolderInv, LeaseKeepsOrder, SlotsInv, SlotsAt, Valid, Missing, Torn, Files, Slots,
         Legacy, Stages, Writing, s0, s1, Goto, Repair0, WriteSlot, Open, Fill
<1>3. LeaseKeepsOrder'
  BY DEF TypeOK, HolderInv, LeaseKeepsOrder, SlotsInv, SlotsAt, Valid, Missing, Torn, Files, Slots,
         Legacy, Stages, Writing, s0, s1, Goto, Repair0, WriteSlot, Open, Fill
<1>4. ASSUME platform = "windows" PROVE SlotsInv'
  <2>1. \A q \in Processes : q # p => stage[q] = "idle" /\ stage'[q] = "idle"
    BY DEF TypeOK, HolderInv, Repair0, WriteSlot, Open, Fill, Goto
  <2>2. SlotsAt(p)'
    BY <1>4 DEF TypeOK, SlotsInv, SlotsAt, Valid, Missing, Torn, Files, Slots, Legacy, Stages, Writing, s0, s1,
         HolderInv, Repair0, WriteSlot, Open, Fill, Goto
  <2>3. \A q \in Processes : q # p => SlotsAt(q)'
    BY <2>1 DEF SlotsAt, Writing
  <2>4. /\ Valid(s0') => s0' >= issued'
        /\ Valid(s1') => s1' >= issued'
        /\ allocations' > 0 => Valid(s0') \/ Valid(s1')
        /\ allocations' = 0 /\ Valid(files'[Legacy]) => files'[Legacy] >= issued'
        /\ allocations' = 0 /\ files'[Legacy] = Missing => issued' = 0
    BY <1>4 DEF TypeOK, SlotsInv, SlotsAt, Valid, Missing, Torn, Files, Slots, Legacy, Stages, Writing, s0, s1,
         HolderInv, Repair0, WriteSlot, Open, Fill, Goto
  <2> QED BY <2>2, <2>3, <2>4 DEF SlotsInv, Valid, s0, s1
<1>5. platform' = platform
  BY DEF Repair0, WriteSlot, Open, Fill
<1> QED BY SMTT(30), <1>1, <1>2, <1>3, <1>4, <1>5

\* A slot is repaired.
LEMMA Repair1Keeps ==
  ASSUME IInv, NEW p \in Processes, Repair1(p)
  PROVE  IInv'
<1> USE SequenceAssumption DEF IInv, Nobody
<1>1. TypeOK'
  <2>1. files' \in [Files -> {Missing, Torn} \cup 0..MaxSequence]
    BY DEF TypeOK, HolderInv, Files, Slots, Legacy, Torn, Missing, Goto, Repair1, WriteSlot, Open, Fill
  <2>2. stage' \in [Processes -> Stages] /\ opened' \in [Processes -> BOOLEAN]
    BY ZenonT(30) DEF TypeOK, Stages, Goto, Repair1, WriteSlot, Open, Fill
  <2>3. /\ platform' \in Platforms
        /\ lock' \in Processes \cup {Nobody}
        /\ current' \in [Processes -> 0..MaxSequence]
        /\ issued' \in 0..MaxSequence
        /\ allocations' \in 0..MaxAllocations
        /\ faults' \in 0..MaxFaults[platform']
    BY DEF TypeOK, HolderInv, Writing, Goto, Repair1, WriteSlot, Open, Fill
  <2> QED BY <2>1, <2>2, <2>3 DEF TypeOK
<1>2. HolderInv'
  BY DEF TypeOK, HolderInv, LeaseKeepsOrder, SlotsInv, SlotsAt, Valid, Missing, Torn, Files, Slots,
         Legacy, Stages, Writing, s0, s1, Goto, Repair1, WriteSlot, Open, Fill
<1>3. LeaseKeepsOrder'
  BY DEF TypeOK, HolderInv, LeaseKeepsOrder, SlotsInv, SlotsAt, Valid, Missing, Torn, Files, Slots,
         Legacy, Stages, Writing, s0, s1, Goto, Repair1, WriteSlot, Open, Fill
<1>4. ASSUME platform = "windows" PROVE SlotsInv'
  <2>1. \A q \in Processes : q # p => stage[q] = "idle" /\ stage'[q] = "idle"
    BY DEF TypeOK, HolderInv, Repair1, WriteSlot, Open, Fill, Goto
  <2>2. SlotsAt(p)'
    BY <1>4 DEF TypeOK, SlotsInv, SlotsAt, Valid, Missing, Torn, Files, Slots, Legacy, Stages, Writing, s0, s1,
         HolderInv, Repair1, WriteSlot, Open, Fill, Goto
  <2>3. \A q \in Processes : q # p => SlotsAt(q)'
    BY <2>1 DEF SlotsAt, Writing
  <2>4. /\ Valid(s0') => s0' >= issued'
        /\ Valid(s1') => s1' >= issued'
        /\ allocations' > 0 => Valid(s0') \/ Valid(s1')
        /\ allocations' = 0 /\ Valid(files'[Legacy]) => files'[Legacy] >= issued'
        /\ allocations' = 0 /\ files'[Legacy] = Missing => issued' = 0
    BY <1>4 DEF TypeOK, SlotsInv, SlotsAt, Valid, Missing, Torn, Files, Slots, Legacy, Stages, Writing, s0, s1,
         HolderInv, Repair1, WriteSlot, Open, Fill, Goto
  <2> QED BY <2>2, <2>3, <2>4 DEF SlotsInv, Valid, s0, s1
<1>5. platform' = platform
  BY DEF Repair1, WriteSlot, Open, Fill
<1> QED BY SMTT(60), <1>1, <1>2, <1>3, <1>4, <1>5

\* An allocation finds the numbers exhausted.
LEMMA ExhaustedKeeps ==
  ASSUME IInv, NEW p \in Processes, Exhausted(p)
  PROVE  IInv'
<1> USE SequenceAssumption DEF IInv, Nobody
<1>1. TypeOK'
  BY SMTT(30) DEF TypeOK, HolderInv, Writing, Stages, Files, Slots, Legacy, Torn, Missing, Goto, Exhausted
<1>2. HolderInv'
  BY SMTT(30) DEF TypeOK, HolderInv, LeaseKeepsOrder, SlotsInv, SlotsAt, Valid, Missing, Torn, Files, Slots,
         Legacy, Stages, Writing, s0, s1, Goto, Exhausted
<1>3. LeaseKeepsOrder'
  BY SMTT(30) DEF TypeOK, HolderInv, LeaseKeepsOrder, SlotsInv, SlotsAt, Valid, Missing, Torn, Files, Slots,
         Legacy, Stages, Writing, s0, s1, Goto, Exhausted
<1>4. platform' = "windows" => SlotsInv'
  BY SMTT(30) DEF TypeOK, HolderInv, LeaseKeepsOrder, SlotsInv, SlotsAt, Valid, Missing, Torn, Files, Slots,
         Legacy, Stages, Writing, s0, s1, Goto, Exhausted
<1> QED BY <1>1, <1>2, <1>3, <1>4

\* A slot advances.
LEMMA WriteFirstKeeps ==
  ASSUME IInv, NEW p \in Processes, WriteFirst(p)
  PROVE  IInv'
<1> USE SequenceAssumption DEF IInv, Nobody
<1>1. TypeOK'
  <2>1. files' \in [Files -> {Missing, Torn} \cup 0..MaxSequence]
    BY DEF TypeOK, HolderInv, Files, Slots, Legacy, Torn, Missing, Goto, WriteFirst, FirstSlot, WriteSlot, Open, Fill
  <2>2. stage' \in [Processes -> Stages] /\ opened' \in [Processes -> BOOLEAN]
    BY ZenonT(30) DEF TypeOK, Stages, Goto, WriteFirst, FirstSlot, WriteSlot, Open, Fill
  <2>3. /\ platform' \in Platforms
        /\ lock' \in Processes \cup {Nobody}
        /\ current' \in [Processes -> 0..MaxSequence]
        /\ issued' \in 0..MaxSequence
        /\ allocations' \in 0..MaxAllocations
        /\ faults' \in 0..MaxFaults[platform']
    BY DEF TypeOK, HolderInv, Writing, Goto, WriteFirst, FirstSlot, WriteSlot, Open, Fill
  <2> QED BY <2>1, <2>2, <2>3 DEF TypeOK
<1>2. HolderInv'
  BY SMTT(30) DEF TypeOK, HolderInv, LeaseKeepsOrder, SlotsInv, SlotsAt, Valid, Missing, Torn, Files, Slots,
         Legacy, Stages, Writing, s0, s1, Goto, WriteFirst, FirstSlot, WriteSlot, Open, Fill
<1>3. LeaseKeepsOrder'
  BY SMTT(30) DEF TypeOK, HolderInv, LeaseKeepsOrder, SlotsInv, SlotsAt, Valid, Missing, Torn, Files, Slots,
         Legacy, Stages, Writing, s0, s1, Goto, WriteFirst, FirstSlot, WriteSlot, Open, Fill
<1>4. ASSUME platform = "windows" PROVE SlotsInv'
  <2>1. \A q \in Processes : q # p => stage[q] = "idle" /\ stage'[q] = "idle"
    BY SMTT(30) DEF TypeOK, HolderInv, WriteFirst, FirstSlot, WriteSlot, Open, Fill, Goto
  <2>2. SlotsAt(p)'
    BY SMTT(30), <1>4 DEF TypeOK, SlotsInv, SlotsAt, Valid, Missing, Torn, Files, Slots, Legacy, Stages, Writing, s0, s1,
         HolderInv, WriteFirst, FirstSlot, WriteSlot, Open, Fill, Goto
  <2>3. \A q \in Processes : q # p => SlotsAt(q)'
    BY <2>1 DEF SlotsAt, Writing
  <2>4. /\ Valid(s0') => s0' >= issued'
        /\ Valid(s1') => s1' >= issued'
        /\ allocations' > 0 => Valid(s0') \/ Valid(s1')
        /\ allocations' = 0 /\ Valid(files'[Legacy]) => files'[Legacy] >= issued'
        /\ allocations' = 0 /\ files'[Legacy] = Missing => issued' = 0
    BY <1>4 DEF TypeOK, SlotsInv, SlotsAt, Valid, Missing, Torn, Files, Slots, Legacy, Stages, Writing, s0, s1,
         HolderInv, WriteFirst, FirstSlot, WriteSlot, Open, Fill, Goto
  <2> QED BY <2>2, <2>3, <2>4 DEF SlotsInv, Valid, s0, s1
<1>5. platform' = platform
  BY DEF WriteFirst, FirstSlot, WriteSlot, Open, Fill
<1> QED BY SMTT(60), <1>1, <1>2, <1>3, <1>4, <1>5

\* A slot advances.
LEMMA WriteSecondKeeps ==
  ASSUME IInv, NEW p \in Processes, WriteSecond(p)
  PROVE  IInv'
<1> USE SequenceAssumption DEF IInv, Nobody
<1>1. TypeOK'
  <2>1. files' \in [Files -> {Missing, Torn} \cup 0..MaxSequence]
    BY DEF TypeOK, HolderInv, Files, Slots, Legacy, Torn, Missing, Goto, WriteSecond, FirstSlot, WriteSlot, Open, Fill
  <2>2. stage' \in [Processes -> Stages] /\ opened' \in [Processes -> BOOLEAN]
    BY ZenonT(30) DEF TypeOK, Stages, Goto, WriteSecond, FirstSlot, WriteSlot, Open, Fill
  <2>3. /\ platform' \in Platforms
        /\ lock' \in Processes \cup {Nobody}
        /\ current' \in [Processes -> 0..MaxSequence]
        /\ issued' \in 0..MaxSequence
        /\ allocations' \in 0..MaxAllocations
        /\ faults' \in 0..MaxFaults[platform']
    BY SMTT(30) DEF TypeOK, HolderInv, Writing, Goto, WriteSecond, FirstSlot, WriteSlot, Open, Fill
  <2> QED BY <2>1, <2>2, <2>3 DEF TypeOK
<1>2. HolderInv'
  BY SMTT(30) DEF TypeOK, HolderInv, LeaseKeepsOrder, SlotsInv, SlotsAt, Valid, Missing, Torn, Files, Slots,
         Legacy, Stages, Writing, s0, s1, Goto, WriteSecond, FirstSlot, WriteSlot, Open, Fill
<1>3. LeaseKeepsOrder'
  BY DEF TypeOK, HolderInv, LeaseKeepsOrder, SlotsInv, SlotsAt, Valid, Missing, Torn, Files, Slots,
         Legacy, Stages, Writing, s0, s1, Goto, WriteSecond, FirstSlot, WriteSlot, Open, Fill
<1>4. ASSUME platform = "windows" PROVE SlotsInv'
  <2>1. \A q \in Processes : q # p => stage[q] = "idle" /\ stage'[q] = "idle"
    BY SMTT(30) DEF TypeOK, HolderInv, WriteSecond, FirstSlot, WriteSlot, Open, Fill, Goto
  <2>2. SlotsAt(p)'
    BY SMTT(30), <1>4 DEF TypeOK, SlotsInv, SlotsAt, Valid, Missing, Torn, Files, Slots, Legacy, Stages, Writing, s0, s1,
         HolderInv, WriteSecond, FirstSlot, WriteSlot, Open, Fill, Goto
  <2>3. \A q \in Processes : q # p => SlotsAt(q)'
    BY <2>1 DEF SlotsAt, Writing
  <2>4. /\ Valid(s0') => s0' >= issued'
        /\ Valid(s1') => s1' >= issued'
        /\ allocations' > 0 => Valid(s0') \/ Valid(s1')
        /\ allocations' = 0 /\ Valid(files'[Legacy]) => files'[Legacy] >= issued'
        /\ allocations' = 0 /\ files'[Legacy] = Missing => issued' = 0
    BY SMTT(30), <1>4 DEF TypeOK, SlotsInv, SlotsAt, Valid, Missing, Torn, Files, Slots, Legacy, Stages, Writing, s0, s1,
         HolderInv, WriteSecond, FirstSlot, WriteSlot, Open, Fill, Goto
  <2> QED BY <2>2, <2>3, <2>4 DEF SlotsInv, Valid, s0, s1
<1>5. platform' = platform
  BY SMTT(30) DEF WriteSecond, FirstSlot, WriteSlot, Open, Fill
<1> QED BY SMTT(60), <1>1, <1>2, <1>3, <1>4, <1>5

\* The mirror is written, or not, and the sequence is handed out.
LEMMA WriteMirrorKeeps ==
  ASSUME IInv, NEW p \in Processes, WriteMirror(p)
  PROVE  IInv'
<1> USE SequenceAssumption DEF IInv, Nobody
<1>1. TypeOK'
  <2>1. files' \in [Files -> {Missing, Torn} \cup 0..MaxSequence]
    BY DEF TypeOK, HolderInv, Files, Slots, Legacy, Torn, Missing, Goto, WriteMirror, Return, Open, Fill
  <2>2. stage' \in [Processes -> Stages] /\ opened' \in [Processes -> BOOLEAN]
    BY ZenonT(30) DEF TypeOK, Stages, Goto, WriteMirror, Return, Open, Fill
  <2>3. /\ platform' \in Platforms
        /\ lock' \in Processes \cup {Nobody}
        /\ current' \in [Processes -> 0..MaxSequence]
        /\ issued' \in 0..MaxSequence
        /\ allocations' \in 0..MaxAllocations
        /\ faults' \in 0..MaxFaults[platform']
    BY SMTT(30) DEF TypeOK, HolderInv, Writing, Goto, WriteMirror, Return, Open, Fill
  <2> QED BY <2>1, <2>2, <2>3 DEF TypeOK
<1>2. HolderInv'
  BY SMTT(30) DEF TypeOK, HolderInv, LeaseKeepsOrder, SlotsInv, SlotsAt, Valid, Missing, Torn, Files, Slots,
         Legacy, Stages, Writing, s0, s1, Goto, WriteMirror, Return, Open, Fill
<1>3. LeaseKeepsOrder'
  BY SMTT(30) DEF TypeOK, HolderInv, LeaseKeepsOrder, SlotsInv, SlotsAt, Valid, Missing, Torn, Files, Slots,
         Legacy, Stages, Writing, s0, s1, Goto, WriteMirror, Return, Open, Fill
<1>4. ASSUME platform = "windows" PROVE SlotsInv'
  <2>1. \A q \in Processes : q # p => stage[q] = "idle" /\ stage'[q] = "idle"
    BY SMTT(30) DEF TypeOK, HolderInv, WriteMirror, Return, Open, Fill, Goto
  <2>2. SlotsAt(p)'
    BY SMTT(30), <1>4 DEF TypeOK, SlotsInv, SlotsAt, Valid, Missing, Torn, Files, Slots, Legacy, Stages, Writing, s0, s1,
         HolderInv, WriteMirror, Return, Open, Fill, Goto
  <2>3. \A q \in Processes : q # p => SlotsAt(q)'
    BY <2>1 DEF SlotsAt, Writing
  <2>4. /\ Valid(s0') => s0' >= issued'
        /\ Valid(s1') => s1' >= issued'
        /\ allocations' > 0 => Valid(s0') \/ Valid(s1')
        /\ allocations' = 0 /\ Valid(files'[Legacy]) => files'[Legacy] >= issued'
        /\ allocations' = 0 /\ files'[Legacy] = Missing => issued' = 0
    BY <1>4 DEF TypeOK, SlotsInv, SlotsAt, Valid, Missing, Torn, Files, Slots, Legacy, Stages, Writing, s0, s1,
         HolderInv, WriteMirror, Return, Open, Fill, Goto
  <2> QED BY <2>2, <2>3, <2>4 DEF SlotsInv, Valid, s0, s1
<1>5. platform' = platform
  BY SMTT(30) DEF WriteMirror, Return, Open, Fill
<1> QED BY SMTT(60), <1>1, <1>2, <1>3, <1>4, <1>5

\* An allocation on Linux starts.
LEMMA BeginInPlaceKeeps ==
  ASSUME IInv, NEW p \in Processes, BeginInPlace(p)
  PROVE  IInv'
<1> USE SequenceAssumption DEF IInv, Nobody
<1>1. TypeOK'
  <2>1. files' \in [Files -> {Missing, Torn} \cup 0..MaxSequence]
    BY FreeLock DEF TypeOK, HolderInv, Files, Slots, Legacy, Torn, Missing, Goto, BeginInPlace, CanLock
  <2>2. stage' \in [Processes -> Stages] /\ opened' \in [Processes -> BOOLEAN]
    BY FreeLock DEF TypeOK, Stages, Goto, BeginInPlace, CanLock
  <2>3. /\ platform' \in Platforms
        /\ lock' \in Processes \cup {Nobody}
        /\ current' \in [Processes -> 0..MaxSequence]
        /\ issued' \in 0..MaxSequence
        /\ allocations' \in 0..MaxAllocations
        /\ faults' \in 0..MaxFaults[platform']
    BY SMTT(30) DEF TypeOK, Valid, Files, Slots, Legacy, Torn, Missing, Goto, BeginInPlace, CanLock
  <2> QED BY <2>1, <2>2, <2>3 DEF TypeOK
<1>2. HolderInv'
  BY SMTT(30), FreeLock DEF TypeOK, HolderInv, LeaseKeepsOrder, SlotsInv, SlotsAt, Valid, Missing, Torn, Files, Slots,
         Legacy, Stages, Writing, s0, s1, Goto, BeginInPlace, CanLock
<1>3. LeaseKeepsOrder'
  BY SMTT(30), FreeLock DEF TypeOK, HolderInv, LeaseKeepsOrder, SlotsInv, SlotsAt, Valid, Missing, Torn, Files, Slots,
         Legacy, Stages, Writing, s0, s1, Goto, BeginInPlace, CanLock
<1>4. platform' = "windows" => SlotsInv'
  BY SMTT(30), FreeLock DEF TypeOK, HolderInv, LeaseKeepsOrder, SlotsInv, SlotsAt, Valid, Missing, Torn, Files, Slots,
         Legacy, Stages, Writing, s0, s1, Goto, BeginInPlace, CanLock
<1> QED BY <1>1, <1>2, <1>3, <1>4

\* The file is rewritten in place.
LEMMA WriteInPlaceKeeps ==
  ASSUME IInv, NEW p \in Processes, WriteInPlace(p)
  PROVE  IInv'
<1> USE SequenceAssumption DEF IInv, Nobody
<1>1. TypeOK'
  <2>1. files' \in [Files -> {Missing, Torn} \cup 0..MaxSequence]
    BY DEF TypeOK, HolderInv, Files, Slots, Legacy, Torn, Missing, Goto, WriteInPlace, Return, Open, Fill
  <2>2. stage' \in [Processes -> Stages] /\ opened' \in [Processes -> BOOLEAN]
    BY ZenonT(30) DEF TypeOK, Stages, Goto, WriteInPlace, Return, Open, Fill
  <2>3. /\ platform' \in Platforms
        /\ lock' \in Processes \cup {Nobody}
        /\ current' \in [Processes -> 0..MaxSequence]
        /\ issued' \in 0..MaxSequence
        /\ allocations' \in 0..MaxAllocations
        /\ faults' \in 0..MaxFaults[platform']
    BY DEF TypeOK, HolderInv, Writing, Goto, WriteInPlace, Return, Open, Fill
  <2> QED BY <2>1, <2>2, <2>3 DEF TypeOK
<1>2. HolderInv'
  BY DEF TypeOK, HolderInv, LeaseKeepsOrder, SlotsInv, SlotsAt, Valid, Missing, Torn, Files, Slots,
         Legacy, Stages, Writing, s0, s1, Goto, WriteInPlace, Return, Open, Fill
<1>3. LeaseKeepsOrder'
  BY DEF TypeOK, HolderInv, LeaseKeepsOrder, SlotsInv, SlotsAt, Valid, Missing, Torn, Files, Slots,
         Legacy, Stages, Writing, s0, s1, Goto, WriteInPlace, Return, Open, Fill
<1>4. platform' = "windows" => SlotsInv'
  BY DEF SlotsInv, SlotsAt, WriteInPlace
<1> QED BY <1>1, <1>2, <1>3, <1>4

\* A lease is taken.
LEMMA LeaseKeeps ==
  ASSUME IInv, NEW p \in Processes, Lease(p)
  PROVE  IInv'
<1> USE SequenceAssumption DEF IInv, Nobody
<1>1. TypeOK'
  <2>1. files' \in [Files -> {Missing, Torn} \cup 0..MaxSequence]
    BY SMTT(30), FreeLock DEF TypeOK, HolderInv, Files, Slots, Legacy, Torn, Missing, Goto, Lease, CanLock, KeepLock
  <2>2. stage' \in [Processes -> Stages] /\ opened' \in [Processes -> BOOLEAN]
    BY FreeLock DEF TypeOK, Stages, Goto, Lease, CanLock, KeepLock
  <2>3. /\ platform' \in Platforms
        /\ lock' \in Processes \cup {Nobody}
        /\ current' \in [Processes -> 0..MaxSequence]
        /\ issued' \in 0..MaxSequence
        /\ allocations' \in 0..MaxAllocations
        /\ faults' \in 0..MaxFaults[platform']
    BY SMTT(30) DEF TypeOK, Valid, Files, Slots, Legacy, Torn, Missing, Goto, Lease, CanLock, KeepLock
  <2> QED BY <2>1, <2>2, <2>3 DEF TypeOK
<1>2. HolderInv'
  BY SMTT(40), FreeLock DEF TypeOK, HolderInv, LeaseKeepsOrder, SlotsInv, SlotsAt, Valid, Missing, Torn, Files, Slots,
         Legacy, Stages, Writing, s0, s1, Goto, Lease, CanLock, KeepLock
<1>3. LeaseKeepsOrder'
  BY SMTT(40), FreeLock DEF TypeOK, HolderInv, LeaseKeepsOrder, SlotsInv, SlotsAt, Valid, Missing, Torn, Files, Slots,
         Legacy, Stages, Writing, s0, s1, Goto, Lease, CanLock, KeepLock
<1>4. platform' = "windows" => SlotsInv'
  BY SMTT(30), FreeLock DEF TypeOK, HolderInv, LeaseKeepsOrder, SlotsInv, SlotsAt, Valid, Missing, Torn, Files, Slots,
         Legacy, Stages, Writing, s0, s1, Goto, Lease, CanLock, KeepLock
<1> QED BY <1>1, <1>2, <1>3, <1>4

\* A lease ends.
LEMMA EndLeaseKeeps ==
  ASSUME IInv, NEW p \in Processes, EndLease(p)
  PROVE  IInv'
<1> USE SequenceAssumption DEF IInv, Nobody
<1>1. TypeOK'
  BY SMTT(30) DEF TypeOK, HolderInv, Writing, Stages, Files, Slots, Legacy, Torn, Missing, Goto, EndLease
<1>2. HolderInv'
  BY SMTT(30) DEF TypeOK, HolderInv, LeaseKeepsOrder, SlotsInv, SlotsAt, Valid, Missing, Torn, Files, Slots,
         Legacy, Stages, Writing, s0, s1, Goto, EndLease
<1>3. LeaseKeepsOrder'
  BY SMTT(30) DEF TypeOK, HolderInv, LeaseKeepsOrder, SlotsInv, SlotsAt, Valid, Missing, Torn, Files, Slots,
         Legacy, Stages, Writing, s0, s1, Goto, EndLease
<1>4. platform' = "windows" => SlotsInv'
  BY SMTT(30) DEF TypeOK, HolderInv, LeaseKeepsOrder, SlotsInv, SlotsAt, Valid, Missing, Torn, Files, Slots,
         Legacy, Stages, Writing, s0, s1, Goto, EndLease
<1> QED BY <1>1, <1>2, <1>3, <1>4

\* The updater allocates.
LEMMA UpdaterKeeps ==
  ASSUME IInv, NEW p \in Processes, UpdaterAllocates(p)
  PROVE  IInv'
<1> USE SequenceAssumption DEF IInv, Nobody
<1>1. TypeOK'
  BY SMTT(30), FreeLock DEF TypeOK, HolderInv, Writing, Stages, Files, Slots, Legacy, Torn, Missing, Goto, UpdaterAllocates, CanLock
<1>2. HolderInv'
  BY SMTT(30), FreeLock DEF TypeOK, HolderInv, LeaseKeepsOrder, SlotsInv, SlotsAt, Valid, Missing, Torn, Files, Slots,
         Legacy, Stages, Writing, s0, s1, Goto, UpdaterAllocates, CanLock
<1>3. LeaseKeepsOrder'
  BY SMTT(30), FreeLock DEF TypeOK, HolderInv, LeaseKeepsOrder, SlotsInv, SlotsAt, Valid, Missing, Torn, Files, Slots,
         Legacy, Stages, Writing, s0, s1, Goto, UpdaterAllocates, CanLock
<1>4. platform' = "windows" => SlotsInv'
  BY SMTT(30), FreeLock DEF TypeOK, HolderInv, LeaseKeepsOrder, SlotsInv, SlotsAt, Valid, Missing, Torn, Files, Slots,
         Legacy, Stages, Writing, s0, s1, Goto, UpdaterAllocates, CanLock
<1> QED BY <1>1, <1>2, <1>3, <1>4

\* A process dies or fails to write.
LEMMA InterruptedKeeps ==
  ASSUME IInv, NEW p \in Processes, Interrupted(p)
  PROVE  IInv'
<1> USE SequenceAssumption DEF IInv, Nobody
<1>1. TypeOK'
  BY SMTT(30) DEF TypeOK, HolderInv, Writing, Stages, Files, Slots, Legacy, Torn, Missing, Goto, Interrupted, Fault
<1>2. HolderInv'
  BY SMTT(30) DEF TypeOK, HolderInv, LeaseKeepsOrder, SlotsInv, SlotsAt, Valid, Missing, Torn, Files, Slots,
         Legacy, Stages, Writing, s0, s1, Goto, Interrupted, Fault
<1>3. LeaseKeepsOrder'
  BY SMTT(30) DEF TypeOK, HolderInv, LeaseKeepsOrder, SlotsInv, SlotsAt, Valid, Missing, Torn, Files, Slots,
         Legacy, Stages, Writing, s0, s1, Goto, Interrupted, Fault
<1>4. platform' = "windows" => SlotsInv'
  BY SMTT(40) DEF TypeOK, HolderInv, LeaseKeepsOrder, SlotsInv, SlotsAt, Valid, Missing, Torn, Files, Slots,
         Legacy, Stages, Writing, s0, s1, Goto, Interrupted, Fault
<1> QED BY <1>1, <1>2, <1>3, <1>4

\* A slot is damaged.
LEMMA DamageKeeps ==
  ASSUME IInv, NEW s \in Slots, SlotDamaged(s)
  PROVE  IInv'
<1> USE SequenceAssumption DEF IInv, Nobody
<1>1. TypeOK'
  BY DEF TypeOK, SlotDamaged, Fault, Files, Slots, Legacy, Torn, Missing
<1>2. HolderInv' /\ LeaseKeepsOrder'
  BY SMTT(30) DEF HolderInv, LeaseKeepsOrder, SlotDamaged, Fault
<1>3. platform' = "windows" => SlotsInv'
  BY SMTT(40), FreeLock DEF TypeOK, SlotsInv, SlotsAt, SlotDamaged, Fault, Valid, Files, Slots, Legacy,
                  Torn, Missing, Writing, s0, s1
<1> QED BY SMTT(30), <1>1, <1>2, <1>3

\* Every step keeps the invariant.
LEMMA NextKeeps == IInv /\ [Next]_vars => IInv'
<1> SUFFICES ASSUME IInv, [Next]_vars PROVE IInv'
  OBVIOUS
<1>1. CASE UNCHANGED vars
  BY SMTT(40), <1>1 DEF vars, IInv, TypeOK, HolderInv, LeaseKeepsOrder, SlotsInv, SlotsAt, Valid, s0, s1
<1>2. ASSUME NEW p \in Processes,
             Initialize(p) \/ Begin(p) \/ BeginInPlace(p) \/ Lease(p) \/ UpdaterAllocates(p)
      PROVE  IInv'
  BY <1>2, InitializeKeeps, BeginKeeps, BeginInPlaceKeeps, LeaseKeeps, UpdaterKeeps
<1>3. ASSUME NEW p \in Processes, Allocator(p) PROVE IInv'
  BY <1>3, InitSlot0Keeps, InitSlot1Keeps, InitLegacyKeeps, Repair0Keeps, Repair1Keeps,
     ExhaustedKeeps, WriteFirstKeeps, WriteSecondKeeps, WriteMirrorKeeps, WriteInPlaceKeeps,
     EndLeaseKeeps DEF Allocator
<1>4. ASSUME NEW p \in Processes, Interrupted(p) PROVE IInv'
  BY <1>4, InterruptedKeeps
<1>5. ASSUME NEW s \in Slots, SlotDamaged(s) PROVE IInv'
  BY <1>5, DamageKeeps
<1> QED BY <1>1, <1>2, <1>3, <1>4, <1>5 DEF Next, ReadOnly

\* The lock protocol and the slots stay consistent on every run, whatever dies
\* between two file writes.
THEOREM Invariance == Spec => []IInv
BY NapInit, NextKeeps, PTL DEF Spec

\* No number beyond the limit is ever written or handed out, and no process ever
\* acts on a value it did not read.
THEOREM TypeCorrect == Spec => []TypeOK
BY Invariance, PTL DEF IInv

\* Nothing is allocated while the holder of a SequenceSendLease sends.
THEOREM LeaseOrder == Spec => []LeaseKeepsOrder
BY Invariance, PTL DEF IInv

\* On Windows a durable slot holds a number that is not below any that was handed
\* out, whatever is interrupted and however often.
THEOREM SlotsSurvive == Platforms = {"windows"} => (Spec => []DurableCopy)
<1> SUFFICES ASSUME Platforms = {"windows"} PROVE Spec => []DurableCopy
  OBVIOUS
<1>1. IInv => DurableCopy
  BY SMTT(30) DEF IInv, TypeOK, SlotsInv, s0, s1, DurableCopy, Slots, Valid
<1> QED BY <1>1, Invariance, PTL

\* On Windows the health inspection agrees with the next allocation.
THEOREM Inspection == Platforms = {"windows"} => (Spec => []InspectionAgrees)
<1> SUFFICES ASSUME Platforms = {"windows"} PROVE Spec => []InspectionAgrees
  OBVIOUS
<1>1. IInv => InspectionAgrees
  BY SMTT(30) DEF IInv, TypeOK, SlotsInv, s0, s1, InspectionAgrees, Slots, Files, Legacy, Valid, Inspect,
         Current, Torn, Missing
<1> QED BY <1>1, Invariance, PTL

\* On Windows a step hands out a number above all earlier ones, or hands out none.
LEMMA StepAllocates ==
  ASSUME Platforms = {"windows"}, IInv, [Next]_vars
  PROVE  [Abstract!Allocate]_<<issued, allocations>>
<1> USE DEF IInv, Abstract!Allocate
<1>0. platform = "windows"
  BY DEF TypeOK
<1>1. CASE UNCHANGED vars
  BY SMTT(30), <1>1 DEF vars
<1>2. ASSUME NEW p \in Processes, WriteMirror(p) PROVE [Abstract!Allocate]_<<issued, allocations>>
  <2>1. current[p] \in Nat /\ issued \in Nat /\ allocations \in Nat
    BY SMTT(30), SequenceAssumption DEF TypeOK
  <2>2. issued <= current[p]
    BY SMTT(30), <1>0, <1>2, <2>1 DEF WriteMirror, SlotsInv, SlotsAt, Writing
  <2> QED BY SMTT(40), <1>2, <2>1, <2>2 DEF WriteMirror, Return, Open, Fill
<1>3. ASSUME NEW p \in Processes, WriteInPlace(p) \/ EndLease(p)
      PROVE  [Abstract!Allocate]_<<issued, allocations>>
  BY SMTT(30), <1>0, <1>3 DEF SlotsInv, SlotsAt, WriteInPlace, EndLease
<1>4. ASSUME NEW p \in Processes,
             \/ Initialize(p) \/ Begin(p) \/ InitSlot0(p) \/ InitSlot1(p) \/ InitLegacy(p)
             \/ Repair0(p) \/ Repair1(p) \/ Exhausted(p) \/ WriteFirst(p) \/ WriteSecond(p)
             \/ ReadOnly(p) \/ Interrupted(p)
      PROVE  [Abstract!Allocate]_<<issued, allocations>>
  BY <1>4 DEF Initialize, Begin, InitSlot0, InitSlot1, InitLegacy, Repair0, Repair1, Exhausted,
              WriteFirst, WriteSecond, ReadOnly, Interrupted, WriteSlot, Open, Fill, vars
<1>5. ASSUME NEW s \in Slots, SlotDamaged(s) PROVE [Abstract!Allocate]_<<issued, allocations>>
  BY SMTT(30), <1>5 DEF SlotDamaged
<1>6. ASSUME NEW p \in Processes, BeginInPlace(p) \/ Lease(p) \/ UpdaterAllocates(p)
      PROVE  FALSE
  BY <1>0, <1>6 DEF BeginInPlace, Lease, UpdaterAllocates
<1> QED BY <1>1, <1>2, <1>3, <1>4, <1>5, <1>6 DEF Next, Allocator

\* "Allocates and durably persists the next monotonic NAP/1 message sequence": on
\* Windows the slot files implement the abstract allocator, crashes included.
THEOREM WindowsRefines == Platforms = {"windows"} => (Spec => ImplementsSequenceAllocator)
<1> SUFFICES ASSUME Platforms = {"windows"} PROVE Spec => ImplementsSequenceAllocator
  OBVIOUS
<1>1. Init => Abstract!Init
  BY NapInit, SequenceAssumption DEF Init, IInv, TypeOK, Abstract!Init
<1>2. IInv /\ [Next]_vars => [Abstract!Allocate]_<<issued, allocations>>
  BY StepAllocates
<1> QED BY <1>1, <1>2, Invariance, PTL DEF Spec, ImplementsSequenceAllocator, Abstract!Spec

==============================================================================
