-------------------------- MODULE BootSmokeProofs --------------------------
(***************************************************************************)
(* Theorems about BootSmoke for every tail size, timeout, poll interval    *)
(* and grace period, and for a guest that logs as much as it likes.        *)
(***************************************************************************)
EXTENDS BootSmoke, TLAPS

\* Once the poller has looked at its log directory only this call's QEMU
\* writes there; the finally clause is left only over a dead process or one
\* that was sent SIGKILL.  A marker the poller has read past without seeing it
\* was pushed out of the tail since its last look, and it takes no further look
\* once there is a result.
IInv ==
    /\ len \in Nat /\ mark \in Nat /\ seen \in Nat /\ skipped \in BOOLEAN
    /\ seen <= len /\ mark <= len
    /\ pc \in {"unlink", "spawn"} \cup Looping => result = "none"
    /\ (result \in {"none", "exited", "timeout"} /\ mark > 0) => (mark > seen \/ skipped)
    /\ pc # "unlink" => ~old
    /\ pc \in {"unlink", "spawn"} => guest = "none"
    /\ PassHasEvidence
    /\ pc = "killWait" => killed
    /\ NeverLeaked

\* The invariant holds before anything runs and every step keeps it.
THEOREM Invariance == Spec => []IInv
<1> USE DEF IInv, PassHasEvidence, NeverLeaked, poller, qemu
<1>1. Init => IInv
  <2>1. Init => /\ skipped \in BOOLEAN /\ (pc # "unlink" => ~old)
                /\ len = 0 /\ mark = 0 /\ seen = 0 /\ pc = "unlink"
                /\ result = "none" /\ guest = "none"
    BY DEF Init
  <2>2. QED
    BY <2>1
<1>2. IInv /\ [Next]_vars => IInv'
  <2> SUFFICES ASSUME IInv, [Next]_vars PROVE IInv'
    OBVIOUS
  <2>1. CASE Write
    <3>1. /\ len' = len + 1 /\ ~old' /\ (mark' = mark \/ mark' = len + 1)
          /\ guest = "running"
          /\ UNCHANGED <<pc, final, result, clock, seen, skipped, guest, killed>>
      BY <2>1 DEF Write
    <3>2. /\ mark' \in Nat /\ mark' <= len' /\ (mark > 0 => mark' > 0)
          /\ mark' = mark \/ mark' > seen
      BY <3>1
    <3>3. QED
      BY <3>1, <3>2
  <2>2. CASE Exit
    BY <2>2 DEF Exit
  <2>3. CASE UnlinkOldLog \/ Spawn \/ SpawnFails
    BY <2>3 DEF UnlinkOldLog, Spawn, SpawnFails, Looping
  <2>4. CASE ReadLog
    <3>1. CASE MarkerInTail
      BY <2>4, <3>1 DEF ReadLog, MarkerInTail, Leave, Looping
    <3>2. CASE ~MarkerInTail
      <4>1. mark > 0 => mark + Tail <= len
        BY <3>2, TimesAssumption DEF MarkerInTail
      <4>2. mark > seen => mark + Tail > seen + Tail
        BY TimesAssumption
      <4>3. mark > 0 => skipped \/ len > seen + Tail
        <5>1. pc = "read" /\ result = "none"
          BY <2>4 DEF ReadLog, Looping
        <5>2. QED
          BY <5>1, <4>1, <4>2, TimesAssumption
      <4>4. skipped' = (skipped \/ len > seen + Tail)
        BY <2>4 DEF ReadLog
      <4>5. (mark > 0 => skipped') /\ skipped' \in BOOLEAN
        BY <4>3, <4>4, Zenon
      <4>6. QED
        BY <2>4, <3>2, <4>5 DEF ReadLog, Looping
    <3>3. QED
      BY <3>1, <3>2
  <2>5. CASE PollProcess \/ CheckDeadline \/ Sleep
    BY <2>5 DEF PollProcess, CheckDeadline, Sleep, Leave, Looping
  <2>6. CASE Terminate
    BY <2>6 DEF Terminate, Returned, Looping
  <2>7. CASE GraceWait
    BY <2>7 DEF GraceWait, Wait, Returned, Looping
  <2>8. CASE Kill
    BY <2>8 DEF Kill, Looping
  <2>9. CASE KillWait
    BY <2>9 DEF KillWait, Wait, Returned, Looping
  <2>10. CASE Interrupt
    BY <2>10 DEF Interrupt, Leave, Looping, Ending
  <2>11. CASE UNCHANGED vars
    BY <2>11 DEF vars
  <2>12. QED
    BY <2>1, <2>2, <2>3, <2>4, <2>5, <2>6, <2>7, <2>8, <2>9, <2>10, <2>11
       DEF Next, Poller
<1>3. QED
  BY <1>1, <1>2, PTL DEF Spec

\* A pass always has a marker of this call's own boot behind it.
THEOREM PassIsEvidence == Spec => []PassHasEvidence
<1>1. IInv => PassHasEvidence
  BY DEF IInv
<1>2. QED
  BY <1>1, Invariance, PTL

\* On every way out of run_boot_smoke QEMU is dead or has been sent SIGKILL.
THEOREM NoLeak == Spec => []NeverLeaked
<1>1. IInv => NeverLeaked
  BY DEF IInv
<1>2. QED
  BY <1>1, Invariance, PTL

\* A boot that failed over a log with a marker in it is one whose marker came
\* after the last look, or was pushed out of the tail between two looks.
THEOREM MissedOnlyBetweenReads == Spec => []MarkerMissedOnlyBetweenReads
<1>1. IInv => MarkerMissedOnlyBetweenReads
  BY DEF IInv, MarkerMissedOnlyBetweenReads
<1>2. QED
  BY <1>1, Invariance, PTL

----------------------------------------------------------------------------
\* However QEMU and the signals behave, run_boot_smoke overruns its deadline by
\* less than one poll interval and the two grace periods each of its two calls
\* of _terminate can wait: it never sleeps once the deadline has passed.
EndsInTime == clock < Timeout + Poll + 4 * Grace

\* How much of that time is used up where.
Budget(graces) == clock < Timeout + Poll + graces * Grace

TimeInv ==
    /\ clock \in Nat /\ final \in BOOLEAN
    /\ pc \in {"unlink", "spawn", "done"} \cup Looping \cup Ending
    /\ pc \in {"unlink", "spawn"} => clock = 0
    /\ pc = "sleep" => clock < Timeout
    /\ pc \in Looping => Budget(0)
    /\ pc \in {"terminate", "graceWait"} => Budget(2) /\ (final = FALSE => Budget(0))
    /\ pc \in {"kill", "killWait"} => Budget(3) /\ (final = FALSE => Budget(1))
    /\ EndsInTime

\* A wait uses up one grace period at most.
LEMMA OneGrace ==
    ASSUME clock \in Nat, clock' \in clock..(clock + Grace)
    PROVE  /\ clock' \in Nat
           /\ Budget(0) => Budget(1)'
           /\ Budget(1) => Budget(2)'
           /\ Budget(2) => Budget(3)'
           /\ Budget(3) => EndsInTime'
BY TimesAssumption DEF Budget, EndsInTime

\* What is in budget is in a larger one.
LEMMA Budgets ==
    ASSUME clock \in Nat
    PROVE  /\ Budget(0) => Budget(1)
           /\ Budget(1) => Budget(2)
           /\ Budget(2) => Budget(3)
           /\ Budget(3) => EndsInTime
BY TimesAssumption DEF Budget, EndsInTime

\* The deadline is kept, whatever the guest and the interrupts do.
THEOREM DeadlineKept == Spec => []EndsInTime
<1> USE DEF TimeInv, Looping, Ending
<1>1. Init => TimeInv
  <2> SUFFICES ASSUME Init PROVE TimeInv
    OBVIOUS
  <2>1. clock = 0 /\ final = FALSE /\ pc = "unlink"
    BY DEF Init
  <2>2. Budget(0)
    BY <2>1, TimesAssumption DEF Budget
  <2>3. QED
    BY <2>1, <2>2, Budgets
<1>2. TimeInv /\ [Next]_vars => TimeInv'
  <2> SUFFICES ASSUME TimeInv, [Next]_vars PROVE TimeInv'
    OBVIOUS
  <2>1. CASE Sleep
    <3>1. clock < Timeout /\ clock' = clock + Poll /\ pc' = "read" /\ UNCHANGED final
      BY <2>1 DEF Sleep
    <3>2. clock' \in Nat /\ Budget(0)' /\ EndsInTime'
      BY <3>1, TimesAssumption DEF Budget, EndsInTime
    <3>3. QED
      BY <3>1, <3>2
  <2>2. CASE GraceWait \/ KillWait
    <3>1. clock' \in clock..(clock + Grace)
      BY <2>2, TimesAssumption DEF GraceWait, KillWait, Wait
    <3>2. QED
      BY <2>2, <3>1, OneGrace, Budgets DEF GraceWait, KillWait, Wait, Returned
  <2>3. CASE ~(Sleep \/ GraceWait \/ KillWait)
    <3> USE DEF poller, qemu
    <3>1. UNCHANGED clock
      BY <2>3 DEF Next, Poller, Write, Exit, Kill, UnlinkOldLog, Spawn, SpawnFails, ReadLog,
         PollProcess, CheckDeadline, Terminate, Interrupt, vars
    <3>2. /\ Budget(0)' <=> Budget(0)
          /\ Budget(1)' <=> Budget(1)
          /\ Budget(2)' <=> Budget(2)
          /\ Budget(3)' <=> Budget(3)
          /\ EndsInTime' <=> EndsInTime
      BY <3>1 DEF Budget, EndsInTime
    <3> USE <3>1, <3>2, Budgets
    <3>3. CASE Write \/ Exit \/ Kill
      BY <3>3 DEF Write, Exit, Kill
    <3>4. CASE UnlinkOldLog \/ Spawn \/ SpawnFails
      <4>1. clock = 0 => Budget(0)
        BY TimesAssumption DEF Budget
      <4>2. QED
        BY <3>4, <4>1 DEF UnlinkOldLog, Spawn, SpawnFails
    <3>5. CASE ReadLog \/ PollProcess
      BY <3>5 DEF ReadLog, PollProcess, Leave
    <3>6. CASE CheckDeadline
      <4>1. CASE clock >= Timeout
        BY <3>6, <4>1 DEF CheckDeadline, Leave
      <4>2. CASE ~(clock >= Timeout)
        <5>1. clock < Timeout
          BY <4>2, TimesAssumption
        <5>2. QED
          BY <3>6, <4>2, <5>1 DEF CheckDeadline
      <4>3. QED
        BY <4>1, <4>2
    <3>7. CASE Terminate
      BY <3>7 DEF Terminate, Returned
    <3>8. CASE Interrupt
      BY <3>8 DEF Interrupt, Leave
    <3>9. CASE UNCHANGED vars
      BY <3>9 DEF vars
    <3>10. QED
      BY <2>3, <3>3, <3>4, <3>5, <3>6, <3>7, <3>8, <3>9 DEF Next, Poller
  <2>4. QED
    BY <2>1, <2>2, <2>3
<1>3. TimeInv => EndsInTime
  BY DEF TimeInv
<1>4. QED
  BY <1>1, <1>2, <1>3, PTL DEF Spec
=============================================================================
