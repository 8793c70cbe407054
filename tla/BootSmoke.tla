----------------------------- MODULE BootSmoke -----------------------------
(***************************************************************************)
(* serein.distribution.bootsmoke.run_boot_smoke: a poller that reads the   *)
(* tail of a serial log while QEMU writes it, until a boot marker shows,   *)
(* QEMU exits or the deadline passes, and that then takes QEMU down.       *)
(*                                                                         *)
(* The log is a count of written blocks and the position of the last block *)
(* that carries a marker.  Time passes while the poller sleeps or waits.   *)
(***************************************************************************)
EXTENDS Naturals

CONSTANTS Tail,     \* blocks _read_tail returns (_LOG_TAIL_BYTES)
          Timeout,  \* timeout_seconds
          Poll,     \* poll_interval_seconds
          Grace,    \* terminate_grace_seconds
          MaxLog    \* bound: blocks the guest writes

ASSUME TimesAssumption ==
    /\ Tail \in Nat \ {0} /\ MaxLog \in Nat
    /\ Timeout \in Nat /\ Poll \in Nat \ {0} /\ Grace \in Nat

VARIABLES
    pc,       \* next statement of the poller
    final,    \* is _terminate running in the finally clause?
    result,   \* how run_boot_smoke ends: a status and its reason in one
    clock,    \* time_source() - start_time
    seen,     \* log length at the last read (log_text)
    skipped,  \* ghost: more than a tail was written between two reads
    guest,    \* the QEMU process
    killed,   \* has it been sent SIGKILL?
    len,      \* blocks in its log
    mark,     \* position of the last marker in its log, 0 for none
    old       \* a previous smoke's log, marker and all, is still in place

poller == <<pc, final, result, clock, seen, skipped>>
qemu   == <<guest, killed, len, mark, old>>
vars   == <<poller, qemu>>

Looping == {"read", "poll", "deadline", "sleep"}
Ending  == {"terminate", "graceWait", "kill", "killWait"}

TypeOK ==
    /\ pc \in {"unlink", "spawn", "done"} \cup Looping \cup Ending
    /\ final \in BOOLEAN
    /\ result \in {"none", "pass", "exited", "timeout", "raised"}
    /\ clock \in Nat /\ seen \in Nat /\ len \in Nat /\ mark \in Nat
    /\ skipped \in BOOLEAN /\ killed \in BOOLEAN /\ old \in BOOLEAN
    /\ guest \in {"none", "running", "exited"}

Init ==
    /\ pc = "unlink" /\ final = FALSE /\ result = "none"
    /\ clock = 0 /\ seen = 0 /\ skipped = FALSE
    /\ guest = "none" /\ killed = FALSE /\ len = 0 /\ mark = 0
    /\ old \in BOOLEAN

----------------------------------------------------------------------------
(* QEMU and the system booting in it                                       *)

\* A block reaches the log; the first one makes it QEMU's own file.
Write ==
    /\ guest = "running" /\ len < MaxLog
    /\ len' = len + 1
    /\ mark' \in {mark, len + 1}
    /\ old' = FALSE
    /\ UNCHANGED <<poller, guest, killed>>

\* It exits: on its own (-no-reboot), or because of a signal.
Exit ==
    /\ guest = "running"
    /\ guest' = "exited"
    /\ UNCHANGED <<poller, killed, len, mark, old>>

----------------------------------------------------------------------------
(* The poller                                                              *)

\* Mutant: a log that is already there is left to QEMU.
KeepOldLog ==
    /\ pc = "unlink"
    /\ pc' = "spawn"
    /\ UNCHANGED <<final, result, clock, seen, skipped, qemu>>

UnlinkOldLog ==
    /\ pc = "unlink"
    /\ old' = FALSE
    /\ pc' = "spawn"
    /\ UNCHANGED <<final, result, clock, seen, skipped, guest, killed, len, mark>>

Spawn ==
    /\ pc = "spawn"
    /\ guest' = "running"
    /\ pc' = "read"
    /\ UNCHANGED <<final, result, clock, seen, skipped, killed, len, mark, old>>

\* popen_factory raises: there is no process, and no try block yet.
SpawnFails ==
    /\ pc = "spawn"
    /\ pc' = "done" /\ result' = "raised"
    /\ UNCHANGED <<final, clock, seen, skipped, qemu>>

\* Mutant: the oldest block of the tail is dropped.
MarkerInShortTail == old \/ (mark > 0 /\ mark + Tail > len + 1)

\* evaluate_boot_log of the last Tail blocks.
MarkerInTail == old \/ (mark > 0 /\ mark + Tail > len)

\* Leave the loop with this result; a running _terminate comes first unless
\* the finally clause is all that is left.
Leave(how, at) == result' = how /\ pc' = "terminate" /\ final' = at

ReadLog ==
    /\ pc = "read"
    /\ seen' = len
    /\ skipped' = (skipped \/ len > seen + Tail)
    /\ IF MarkerInTail
         THEN Leave("pass", FALSE)
         ELSE pc' = "poll" /\ UNCHANGED <<final, result>>
    /\ UNCHANGED <<clock, qemu>>

PollProcess ==
    /\ pc = "poll"
    /\ IF guest = "exited"
         THEN Leave("exited", TRUE)
         ELSE pc' = "deadline" /\ UNCHANGED <<final, result>>
    /\ UNCHANGED <<clock, seen, skipped, qemu>>

CheckDeadline ==
    /\ pc = "deadline"
    /\ IF clock >= Timeout
         THEN Leave("timeout", FALSE)
         ELSE pc' = "sleep" /\ UNCHANGED <<final, result>>
    /\ UNCHANGED <<clock, seen, skipped, qemu>>

\* Mutant: the clock counts processor time, which sleeping does not use.
SleepUncounted ==
    /\ pc = "sleep"
    /\ pc' = "read"
    /\ UNCHANGED <<final, result, clock, seen, skipped, qemu>>

Sleep ==
    /\ pc = "sleep"
    /\ clock' = clock + Poll
    /\ pc' = "read"
    /\ UNCHANGED <<final, result, seen, skipped, qemu>>

\* Anything in the loop, or the _terminate called from it, raises
\* (a KeyboardInterrupt out of sleep_fn): the finally clause still runs.
Interrupt ==
    /\ pc \in Looping \/ (pc \in Ending /\ ~final)
    /\ Leave("raised", TRUE)
    /\ UNCHANGED <<clock, seen, skipped, qemu>>

----------------------------------------------------------------------------
(* _terminate                                                              *)

\* The call returns: to the finally clause, which calls it again, or for good.
Returned ==
    IF final THEN pc' = "done" /\ UNCHANGED final
             ELSE pc' = "terminate" /\ final' = TRUE

\* poll(): nothing to do for a process that has exited; SIGTERM otherwise.
Terminate ==
    /\ pc = "terminate"
    /\ IF guest = "exited"
         THEN Returned
         ELSE pc' = "graceWait" /\ UNCHANGED final
    /\ UNCHANGED <<result, clock, seen, skipped, qemu>>

\* wait(timeout=grace): the process exits in time, or TimeoutExpired is raised.
Wait(at, expired) ==
    /\ pc = at
    /\ IF guest = "exited"
         THEN Returned /\ clock' \in clock..(clock + Grace)
         ELSE clock' = clock + Grace /\ expired
    /\ UNCHANGED <<result, seen, skipped, qemu>>

GraceWait == Wait("graceWait", pc' = "kill" /\ UNCHANGED final)

\* Mutant: a process that ignores SIGTERM is given up.
GiveUp ==
    /\ pc = "kill"
    /\ Returned
    /\ UNCHANGED <<result, clock, seen, skipped, qemu>>

Kill ==
    /\ pc = "kill"
    /\ killed' = TRUE
    /\ pc' = "killWait"
    /\ UNCHANGED <<final, result, clock, seen, skipped, guest, len, mark, old>>

KillWait == Wait("killWait", Returned)

Poller ==
    \/ UnlinkOldLog \/ Spawn \/ SpawnFails
    \/ ReadLog \/ PollProcess \/ CheckDeadline \/ Sleep
    \/ Terminate \/ GraceWait \/ Kill \/ KillWait

Next == Poller \/ Interrupt \/ Write \/ Exit

\* The poller keeps running; whether QEMU does anything is up to QEMU.
Spec == Init /\ [][Next]_vars /\ WF_vars(Poller)

----------------------------------------------------------------------------
(* Properties                                                              *)

\* A pass rests on a marker that the system booted by THIS call logged, never
\* on the log of an earlier one (bootsmoke.py:319, 329-333).
PassHasEvidence == result = "pass" => mark > 0

\* A failed boot whose log holds a marker is one whose marker came after the
\* last look at the log, or was pushed out of the tail between two looks.
MarkerMissedOnlyBetweenReads ==
    (result \in {"exited", "timeout"} /\ mark > 0) => (mark > seen \/ skipped)

\* When run_boot_smoke is left, whichever way, its QEMU is gone or has been
\* sent the signal it cannot ignore (_terminate: "never leaked").
NeverLeaked == (pc = "done" /\ guest # "none") => (guest = "exited" \/ killed)

\* However the guest behaves, run_boot_smoke ends.
Terminates == <>(pc = "done")

\* bootsmoke.py:18-22: "a genuine process-exit-before-marker or a deadline with
\* no marker are the only failure paths".
ExitedBeforeMarker == result = "exited" => mark = 0
=============================================================================
