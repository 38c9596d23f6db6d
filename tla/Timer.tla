------------------------------- MODULE Timer -------------------------------
(***************************************************************************)
(* lib.c: timer_calibrate, which measures the TSC against the PIT's        *)
(* free-running 16-bit down counter.  Time is counted in PIT ticks,        *)
(* CyclesPerTick TSC cycles to one.                                        *)
(***************************************************************************)
EXTENDS Interrupts

CONSTANTS
  COUNT,          \* values of the counter, 2^16
  LIMIT,          \* ticks to measure, 50000
  PIT_FREQ_HZ,
  CyclesPerTick,  \* the CPU's speed
  StartGap,       \* ticks that the wait before pit_start takes
  MaxGap          \* bound: ticks between two reads of the counter

ASSUME TimerAssumption ==
  /\ {COUNT, LIMIT, PIT_FREQ_HZ, CyclesPerTick, MaxGap} \subseteq Nat \ {0}
  /\ StartGap \subseteq 0 .. COUNT - 1
  /\ MaxGap <= COUNT - LIMIT  \* else the counter may pass pit_start unseen

VARIABLES
  pit,          \* the counter, as read last
  pit_start,    \* timer_calibrate
  gone,         \* ticks since pit_start
  tsc_freq_hz   \* lib.c

timerVars == <<pit, pit_start, gone, tsc_freq_hz>>

TimerInit == pit = 0 /\ pit_start = 0 /\ gone = 0 /\ tsc_freq_hz = 0

(* cli; the counter starts from its top; a wait, and the first reads.      *)
CalibrateStart ==
  /\ Step("calibrate", "measure")
  /\ interrupts' = FALSE
  /\ \E gap \in StartGap : pit_start' = COUNT - 1 - gap
  /\ pit' = pit_start' /\ gone' = 0
  /\ UNCHANGED <<frame, tableVars, picVars, spurious, tsc_freq_hz>>

GoesOn == pit_start - pit < LIMIT /\ pit <= pit_start

(* The counter at 0 raises the PIT's interrupt, which stays masked.        *)
Measure ==
  /\ Step("measure", "measure")
  /\ GoesOn
  /\ \E gap \in 1 .. MaxGap :
       /\ pit' = (pit - gap) % COUNT
       /\ gone' = gone + gap
       /\ raised' = IF gap >= pit THEN raised \cup {0} ELSE raised
  /\ UNCHANGED <<interrupts, frame, tableVars, offsets, masked, service, spurious,
                 pit_start, tsc_freq_hz>>

(* Mutant of pit_elapsed: the tick from 0 to the top is forgotten.         *)
pit_elapsed_short == IF pit <= pit_start THEN pit_start - pit ELSE pit_start + (COUNT - 1 - pit)

pit_elapsed == IF pit <= pit_start THEN pit_start - pit ELSE pit_start + (COUNT - 1 - pit) + 1

tsc_elapsed == gone * CyclesPerTick

(* sti, whether the measurement succeeds or not.                           *)
CalibrateEnd ==
  /\ Step("measure", "checks") /\ ~GoesOn
  /\ tsc_freq_hz' = IF pit_elapsed = 0 THEN 0 ELSE (tsc_elapsed * PIT_FREQ_HZ) \div pit_elapsed
  /\ interrupts' = TRUE
  /\ pit' = 0 /\ pit_start' = 0 /\ gone' = 0
  /\ UNCHANGED <<frame, tableVars, picVars, spurious>>

=============================================================================
