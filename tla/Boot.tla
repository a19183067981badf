-------------------------------- MODULE Boot --------------------------------
(* The firmware from reset to its command loop: main.rs, the memory          *)
(* protection of mpu.rs, the canary of canary.rs, and the self-test that     *)
(* bist.rs and health.rs offer to a caller between the two. Of RAM there are *)
(* the words that somebody checks; the stack overwrites those it reaches.    *)
(* Addresses are offsets from 0x2000_0000.                                   *)
EXTENDS Integers, Sequences

CONSTANTS BaseDepths,   \* the bytes of stack below which main may run
          Depths,       \* how deep the stack may get in a call
          TestWords,    \* the words of the RAM pattern test (linker script)
          VrefCounts    \* what the ADC may read of the reference voltage

RamEnd == 96 * 1024     \* where the stack begins

GuardSize == 1024

CanaryAddr == RamEnd - 4
HealthAddr == RamEnd - 4096

StackLimit == 4096      \* a stack that takes more has overflowed (health.rs)

ASSUME BootAssumption ==
    /\ BaseDepths \subseteq 4..4095
    /\ Depths \subseteq Nat
    /\ TestWords \subseteq 0..(HealthAddr - 1)
    /\ VrefCounts \subseteq 0..4095

Words == {CanaryAddr, HealthAddr} \cup TestWords

VARIABLES board,    \* what the hardware and the caller are like, for good
          stage,    \* the step of main that is next
          guarded,  \* the stack guard is in force
          ram,      \* what was last written to each word
          code,     \* the self-test's code for the host, if it has run
          alarm,    \* the canary was reported corrupted
          loopback, \* the telemetry loopback, if it was captured
          caller,   \* where a self-test returns to
          watch     \* history: has the stack overflowed since reset, and since
                    \* each of the canaries was last placed

bootVars == <<board, stage, guarded, ram, code, alarm, loopback, caller, watch>>

NotRun == -1

\* A bad word does not keep what is written to it; enforced: the protection
\* unit does what it is told; faulty: the injectors that misbehave.
Boards == [enforced : BOOLEAN, base : BaseDepths, bad : SUBSET Words,
           sys : BOOLEAN, tim : BOOLEAN, hclk : BOOLEAN, faulty : 0..3]

BootInit ==
    /\ board \in Boards
    /\ stage = "mpu" /\ guarded = FALSE /\ ram = [w \in Words |-> "frame"]
    /\ code = NotRun /\ alarm = FALSE /\ loopback = <<>> /\ caller = "subsystems"
    /\ watch = [reset |-> "placed", main |-> "absent", selftest |-> "absent"]

-----------------------------------------------------------------------------
\* Region 3 takes the last kilobyte of RAM from region 1.
Accessible(w) == guarded => w < RamEnd - GuardSize

\* The word on top of main's own stack.
StackTop == RamEnd - board.base

\* What a call that gets this deep leaves of the words.
After(depth) ==
    [w \in Words |-> IF RamEnd - depth <= w /\ w < StackTop THEN "frame" ELSE ram[w]]

Holds(w, value) == w \notin board.bad /\ ram[w] = value

\* main goes from one step to the next, if it can use its stack.
Goes(from, to) == stage = from /\ stage' = to /\ Accessible(StackTop)

\* A call of main that gets this deep.
Call(depth) ==
    /\ ram' = After(depth)
    /\ watch' = [m \in DOMAIN watch |->
                    IF depth > StackLimit /\ watch[m] = "placed" THEN "overflowed" ELSE watch[m]]

-----------------------------------------------------------------------------
\* The steps of main.

MpuInit ==
    /\ Goes("mpu", "clock")
    /\ guarded' = board.enforced
    /\ UNCHANGED <<board, ram, code, alarm, loopback, caller, watch>>

ClockInit(depth) ==
    /\ Goes("clock", "canary") /\ Call(depth)
    /\ UNCHANGED <<board, guarded, code, alarm, loopback, caller>>

CanaryInit ==
    /\ Goes("canary", "check") /\ Accessible(CanaryAddr)
    /\ ram' = [ram EXCEPT ![CanaryAddr] = "canary"]
    /\ watch' = [watch EXCEPT !["main"] = "placed"]
    /\ UNCHANGED <<board, guarded, code, alarm, loopback, caller>>

CanaryCheck ==
    /\ Goes("check", IF Holds(CanaryAddr, "canary") THEN "subsystems" ELSE "halted")
    /\ alarm' = ~Holds(CanaryAddr, "canary")
    /\ UNCHANGED <<board, guarded, ram, code, loopback, caller, watch>>

Subsystems(depth) ==
    /\ Goes("subsystems", "loop") /\ Call(depth)
    /\ UNCHANGED <<board, guarded, code, alarm, loopback, caller>>

\* The command "canary check".
CanaryCmd ==
    /\ Goes("loop", "loop")
    /\ alarm' = ~Holds(CanaryAddr, "canary")
    /\ UNCHANGED <<board, guarded, ram, code, loopback, caller, watch>>

\* Any other command, however deep its call gets.
OtherCmd(depth) ==
    /\ Goes("loop", "loop") /\ Call(depth)
    /\ UNCHANGED <<board, guarded, code, alarm, loopback, caller>>

\* An access that the guard forbids: main's own stack, or the canary.
Fault ==
    /\ stage \notin {"halted", "faulted"}
    /\ ~Accessible(StackTop) \/ (stage = "canary" /\ ~Accessible(CanaryAddr))
    /\ stage' = "faulted"
    /\ UNCHANGED <<board, guarded, ram, code, alarm, loopback, caller, watch>>

-----------------------------------------------------------------------------
\* bist::run, for a caller that runs it once the canary is in place, or again
\* from the command loop. What a caller does with a failure is its own affair:
\* this one goes on. (_stack_start is a symbol of the linker and never 0.)

CodeOf == [StackCanary |-> 1, RamTest |-> 2, TimerNotTicking |-> 3,
           ClockOutOfRange |-> 4, ClockHclkNotRunning |-> 5, FaultStability |-> 17]

\* A check that fails ends the run with its code.
Check(ok, error, from, to) ==
    /\ Goes(from, IF ok THEN to ELSE caller)
    /\ code' = IF ok THEN code ELSE CodeOf[error]
    /\ UNCHANGED <<board, guarded, alarm, loopback, caller>>

RunBist ==
    /\ stage \in {"subsystems", "loop"} /\ Goes(stage, "bist_canary")
    /\ caller' = stage
    /\ UNCHANGED <<board, guarded, ram, code, alarm, loopback, watch>>

\* The canary is written where it is then read.
check_stack_canary ==
    /\ ram' = [ram EXCEPT ![HealthAddr] = "canary"]
    /\ watch' = [watch EXCEPT !["selftest"] = "placed"]
    /\ Check(HealthAddr \notin board.bad, "StackCanary", "bist_canary", "bist_ram")

\* Mutant of check_ram: the region of the test ends with the RAM.
check_ramToEnd ==
    /\ ram' = [w \in Words |-> "pattern"]
    /\ Check(TestWords \cap board.bad = {}, "RamTest", "bist_ram", "bist_clock")
    /\ UNCHANGED watch

\* Every word is written before the first is read; no words are no error.
check_ram ==
    /\ ram' = [w \in Words |-> IF w \in TestWords THEN "pattern" ELSE ram[w]]
    /\ Check(TestWords \cap board.bad = {}, "RamTest", "bist_ram", "bist_clock")
    /\ UNCHANGED watch

\* Mutant of ClockError: the core clock is looked at last.
ClockErrorSysLast ==
    IF ~board.tim THEN "TimerNotTicking"
    ELSE IF ~board.hclk THEN "ClockHclkNotRunning" ELSE "ClockOutOfRange"

ClockError ==
    IF ~board.sys THEN "ClockOutOfRange"
    ELSE IF ~board.tim THEN "TimerNotTicking" ELSE "ClockHclkNotRunning"

check_clock ==
    /\ Check(board.sys /\ board.tim /\ board.hclk, ClockError, "bist_clock", "bist_stability")
    /\ UNCHANGED <<ram, watch>>

\* Three injectors are run, and the misbehaving ones counted.
stability_check ==
    /\ Goes("bist_stability", caller)
    /\ code' = IF board.faulty = 0 THEN 0 ELSE CodeOf["FaultStability"]
    /\ UNCHANGED <<board, guarded, ram, alarm, loopback, caller, watch>>

-----------------------------------------------------------------------------
\* telemetry_loopback, for a caller.

VREFINT_EXPECTED == 1502
VREFINT_TOL == 200

Quotient(a, b) == IF a >= 0 THEN a \div b ELSE -((-a) \div b)

MilliVolts(counts) == (counts * 3300) \div 4095

\* The temperature, of the reference voltage.
temp_c(mv) == IF mv > 700 THEN 25 - Quotient((mv - 760) * 10, 25) ELSE 0

vrefint_ok(counts) == counts - VREFINT_EXPECTED \in (-VREFINT_TOL)..VREFINT_TOL

temp_ok(counts) == temp_c(MilliVolts(counts)) \in (-25)..125

Loopback(counts) ==
    /\ Goes("loop", "loop") /\ loopback = <<>>
    /\ loopback' = <<counts>>
    /\ UNCHANGED <<board, guarded, ram, code, alarm, caller, watch>>

BootNext ==
    \/ MpuInit \/ CanaryInit \/ CanaryCheck \/ CanaryCmd \/ Fault
    \/ RunBist \/ check_stack_canary \/ check_ram \/ check_clock \/ stability_check
    \/ \E d \in Depths : ClockInit(d) \/ Subsystems(d) \/ OtherCmd(d)
    \/ \E counts \in VrefCounts : Loopback(counts)

BootSpec == BootInit /\ [][BootNext]_bootVars

-----------------------------------------------------------------------------
\* main's canary fails only if its word is bad or the stack has overflowed since
\* it was placed: neither a self-test nor any other call destroys it.
NoFalseAlarm ==
    alarm \/ stage = "halted" => CanaryAddr \in board.bad \/ watch.main = "overflowed"

\* The code that the host is given is 0 for a sound board only, and names the
\* first thing that is broken, in the order of the checks.
Broken ==
    << HealthAddr \in board.bad, TestWords \cap board.bad # {}, ~board.sys, ~board.tim,
       ~board.hclk, board.faulty > 0 >>

Codes == <<1, 2, 4, 3, 5, 17>>

CodeNamesFirstFailure ==
    /\ code = 0 => \A i \in DOMAIN Broken : ~Broken[i]
    /\ code > 0 => \E i \in DOMAIN Broken :
                      code = Codes[i] /\ Broken[i] /\ \A j \in 1..(i - 1) : ~Broken[j]

-----------------------------------------------------------------------------
(* What the comments promise and the code does not keep.                     *)

\* mpu.rs 36: the guard is there to detect a stack overflow, and main.rs 22-51
\* goes on with guard and canary. So a fault should be an overflow. But the guard
\* is where main's stack begins and where the canary is placed.
FaultIsOverflow == stage = "faulted" => watch.reset = "overflowed"

\* canary.rs 1: main's canary detects a stack overflow; health.rs 35-38: a stack
\* that has taken more than 4 KB has overwritten the self-test's canary, and the
\* next readback detects it. So a self-test that runs behind an overflow which
\* both were in place for should find one of them gone. But the one is above the
\* stack, and the readback writes the other itself.
OverflowShows ==
    [][check_stack_canary /\ watch.main = "overflowed" /\ watch.selftest = "overflowed"
          => ~Holds(CanaryAddr, "canary") \/ code' = CodeOf["StackCanary"]]_bootVars

\* adc_capture.rs 3-7 and 14-16: a reference that reads what the datasheet says
\* should pass. But the temperature is computed from the reference voltage.
NominalReadingPasses ==
    \A i \in DOMAIN loopback :
        loopback[i] = VREFINT_EXPECTED => vrefint_ok(loopback[i]) /\ temp_ok(loopback[i])
=============================================================================
