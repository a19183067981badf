--------------------------- MODULE FirmwareProofs ---------------------------
(* The three parts of the firmware: Boot for every board, every depth of the *)
(* stack and every reading of the ADC; UsbLink for every queue, every set of *)
(* commands and any number of packets and connections; Sampler for every     *)
(* size of a packet, reads of any length and counts of twelve bits.          *)
EXTENDS Boot, UsbLink, Sampler,
        SequenceTheorems, FiniteSetTheorems, WellFoundedInduction, TLAPS

-----------------------------------------------------------------------------
(* Boot.                                                                     *)

\* The words are where BootAssumption says, and the canary is none of the rest.
LEMMA Layout ==
    /\ CanaryAddr = 98300 /\ HealthAddr = 94208 /\ RamEnd = 98304
    /\ CanaryAddr \in Words /\ HealthAddr \in Words
    /\ CanaryAddr \notin TestWords /\ HealthAddr \notin TestWords
  <1>1. CanaryAddr = 98300 /\ HealthAddr = 94208 /\ RamEnd = 98304
    BY DEF CanaryAddr, HealthAddr, RamEnd
  <1>2. ASSUME NEW w \in TestWords PROVE w < HealthAddr /\ w \in Int
    <2>1. w \in 0..(HealthAddr - 1)
      BY BootAssumption
    <2> QED  BY <1>1, <2>1, SMTT(30)
  <1>3. CanaryAddr \notin TestWords /\ HealthAddr \notin TestWords
    BY <1>1, <1>2
  <1> QED  BY <1>1, <1>3 DEF Words

Steps == {"mpu", "clock", "canary", "check", "subsystems", "loop", "halted", "faulted",
          "bist_canary", "bist_ram", "bist_clock", "bist_stability"}

\* The board is one of those there are; ram knows every word; a self-test goes
\* back to a step that runs it.
BoardOK ==
    /\ board \in Boards /\ stage \in Steps
    /\ DOMAIN ram = Words /\ caller \in {"subsystems", "loop"}

Booting == {"mpu", "clock", "canary"}

\* The guard covers the canary: a firmware whose guard is in force is still
\* before its canary, or in a fault.
GuardedNeverRuns == guarded => stage \in Booting \cup {"faulted"}

\* Only a bad word fails a canary, be it main's or the self-test's.
AlarmsAreBadWords ==
    /\ alarm => CanaryAddr \in board.bad
    /\ stage = "halted" => CanaryAddr \in board.bad
    /\ code = CodeOf["StackCanary"] => HealthAddr \in board.bad

\* Once placed, the canary of main stays: it is above the stack, and no test
\* of the RAM is given its word.
CanaryStays == stage \notin Booting \cup {"faulted"} => ram[CanaryAddr] = "canary"

BootInv == BoardOK /\ GuardedNeverRuns /\ CanaryStays /\ AlarmsAreBadWords

-----------------------------------------------------------------------------
\* However deep the stack gets, it does not reach main's canary.
LEMMA StackKeepsCanary ==
    ASSUME BoardOK, NEW depth \in Depths
    PROVE  After(depth)[CanaryAddr] = ram[CanaryAddr] /\ DOMAIN After(depth) = Words
  <1>1. board.base \in 4..4095
    <2>1. board.base \in BaseDepths
      BY DEF BoardOK, Boards
    <2>2. \A b \in BaseDepths : b \in 4..4095
      BY BootAssumption
    <2> QED  BY <2>1, <2>2
  <1>2. StackTop \in Int /\ StackTop <= CanaryAddr
    <2> DEFINE b == board.base
    <2>1. StackTop = RamEnd - b /\ b \in 4..4095
      BY <1>1 DEF StackTop
    <2> HIDE DEF b
    <2> QED  BY <2>1, Layout
  <1> QED  BY <1>2, Layout DEF After

\* From reset.
LEMMA BootInitInv == BootInit => BootInv
  <1> SUFFICES ASSUME BootInit PROVE BootInv
    OBVIOUS
  <1>1. BoardOK /\ GuardedNeverRuns /\ CanaryStays
    BY DEF BootInit, BoardOK, Steps, GuardedNeverRuns, CanaryStays, Booting
  <1>2. AlarmsAreBadWords
    BY DEF BootInit, AlarmsAreBadWords, NotRun, CodeOf
  <1> QED  BY <1>1, <1>2 DEF BootInv

\* The guard, once in force, lets main no further than the canary.
LEMMA GuardInv ==
    ASSUME BootInv, BootNext
    PROVE  GuardedNeverRuns'
  <1>1. CASE MpuInit
    BY <1>1 DEF MpuInit, Goes, GuardedNeverRuns, Booting
  <1>2. CASE CanaryInit
    <2>1. ~guarded
      BY <1>2, Layout DEF CanaryInit, Accessible, GuardSize
    <2> QED  BY <1>2, <2>1 DEF CanaryInit, GuardedNeverRuns
  <1>3. ASSUME NEW d \in Depths, ClockInit(d) PROVE GuardedNeverRuns'
    BY <1>3 DEF ClockInit, Goes, GuardedNeverRuns, Booting
  <1>4. CASE Fault
    BY <1>4 DEF Fault, GuardedNeverRuns
  <1>5. CASE guarded' = guarded /\ stage \notin Booting \cup {"faulted"}
    BY <1>5 DEF BootInv, GuardedNeverRuns
  <1>6. ASSUME \/ CanaryCheck \/ CanaryCmd \/ RunBist
               \/ check_stack_canary \/ check_ram \/ check_clock \/ stability_check
               \/ \E d \in Depths : Subsystems(d) \/ OtherCmd(d)
               \/ \E counts \in VrefCounts : Loopback(counts)
        PROVE  guarded' = guarded /\ stage \notin Booting \cup {"faulted"}
    BY <1>6 DEF CanaryCheck, CanaryCmd, RunBist, check_stack_canary, check_ram,
                check_clock, stability_check, Subsystems, OtherCmd, Loopback, Check,
                Goes, Booting
  <1> QED  BY <1>1, <1>2, <1>3, <1>4, <1>5, <1>6 DEF BootNext

\* A canary that was placed is still there.
LEMMA CanaryInv ==
    ASSUME BootInv, BootNext
    PROVE  BoardOK' /\ CanaryStays'
  <1>1. BoardOK
    BY DEF BootInv
  <1>2. ASSUME stage' \in Booting \cup {"faulted"}, UNCHANGED <<board, caller>>,
               DOMAIN ram' = Words
        PROVE  BoardOK' /\ CanaryStays'
    BY <1>1, <1>2 DEF BoardOK, CanaryStays, Booting, Steps
  <1>3. ASSUME stage \notin Booting \cup {"faulted"}, stage' \in Steps, UNCHANGED board,
               caller' \in {"subsystems", "loop"},
               ram'[CanaryAddr] = ram[CanaryAddr], DOMAIN ram' = Words
        PROVE  BoardOK' /\ CanaryStays'
    BY <1>1, <1>3 DEF BootInv, BoardOK, CanaryStays
  <1>4. CASE MpuInit \/ Fault
    BY <1>1, <1>2, <1>4 DEF MpuInit, Fault, Goes, Booting, BoardOK
  <1>5. ASSUME NEW d \in Depths, ClockInit(d) PROVE BoardOK' /\ CanaryStays'
    BY <1>1, <1>2, <1>5, StackKeepsCanary DEF ClockInit, Call, Goes, Booting
  <1>6. CASE CanaryInit
    <2>1. /\ ram' = [ram EXCEPT ![CanaryAddr] = "canary"] /\ stage' = "check"
          /\ board' = board /\ caller' = caller
      BY <1>6 DEF CanaryInit, Goes
    <2>2. ram'[CanaryAddr] = "canary" /\ DOMAIN ram' = Words
      BY <1>1, <2>1, Layout DEF BoardOK
    <2> QED  BY <1>1, <2>1, <2>2 DEF BoardOK, CanaryStays, Steps
  <1>7. ASSUME NEW d \in Depths, Subsystems(d) \/ OtherCmd(d)
        PROVE  BoardOK' /\ CanaryStays'
    BY <1>1, <1>3, <1>7, StackKeepsCanary DEF Subsystems, OtherCmd, Call, Goes, Booting, Steps, BoardOK
  <1>8. CASE check_stack_canary
    <2>1. /\ ram' = [ram EXCEPT ![HealthAddr] = "canary"] /\ board' = board
          /\ stage = "bist_canary" /\ stage' \in Steps /\ caller' \in {"subsystems", "loop"}
      BY <1>1, <1>8 DEF check_stack_canary, Check, Goes, Steps, BoardOK
    <2>2. ram'[CanaryAddr] = ram[CanaryAddr] /\ DOMAIN ram' = Words
      BY <1>1, <2>1, Layout DEF BoardOK
    <2> QED  BY <1>3, <2>1, <2>2 DEF Booting
  <1>9. CASE check_ram
    <2>1. /\ ram' = [w \in Words |-> IF w \in TestWords THEN "pattern" ELSE ram[w]]
          /\ stage = "bist_ram" /\ stage' \in Steps /\ board' = board
          /\ caller' \in {"subsystems", "loop"}
      BY <1>1, <1>9 DEF check_ram, Check, Goes, Steps, BoardOK
    <2>2. ram'[CanaryAddr] = ram[CanaryAddr] /\ DOMAIN ram' = Words
      BY <2>1, Layout
    <2> QED  BY <1>3, <2>1, <2>2 DEF Booting
  <1>10. ASSUME \/ CanaryCheck \/ CanaryCmd \/ RunBist \/ check_clock \/ stability_check
                \/ \E counts \in VrefCounts : Loopback(counts)
         PROVE  BoardOK' /\ CanaryStays'
    <2>1. /\ stage \notin Booting \cup {"faulted"} /\ stage' \in Steps /\ UNCHANGED <<board, ram>>
          /\ caller' \in {"subsystems", "loop"}
      BY <1>1, <1>10 DEF CanaryCheck, CanaryCmd, RunBist, check_clock, stability_check,
                         Loopback, Check, Goes, Booting, Steps, BoardOK
    <2> QED  BY <1>1, <1>3, <2>1 DEF BoardOK
  <1> QED
    BY <1>4, <1>5, <1>6, <1>7, <1>8, <1>9, <1>10 DEF BootNext

\* Where main's canary is looked at, it is missing only from a bad word.
LEMMA AlarmsInv ==
    ASSUME BootInv, BootNext
    PROVE  AlarmsAreBadWords'
  <1>1. board' = board
    BY DEF BootNext, MpuInit, ClockInit, CanaryInit, CanaryCheck, Subsystems, CanaryCmd,
           OtherCmd, Fault, RunBist, check_stack_canary, check_ram, check_clock,
           stability_check, Loopback, Check
  <1>2. CASE CanaryCheck \/ CanaryCmd
    <2>1. /\ alarm' = ~Holds(CanaryAddr, "canary") /\ code' = code
          /\ ram[CanaryAddr] = "canary"
          /\ stage' = "halted" => ~Holds(CanaryAddr, "canary")
      BY <1>2 DEF CanaryCheck, CanaryCmd, Goes, BootInv, CanaryStays, Booting
    <2> QED  BY <1>1, <2>1 DEF BootInv, AlarmsAreBadWords, Holds
  <1>3. ASSUME alarm' = alarm, stage' = "halted" => stage = "halted",
               \/ code' = code
               \/ code' # CodeOf["StackCanary"] \/ HealthAddr \in board.bad
        PROVE  AlarmsAreBadWords'
    BY <1>1, <1>3 DEF BootInv, AlarmsAreBadWords
  <1>4. ASSUME \/ MpuInit \/ CanaryInit \/ Fault \/ RunBist
               \/ \E d \in Depths : ClockInit(d) \/ Subsystems(d) \/ OtherCmd(d)
               \/ \E counts \in VrefCounts : Loopback(counts)
        PROVE  AlarmsAreBadWords'
    <2>1. alarm' = alarm /\ code' = code /\ stage' # "halted"
      BY <1>4 DEF MpuInit, CanaryInit, Fault, RunBist, ClockInit, Subsystems, OtherCmd,
                  Call, Loopback, Goes
    <2> QED  BY <1>3, <2>1
  <1>5. CASE check_stack_canary
    <2>1. /\ alarm' = alarm /\ stage' # "halted"
          /\ code' = code \/ HealthAddr \in board.bad
      BY <1>5 DEF check_stack_canary, Check, Goes, BootInv, BoardOK
    <2> QED  BY <1>3, <2>1
  <1>6. CASE check_ram \/ check_clock \/ stability_check
    <2>1. /\ alarm' = alarm /\ stage' # "halted"
          /\ code' = code \/ code' # CodeOf["StackCanary"]
      BY <1>6 DEF check_ram, check_clock, stability_check, Check, Goes, ClockError, CodeOf,
                  BootInv, BoardOK
    <2> QED  BY <1>3, <2>1
  <1> QED  BY <1>2, <1>4, <1>5, <1>6 DEF BootNext

\* Every step keeps the invariant.
LEMMA BootNextInv == BootInv /\ [BootNext]_bootVars => BootInv'
  <1>1. BootInv /\ BootNext => BootInv'
    BY GuardInv, CanaryInv, AlarmsInv DEF BootInv
  <1>2. BootInv /\ UNCHANGED bootVars => BootInv'
    BY DEF bootVars, BootInv, BoardOK, GuardedNeverRuns, CanaryStays, AlarmsAreBadWords
  <1> QED  BY <1>1, <1>2

-----------------------------------------------------------------------------
\* On no board does a firmware whose guard is in force reach its checks: what
\* FaultIsOverflow finds on one board is so on all of them.
THEOREM GuardStopsBoot == BootSpec => []GuardedNeverRuns
  <1>1. BootInv => GuardedNeverRuns
    BY DEF BootInv
  <1> QED  BY <1>1, BootInitInv, BootNextInv, PTL DEF BootSpec

\* However deep the stack gets, neither canary shows it: what OverflowShows finds
\* of one overflow is so of all of them.
THEOREM CanariesSeeNoStack == BootSpec => []AlarmsAreBadWords
  <1>1. BootInv => AlarmsAreBadWords
    BY DEF BootInv
  <1> QED  BY <1>1, BootInitInv, BootNextInv, PTL DEF BootSpec

\* For every RAM test that ends below the self-test's canary, and whatever runs
\* in between: main's canary gives no false alarm.
THEOREM CanaryIsLeftAlone == BootSpec => []NoFalseAlarm
  <1>1. AlarmsAreBadWords => NoFalseAlarm
    BY DEF AlarmsAreBadWords, NoFalseAlarm
  <1> QED  BY <1>1, CanariesSeeNoStack, PTL

-----------------------------------------------------------------------------
\* A self-test that has come this far has found all well.
Progress ==
    /\ stage \in {"bist_ram", "bist_clock", "bist_stability"} => HealthAddr \notin board.bad
    /\ stage \in {"bist_clock", "bist_stability"} => TestWords \cap board.bad = {}
    /\ stage = "bist_stability" => board.sys /\ board.tim /\ board.hclk

CodeInv == BoardOK /\ Progress /\ CodeNamesFirstFailure

\* The checks that would fail, as a set.
Failed == {i \in 1..6 : Broken[i]}

\* What is broken, check by check, and its code.
LEMMA Checks ==
    ASSUME BoardOK
    PROVE  /\ Failed \subseteq 1..6
           /\ 1 \in Failed <=> HealthAddr \in board.bad
           /\ 2 \in Failed <=> TestWords \cap board.bad # {}
           /\ 3 \in Failed <=> ~board.sys
           /\ 4 \in Failed <=> ~board.tim
           /\ 5 \in Failed <=> ~board.hclk
           /\ 6 \in Failed <=> board.faulty # 0
           /\ Codes[1] = 1 /\ Codes[2] = 2 /\ Codes[3] = 4 /\ Codes[4] = 3
           /\ Codes[5] = 5 /\ Codes[6] = 17
  <1>1. 1 \in 1..6 /\ 2 \in 1..6 /\ 3 \in 1..6 /\ 4 \in 1..6 /\ 5 \in 1..6 /\ 6 \in 1..6
    OBVIOUS
  <1>2. /\ Broken[1] = (HealthAddr \in board.bad)
        /\ Broken[2] = (TestWords \cap board.bad # {})
        /\ Broken[3] = ~board.sys /\ Broken[4] = ~board.tim /\ Broken[5] = ~board.hclk
        /\ Broken[6] = (board.faulty > 0)
    BY Zenon DEF Broken
  <1>3. board.faulty > 0 <=> board.faulty # 0
    <2> DEFINE f == board.faulty
    <2>1. f \in 0..3
      BY DEF BoardOK, Boards
    <2> HIDE DEF f
    <2>2. f > 0 <=> f # 0
      BY <2>1
    <2> QED  BY <2>2 DEF f
  <1>4. /\ Codes[1] = 1 /\ Codes[2] = 2 /\ Codes[3] = 4 /\ Codes[4] = 3 /\ Codes[5] = 5
        /\ Codes[6] = 17
    BY DEF Codes
  <1>5. Failed \subseteq 1..6
    BY DEF Failed
  <1>6. /\ 1 \in Failed <=> HealthAddr \in board.bad
        /\ 2 \in Failed <=> TestWords \cap board.bad # {}
        /\ 3 \in Failed <=> ~board.sys
        /\ 4 \in Failed <=> ~board.tim
        /\ 5 \in Failed <=> ~board.hclk
        /\ 6 \in Failed <=> board.faulty # 0
    BY <1>1, <1>2, <1>3, Zenon DEF Failed
  <1> QED  BY <1>4, <1>5, <1>6

\* The property, of the set: what comes first is what nothing comes before.
LEMMA FirstFailure ==
    CodeNamesFirstFailure <=>
        /\ code = 0 => Failed = {}
        /\ code > 0 => \E i \in Failed : code = Codes[i] /\ \A j \in Failed : i <= j
  <1>1. DOMAIN Broken = 1..6
    BY DEF Broken
  <1>2. \A i \in 1..6 : /\ 1..(i - 1) \subseteq 1..6
                        /\ \A j \in 1..6 : j \in 1..(i - 1) <=> ~(i <= j)
    OBVIOUS
  <1>3. (\A i \in DOMAIN Broken : ~Broken[i]) <=> Failed = {}
    BY <1>1, Zenon DEF Failed
  <1>4. ASSUME NEW i \in 1..6
        PROVE  (\A j \in 1..(i - 1) : ~Broken[j]) <=> (\A j \in Failed : i <= j)
    BY <1>2, Zenon DEF Failed
  <1>5. (\E i \in DOMAIN Broken :
             code = Codes[i] /\ Broken[i] /\ \A j \in 1..(i - 1) : ~Broken[j])
        <=> (\E i \in Failed : code = Codes[i] /\ \A j \in Failed : i <= j)
    BY <1>1, <1>4, Zenon DEF Failed
  <1> QED  BY <1>3, <1>5, Zenon DEF CodeNamesFirstFailure

\* The same after a step.
LEMMA FirstFailureNext ==
    CodeNamesFirstFailure' <=>
        /\ code' = 0 => Failed' = {}
        /\ code' > 0 => \E i \in Failed' : code' = Codes[i] /\ \A j \in Failed' : i <= j
  <1>1. Codes' = Codes
    BY DEF Codes
  <1>2. DOMAIN Broken' = 1..6
    BY DEF Broken
  <1>3. \A i \in 1..6 : /\ 1..(i - 1) \subseteq 1..6
                        /\ \A j \in 1..6 : j \in 1..(i - 1) <=> ~(i <= j)
    OBVIOUS
  <1>4. (\A i \in DOMAIN Broken' : ~Broken'[i]) <=> Failed' = {}
    BY <1>2, Zenon DEF Failed
  <1>5. ASSUME NEW i \in 1..6
        PROVE  (\A j \in 1..(i - 1) : ~Broken'[j]) <=> (\A j \in Failed' : i <= j)
    BY <1>3, Zenon DEF Failed
  <1>6. (\E i \in DOMAIN Broken' :
             code' = Codes[i] /\ Broken'[i] /\ \A j \in 1..(i - 1) : ~Broken'[j])
        <=> (\E i \in Failed' : code' = Codes[i] /\ \A j \in Failed' : i <= j)
    BY <1>2, <1>5, Zenon DEF Failed
  <1> QED  BY <1>1, <1>4, <1>6, Zenon DEF CodeNamesFirstFailure

\* A run that ends with a code names the check that failed first.
LEMMA RunEnds ==
    ASSUME CodeInv, board' = board,
           \/ code' = code
           \/ code' = 0 /\ Failed = {}
           \/ \E i \in Failed : code' = Codes[i] /\ \A j \in Failed : i <= j
    PROVE  CodeNamesFirstFailure'
  <1>1. Failed' = Failed
    BY DEF Failed, Broken
  <1>2. CodeNamesFirstFailure' <=>
            /\ code' = 0 => Failed' = {}
            /\ code' > 0 => \E i \in Failed' : code' = Codes[i] /\ \A j \in Failed' : i <= j
    BY FirstFailureNext
  <1>3. /\ code = 0 => Failed = {}
        /\ code > 0 => \E i \in Failed : code = Codes[i] /\ \A j \in Failed : i <= j
    BY FirstFailure DEF CodeInv
  <1>4. CASE code' = code
    BY <1>1, <1>2, <1>3, <1>4
  <1>5. CASE code' = 0 /\ Failed = {}
    BY <1>1, <1>2, <1>5
  <1>6. ASSUME NEW i \in Failed, code' = Codes[i], \A j \in Failed : i <= j
        PROVE  CodeNamesFirstFailure'
    <2>1. code' # 0
      BY <1>6, Checks DEF CodeInv
    <2> QED  BY <1>1, <1>2, <1>6, <2>1
  <1> QED  BY <1>4, <1>5, <1>6

\* The progress of the self-test through its checks.
LEMMA ProgressInv ==
    ASSUME CodeInv, BootNext
    PROVE  Progress' /\ board' = board
  <1>1. board' = board
    BY DEF BootNext, MpuInit, ClockInit, CanaryInit, CanaryCheck, Subsystems, CanaryCmd,
           OtherCmd, Fault, RunBist, check_stack_canary, check_ram, check_clock,
           stability_check, Loopback, Check
  <1>2. ASSUME stage' \notin {"bist_ram", "bist_clock", "bist_stability"}
        PROVE  Progress'
    BY <1>2 DEF Progress
  <1>3. ASSUME \/ MpuInit \/ CanaryInit \/ CanaryCheck \/ CanaryCmd \/ Fault \/ RunBist
               \/ stability_check
               \/ \E d \in Depths : ClockInit(d) \/ Subsystems(d) \/ OtherCmd(d)
               \/ \E counts \in VrefCounts : Loopback(counts)
        PROVE  Progress'
    <2>1. stage' \notin {"bist_ram", "bist_clock", "bist_stability"}
      BY <1>3 DEF MpuInit, CanaryInit, CanaryCheck, CanaryCmd, Fault, RunBist, stability_check,
                  ClockInit, Subsystems, OtherCmd, Loopback, Goes, CodeInv, BoardOK
    <2> QED  BY <1>2, <2>1
  <1>5. CASE check_stack_canary
    <2>1. \/ stage' \in {"subsystems", "loop"}
          \/ stage' = "bist_ram" /\ code' = code /\ HealthAddr \notin board.bad
      BY <1>5 DEF check_stack_canary, Check, Goes, CodeInv, BoardOK
    <2>2. stage = "bist_canary"
      BY <1>5 DEF check_stack_canary, Check, Goes
    <2> QED  BY <1>1, <1>2, <2>1, <2>2 DEF Progress, CodeInv
  <1>6. CASE check_ram
    <2>1. \/ stage' \in {"subsystems", "loop"}
          \/ stage' = "bist_clock" /\ code' = code /\ TestWords \cap board.bad = {}
      BY <1>6 DEF check_ram, Check, Goes, CodeInv, BoardOK
    <2>2. stage = "bist_ram"
      BY <1>6 DEF check_ram, Check, Goes
    <2> QED  BY <1>1, <1>2, <2>1, <2>2 DEF Progress, CodeInv
  <1>7. CASE check_clock
    <2>1. \/ stage' \in {"subsystems", "loop"}
          \/ stage' = "bist_stability" /\ code' = code /\ board.sys /\ board.tim /\ board.hclk
      BY <1>7 DEF check_clock, Check, Goes, CodeInv, BoardOK
    <2>2. stage = "bist_clock"
      BY <1>7 DEF check_clock, Check, Goes
    <2> QED  BY <1>1, <1>2, <2>1, <2>2 DEF Progress, CodeInv
  <1> QED  BY <1>1, <1>3, <1>5, <1>6, <1>7 DEF BootNext

\* The code that a run ends with.
LEMMA CodeStep ==
    ASSUME CodeInv, BootNext
    PROVE  CodeNamesFirstFailure'
  <1>1. board' = board /\ BoardOK
    BY ProgressInv DEF CodeInv
  <1>2. ASSUME \/ MpuInit \/ CanaryInit \/ CanaryCheck \/ CanaryCmd \/ Fault \/ RunBist
               \/ \E d \in Depths : ClockInit(d) \/ Subsystems(d) \/ OtherCmd(d)
               \/ \E counts \in VrefCounts : Loopback(counts)
        PROVE  code' = code
    BY <1>2 DEF MpuInit, CanaryInit, CanaryCheck, CanaryCmd, Fault, RunBist, ClockInit,
                Subsystems, OtherCmd, Loopback
  <1>3. ASSUME NEW i \in Failed, code' = Codes[i], \A j \in 1..6 : j \in Failed => i <= j
        PROVE  CodeNamesFirstFailure'
    <2>1. \A j \in Failed : i <= j
      BY <1>1, <1>3, Checks
    <2> QED  BY <1>1, <1>3, <2>1, RunEnds
  <1>4. CASE check_stack_canary
    <2>1. code' = code \/ (HealthAddr \in board.bad /\ code' = 1)
      BY <1>4 DEF check_stack_canary, Check, CodeOf
    <2>2. CASE HealthAddr \in board.bad /\ code' = 1
      <3>1. 1 \in Failed /\ code' = Codes[1]
        BY <1>1, <2>2, Checks
      <3> QED  BY <1>3, <3>1
    <2> QED  BY <1>1, <2>1, <2>2, RunEnds
  <1>5. CASE check_ram
    <2>1. code' = code \/ (TestWords \cap board.bad # {} /\ code' = 2)
      BY <1>5 DEF check_ram, Check, CodeOf
    <2>2. HealthAddr \notin board.bad
      BY <1>5 DEF check_ram, Check, Goes, CodeInv, Progress
    <2>3. CASE TestWords \cap board.bad # {} /\ code' = 2
      <3>1. 1 \notin Failed /\ 2 \in Failed /\ code' = Codes[2]
        BY <1>1, <2>2, <2>3, Checks
      <3> QED  BY <1>3, <3>1
    <2> QED  BY <1>1, <2>1, <2>3, RunEnds
  <1>6. CASE check_clock
    <2>1. HealthAddr \notin board.bad /\ TestWords \cap board.bad = {}
      BY <1>6 DEF check_clock, Check, Goes, CodeInv, Progress
    <2>2. 1 \notin Failed /\ 2 \notin Failed
      BY <1>1, <2>1, Checks
    <2>3. \/ code' = code
          \/ ~board.sys /\ code' = 4
          \/ board.sys /\ ~board.tim /\ code' = 3
          \/ board.sys /\ board.tim /\ ~board.hclk /\ code' = 5
      BY <1>6 DEF check_clock, Check, ClockError, CodeOf
    <2>4. CASE ~board.sys /\ code' = 4
      <3>1. 3 \in Failed /\ code' = Codes[3]
        BY <1>1, <2>4, Checks
      <3> QED  BY <1>3, <2>2, <3>1
    <2>5. CASE board.sys /\ ~board.tim /\ code' = 3
      <3>1. 3 \notin Failed /\ 4 \in Failed /\ code' = Codes[4]
        BY <1>1, <2>5, Checks
      <3> QED  BY <1>3, <2>2, <3>1
    <2>6. CASE board.sys /\ board.tim /\ ~board.hclk /\ code' = 5
      <3>1. 3 \notin Failed /\ 4 \notin Failed /\ 5 \in Failed /\ code' = Codes[5]
        BY <1>1, <2>6, Checks
      <3> QED  BY <1>3, <2>2, <3>1
    <2> QED  BY <1>1, <2>3, <2>4, <2>5, <2>6, RunEnds
  <1>7. CASE stability_check
    <2>1. /\ HealthAddr \notin board.bad /\ TestWords \cap board.bad = {}
          /\ board.sys /\ board.tim /\ board.hclk
      BY <1>7 DEF stability_check, Goes, CodeInv, Progress
    <2>2. 1 \notin Failed /\ 2 \notin Failed /\ 3 \notin Failed /\ 4 \notin Failed /\ 5 \notin Failed
      BY <1>1, <2>1, Checks
    <2>3. code' = IF board.faulty = 0 THEN 0 ELSE 17
      BY <1>7 DEF stability_check, CodeOf
    <2>4. CASE board.faulty = 0
      <3>1. 6 \notin Failed /\ Failed \subseteq 1..6
        BY <1>1, <2>4, Checks
      <3>2. Failed = {}
        BY <2>2, <3>1
      <3> QED  BY <1>1, <2>3, <2>4, <3>2, RunEnds
    <2>5. CASE board.faulty # 0
      <3>1. 6 \in Failed /\ code' = Codes[6]
        BY <1>1, <2>3, <2>5, Checks
      <3> QED  BY <1>3, <2>2, <3>1
    <2> QED  BY <2>4, <2>5
  <1> QED  BY <1>1, <1>2, <1>4, <1>5, <1>6, <1>7, RunEnds DEF BootNext

\* For every board: the code for the host names what fails first, and a sound
\* code means that all the checks passed.
THEOREM CodeIsFirstFailure == BootSpec => []CodeNamesFirstFailure
  <1>1. BootInit => BootInv /\ Progress /\ CodeNamesFirstFailure
    <2> SUFFICES ASSUME BootInit PROVE Progress /\ CodeNamesFirstFailure
      BY BootInitInv
    <2> QED  BY DEF BootInit, Progress, CodeNamesFirstFailure, NotRun
  <1>2. BootInv /\ Progress /\ CodeNamesFirstFailure /\ [BootNext]_bootVars
          => BootInv' /\ Progress' /\ CodeNamesFirstFailure'
    <2> SUFFICES ASSUME BootInv, Progress, CodeNamesFirstFailure, [BootNext]_bootVars
                 PROVE  Progress' /\ CodeNamesFirstFailure'
      BY BootNextInv
    <2>1. CodeInv
      BY DEF CodeInv, BootInv
    <2>2. CASE BootNext
      BY <2>1, <2>2, ProgressInv, CodeStep
    <2>3. CASE UNCHANGED bootVars
      BY <2>3 DEF bootVars, Progress, CodeNamesFirstFailure, Broken
    <2> QED  BY <2>2, <2>3
  <1> QED  BY <1>1, <1>2, PTL DEF BootSpec

-----------------------------------------------------------------------------
\* A reference voltage that is accepted gives a temperature of -90 at most.
LEMMA PlausibleIsCold ==
    ASSUME NEW c \in VrefCounts, c - VREFINT_EXPECTED \in (-VREFINT_TOL)..VREFINT_TOL
    PROVE  temp_c(MilliVolts(c)) \notin (-25)..125
  <1>1. c \in 0..4095
    BY BootAssumption
  <1>2. c \in 1302..1702
    BY <1>1 DEF VREFINT_EXPECTED, VREFINT_TOL
  <1>3. MilliVolts(c) \in 1049..1371
    BY <1>2 DEF MilliVolts
  <1>4. \A m \in 1049..1371 : temp_c(m) <= -90 /\ temp_c(m) \in Int
    BY DEF temp_c, Quotient
  <1> DEFINE t == temp_c(MilliVolts(c))
  <1>5. t <= -90 /\ t \in Int
    BY <1>3, <1>4
  <1> HIDE DEF t
  <1>6. t \notin (-25)..125
    BY <1>5
  <1> QED  BY <1>6 DEF t

Captured == loopback = <<>> \/ \E c \in VrefCounts : loopback = <<c>>

\* No reading passes both tests of the loopback.
NoReadingPasses == \A i \in DOMAIN loopback : ~(vrefint_ok(loopback[i]) /\ temp_ok(loopback[i]))

\* Whatever the ADC reads, the loopback does not find both of its readings
\* plausible: what NominalReadingPasses finds of one is so of them all.
THEOREM LoopbackNeverPlausible == BootSpec => []NoReadingPasses
  <1>1. BootInit => Captured
    BY DEF BootInit, Captured
  <1>2. Captured /\ [BootNext]_bootVars => Captured'
    <2> SUFFICES ASSUME Captured, [BootNext]_bootVars PROVE Captured'
      OBVIOUS
    <2>1. ASSUME NEW c \in VrefCounts, Loopback(c) PROVE Captured'
      BY <2>1 DEF Loopback, Captured
    <2>2. CASE UNCHANGED loopback
      BY <2>2 DEF Captured
    <2> QED
      BY <2>1, <2>2 DEF BootNext, bootVars, MpuInit, ClockInit, CanaryInit, CanaryCheck,
            Subsystems, CanaryCmd, OtherCmd, Fault, RunBist, check_stack_canary,
            check_ram, check_clock, stability_check, Check
  <1>3. Captured => NoReadingPasses
    <2>1. ASSUME NEW c \in VrefCounts, loopback = <<c>> PROVE NoReadingPasses
      <3>1. loopback[1] = c /\ DOMAIN loopback = {1}
        BY <2>1
      <3> SUFFICES ASSUME NEW i \in DOMAIN loopback,
                          loopback[i] - VREFINT_EXPECTED \in (-VREFINT_TOL)..VREFINT_TOL,
                          temp_c(MilliVolts(loopback[i])) \in (-25)..125
                   PROVE  FALSE
        BY DEF NoReadingPasses, vrefint_ok, temp_ok
      <3>2. loopback[i] = c
        BY <3>1
      <3> QED  BY <3>2, PlausibleIsCold
    <2>2. CASE loopback = <<>>
      <3>1. DOMAIN loopback = {}
        BY <2>2
      <3> QED  BY <3>1 DEF NoReadingPasses
    <2> QED  BY <2>1, <2>2 DEF Captured
  <1> QED  BY <1>1, <1>2, <1>3, PTL DEF BootSpec

-----------------------------------------------------------------------------
(* UsbLink.                                                                  *)

Outs == {None} \cup {Packet(n) : n \in Nat} \cup {Reply(c, p) : c \in Queries, p \in Nat}

Reception == [n : Nat, unplugs : Nat]
Answer    == [to : Queries, place : Nat]

\* The variables that the properties depend on have their types. What an
\* endpoint holds is gone with its connection.
UsbTypeOK ==
    /\ produced \in Nat /\ unplugs \in Nat
    /\ pc \in {"wait", "read", "reading", "drain", "write", "writing"}
    /\ out \in Outs /\ fifo \in Outs
    /\ out # None <=> pc \in {"write", "writing"}
    /\ ~connected => fifo = None
    /\ channel \in Seq(Nat)
    /\ received \in Seq(Reception) /\ lost \in Seq(Nat)
    /\ asked \in Seq(Queries) /\ answered \in Seq(Answer)

\* How many packets have left the queue and the task's hand.
Gone == produced - Len(channel) - Len(InHand)

\* What is queued are the last packets produced, behind the one in hand.
Queued ==
    /\ Len(channel) + Len(InHand) <= produced
    /\ \A i \in 1..Len(channel) : channel[i] = produced - Len(channel) + i
    /\ InHand # <<>> => out.n = produced - Len(channel)

\* What has gone behind the packet in the endpoint was refused.
InEndpointLast ==
    fifo.what = "packet" => fifo.n <= Gone /\ (fifo.n + 1)..Gone \subseteq TooLong

\* What has gone behind the last packet received is in the endpoint or was
\* refused, or else the connection has ended since.
LastReceived ==
    received # <<>> =>
        LET last == received[Len(received)]
        IN  /\ last.n <= Gone /\ last.unplugs <= unplugs
            /\ ~connected => last.unplugs < unplugs
            /\ fifo.what = "packet" => last.n < fifo.n
            /\ last.unplugs = unplugs =>
                   \A k \in (last.n + 1)..Gone :
                       k \in TooLong \/ (fifo.what = "packet" /\ k = fifo.n)

\* The replies in hand and in the endpoint are those to their queries, in order.
RepliesInOrder ==
    /\ out.what = "reply" => out.place = Len(asked) /\ out.place >= 1
                             /\ out.to = asked[out.place]
    /\ fifo.what = "reply" => fifo.place \in 1..(Len(asked) - InFlight(out))
                              /\ fifo.to = asked[fifo.place]
    /\ \A i \in DOMAIN answered :
           /\ answered[i].place \in 1..(Len(asked) - InFlight(out))
           /\ answered[i].to = asked[answered[i].place]
           /\ fifo.what = "reply" => answered[i].place < fifo.place
    /\ \A i, j \in DOMAIN answered : i < j => answered[i].place < answered[j].place

\* While a pulled cable has not been noticed, one of the two is still to be lost.
Losses == Len(lost) + Len(asked) - InFlight(out) - InFlight(fifo) - Len(answered)

LossesPaid ==
    /\ Losses <= 2 * unplugs
    /\ ~connected /\ pc # "wait" => Losses < 2 * unplugs

UsbInv ==
    /\ UsbTypeOK /\ Queued /\ InEndpointLast /\ LastReceived /\ GapsOnlyAcrossUnplug
    /\ RepliesInOrder /\ LossesPaid

-----------------------------------------------------------------------------
\* What the task may have in hand, or the endpoint hold.
LEMMA Items ==
    ASSUME NEW item \in Outs
    PROVE  \/ /\ item = None /\ PacketIn(item) = <<>> /\ InFlight(item) = 0
              /\ item.what = "none"
           \/ /\ item # None /\ item.what = "packet" /\ item.n \in Nat
              /\ PacketIn(item) = <<item.n>> /\ InFlight(item) = 0
           \/ /\ item # None /\ item.what = "reply" /\ item.to \in Queries /\ item.place \in Nat
              /\ PacketIn(item) = <<>> /\ InFlight(item) = 1
  <1>1. CASE item = None
    BY <1>1 DEF None, PacketIn, InFlight
  <1>2. CASE \E n \in Nat : item = Packet(n)
    <2>1. item # None
      BY <1>2 DEF Packet, None
    <2> QED  BY <1>2, <2>1 DEF Packet, PacketIn, InFlight
  <1>3. CASE \E c \in Queries, p \in Nat : item = Reply(c, p)
    <2>1. item # None
      BY <1>3 DEF Reply, None
    <2> QED  BY <1>3, <2>1 DEF Reply, PacketIn, InFlight
  <1> QED  BY <1>1, <1>2, <1>3 DEF Outs

\* The same of the two places.
LEMMA Hands ==
    ASSUME UsbTypeOK
    PROVE  /\ \/ /\ out = None /\ InHand = <<>> /\ InFlight(out) = 0
                 /\ out.what = "none"
              \/ /\ out # None /\ out.what = "packet" /\ out.n \in Nat
                 /\ InHand = <<out.n>> /\ InFlight(out) = 0
              \/ /\ out # None /\ out.what = "reply" /\ out.to \in Queries /\ out.place \in Nat
                 /\ InHand = <<>> /\ InFlight(out) = 1
           /\ \/ /\ fifo = None /\ InEndpoint = <<>> /\ InFlight(fifo) = 0
                 /\ fifo.what = "none"
              \/ /\ fifo # None /\ fifo.what = "packet" /\ fifo.n \in Nat
                 /\ InEndpoint = <<fifo.n>> /\ InFlight(fifo) = 0
              \/ /\ fifo # None /\ fifo.what = "reply" /\ fifo.to \in Queries
                 /\ fifo.place \in Nat /\ InEndpoint = <<>> /\ InFlight(fifo) = 1
  <1>1. out \in Outs /\ fifo \in Outs
    BY DEF UsbTypeOK
  <1> QED  BY <1>1, Items DEF InHand, InEndpoint

\* Nothing is no packet and no reply.
LEMMA Nothing ==
    /\ None \in Outs /\ None.what = "none" /\ PacketIn(None) = <<>> /\ InFlight(None) = 0
  BY DEF Outs, None, PacketIn, InFlight

\* The last element of a sequence is of the sequence's type.
LEMMA LastIn ==
    ASSUME NEW S, NEW s \in Seq(S), s # <<>>
    PROVE  s[Len(s)] \in S /\ Len(s) \in DOMAIN s
  OBVIOUS

\* A sequence of one element.
LEMMA SingleSeq ==
    ASSUME NEW S, NEW s \in Seq(S), Len(s) = 1
    PROVE  s = <<s[1]>>
  OBVIOUS

\* The last packet received has its types.
LEMMA LastIs ==
    ASSUME UsbTypeOK, received # <<>>
    PROVE  received[Len(received)].n \in Nat /\ received[Len(received)].unplugs \in Nat
  <1>1. received[Len(received)] \in Reception
    BY LastIn DEF UsbTypeOK
  <1> QED  BY <1>1 DEF Reception

\* At first there is nothing anywhere.
LEMMA UsbInitInv == UsbInit => UsbInv
  <1> SUFFICES ASSUME UsbInit PROVE UsbInv
    OBVIOUS
  <1>1. out = None /\ fifo = None /\ InHand = <<>>
    BY Nothing DEF UsbInit, InHand
  <1>2. UsbTypeOK
    <2>1. <<>> \in Seq(Nat) /\ <<>> \in Seq(Reception) /\ <<>> \in Seq(Queries)
          /\ <<>> \in Seq(Answer)
      OBVIOUS
    <2> QED  BY <1>1, <2>1, Nothing DEF UsbInit, UsbTypeOK
  <1>3. Queued /\ InEndpointLast /\ LastReceived
    BY <1>1, Nothing DEF UsbInit, Queued, InEndpointLast, LastReceived
  <1>4. GapsOnlyAcrossUnplug
    BY DEF UsbInit, GapsOnlyAcrossUnplug
  <1>5. RepliesInOrder /\ LossesPaid
    BY <1>1, Nothing DEF UsbInit, RepliesInOrder, LossesPaid, Losses
  <1> QED  BY <1>2, <1>3, <1>4, <1>5 DEF UsbInv

\* A step that touches no packet keeps what is known of them.
LEMMA PacketsKept ==
    ASSUME UsbInv, UNCHANGED <<channel, produced, received, unplugs>>,
           InHand' = InHand, InHand # <<>> => out' = out,
           fifo' = fifo \/ (fifo.what # "packet" /\ fifo'.what # "packet"),
           connected' = connected \/ connected'
    PROVE  Queued' /\ InEndpointLast' /\ LastReceived' /\ GapsOnlyAcrossUnplug'
  <1>1. Gone' = Gone
    BY DEF Gone
  <1>2. fifo.what = "packet" \/ fifo'.what = "packet" => fifo' = fifo
    OBVIOUS
  <1>3. Queued'
    BY DEF UsbInv, Queued
  <1>4. InEndpointLast'
    BY <1>1, <1>2 DEF UsbInv, InEndpointLast
  <1>5. LastReceived'
    BY <1>1, <1>2 DEF UsbInv, LastReceived
  <1>6. GapsOnlyAcrossUnplug'
    BY DEF UsbInv, GapsOnlyAcrossUnplug
  <1> QED  BY <1>3, <1>4, <1>5, <1>6

\* A step that touches no query keeps what is known of them.
LEMMA QueriesKept ==
    ASSUME UsbInv, UNCHANGED <<asked, answered, lost, unplugs>>,
           InFlight(out)' = InFlight(out), InFlight(fifo)' = InFlight(fifo),
           out'.what = "reply" => out.what = "reply" /\ out' = out,
           fifo'.what = "reply" => fifo.what = "reply" /\ fifo' = fifo,
           connected' \/ (connected' = connected /\ (pc' # "wait" => pc # "wait"))
    PROVE  RepliesInOrder' /\ LossesPaid'
  <1>1. Losses' = Losses
    BY DEF Losses
  <1>2. RepliesInOrder'
    BY DEF UsbInv, RepliesInOrder
  <1>3. LossesPaid'
    BY <1>1 DEF UsbInv, LossesPaid
  <1> QED  BY <1>2, <1>3
-----------------------------------------------------------------------------
\* The steps that leave the queue and what is in hand alone.
LEMMA QuietInv ==
    ASSUME UsbInv,
           \/ PlugIn \/ \E c \in Commands : HostSends(c)
           \/ WaitConnection \/ ReadPends \/ ReadFails \/ Drained \/ WritePends
    PROVE  UsbInv'
  <1>1. UNCHANGED <<channel, produced, received, asked, answered, lost, out, fifo, unplugs>>
    BY DEF PlugIn, HostSends, WaitConnection, ReadPends, ReadFails, Drained, WritePends,
           hostVars, history
  <1>2. InHand' = InHand /\ InFlight(out)' = InFlight(out) /\ InFlight(fifo)' = InFlight(fifo)
    BY <1>1 DEF InHand, PacketIn, InFlight
  <1>3. \/ connected'
        \/ connected' = connected /\ (pc' # "wait" => pc # "wait")
    BY DEF PlugIn, HostSends, WaitConnection, ReadPends, ReadFails, Drained, WritePends,
           hostVars, history
  <1>4. UsbTypeOK'
    <2>1. /\ pc' \in {"wait", "read", "reading", "drain", "write", "writing"}
          /\ pc' \in {"write", "writing"} <=> pc \in {"write", "writing"}
      BY DEF UsbInv, UsbTypeOK, PlugIn, HostSends, WaitConnection, ReadPends,
             ReadFails, Drained, WritePends, hostVars, history
    <2> QED  BY <1>1, <1>3, <2>1 DEF UsbInv, UsbTypeOK
  <1> QED  BY <1>1, <1>2, <1>3, <1>4, PacketsKept, QueriesKept DEF UsbInv

\* A packet joins the end of the queue.
LEMMA ProduceInv == UsbInv /\ Produce => UsbInv'
  <1> SUFFICES ASSUME UsbInv, Produce PROVE UsbInv'
    OBVIOUS
  <1>1. /\ produced' = produced + 1 /\ channel' = Append(channel, produced + 1)
        /\ UNCHANGED <<connected, unplugs, pc, out, fifo, received, asked, answered, lost>>
    BY DEF Produce, hostVars, history
  <1>2. /\ produced \in Nat /\ channel \in Seq(Nat) /\ Len(InHand) \in Nat
        /\ InHand' = InHand
        /\ InFlight(out)' = InFlight(out) /\ InFlight(fifo)' = InFlight(fifo)
    BY <1>1, Hands DEF UsbInv, UsbTypeOK, InHand, PacketIn, InFlight
  <1>3. /\ channel' \in Seq(Nat) /\ Len(channel') = Len(channel) + 1
        /\ \A i \in 1..Len(channel) : channel'[i] = channel[i]
        /\ channel'[Len(channel) + 1] = produced + 1
    BY <1>1, <1>2
  <1>4. UsbTypeOK'
    BY <1>1, <1>2, <1>3 DEF UsbInv, UsbTypeOK
  <1>5. Queued'
    <2>1. Len(channel) \in Nat /\ produced' - Len(channel') = produced - Len(channel)
      BY <1>1, <1>2, <1>3
    <2>2. Len(channel') + Len(InHand') <= produced'
      BY <1>1, <1>2, <1>3, <2>1 DEF UsbInv, Queued
    <2>3. InHand' # <<>> => out'.n = produced' - Len(channel')
      BY <1>1, <1>2, <2>1 DEF UsbInv, Queued
    <2>4. ASSUME NEW i \in 1..Len(channel')
          PROVE  channel'[i] = produced' - Len(channel') + i
      <3>1. CASE i \in 1..Len(channel)
        BY <1>3, <2>1, <3>1 DEF UsbInv, Queued
      <3>2. CASE i = Len(channel) + 1
        BY <1>1, <1>2, <1>3, <2>1, <3>2
      <3> QED  BY <1>3, <2>1, <3>1, <3>2
    <2> QED  BY <2>2, <2>3, <2>4 DEF Queued
  <1>6. Gone' = Gone
    BY <1>1, <1>2, <1>3 DEF Gone
  <1>7. InEndpointLast' /\ LastReceived' /\ GapsOnlyAcrossUnplug'
    BY <1>1, <1>6 DEF UsbInv, InEndpointLast, LastReceived, GapsOnlyAcrossUnplug
  <1> QED  BY <1>1, <1>2, <1>4, <1>5, <1>7, QueriesKept DEF UsbInv

\* A query is answered next, and it is the last that was asked.
LEMMA ReadCommandInv == UsbInv /\ ReadCommand => UsbInv'
  <1> SUFFICES ASSUME UsbInv, ReadCommand PROVE UsbInv'
    OBVIOUS
  <1>1. /\ UNCHANGED <<connected, fifo, unplugs, channel, produced, received, lost, answered>>
        /\ connected /\ pc \in {"read", "reading"} /\ pc \notin {"write", "writing"}
    BY DEF ReadCommand
  <1>2. out = None /\ InHand = <<>> /\ InFlight(out) = 0 /\ InFlight(fifo)' = InFlight(fifo)
    BY <1>1, Nothing DEF UsbInv, UsbTypeOK, InHand, InFlight
  <1>3. CASE command[1] \in Queries
    <2> DEFINE c == command[1]
    <2>1. /\ pc' = "write" /\ out' = Reply(c, Len(asked) + 1) /\ asked' = Append(asked, c)
          /\ c \in Queries
      BY <1>3 DEF ReadCommand
    <2> HIDE DEF c
    <2>2. asked \in Seq(Queries) /\ Len(asked) \in Nat
      BY DEF UsbInv, UsbTypeOK
    <2>3. /\ InHand' = <<>> /\ InFlight(out)' = 1 /\ out'.what = "reply" /\ out'.to = c
          /\ out'.place = Len(asked) + 1 /\ out' \in Outs /\ out' # None
      BY <2>1, <2>2 DEF Reply, InHand, PacketIn, InFlight, Outs, None
    <2>4. /\ asked' \in Seq(Queries) /\ Len(asked') = Len(asked) + 1
          /\ asked'[Len(asked')] = c /\ \A i \in 1..Len(asked) : asked'[i] = asked[i]
      BY <2>1, <2>2
    <2>5. UsbTypeOK'
      BY <1>1, <2>1, <2>3, <2>4 DEF UsbInv, UsbTypeOK
    <2>6. Queued' /\ InEndpointLast' /\ LastReceived' /\ GapsOnlyAcrossUnplug'
      BY <1>1, <1>2, <2>3, PacketsKept
    <2>7. Len(asked') - InFlight(out)' = Len(asked) - InFlight(out)
      BY <1>2, <2>2, <2>3, <2>4
    <2>8. /\ fifo.what = "reply" => fifo.place \in 1..Len(asked)
          /\ \A i \in DOMAIN answered : answered[i].place \in 1..Len(asked)
      BY <1>2, <2>2 DEF UsbInv, RepliesInOrder
    <2>9. out'.place = Len(asked') /\ out'.place >= 1 /\ out'.to = asked'[out'.place]
      BY <2>2, <2>3, <2>4
    <2>10. RepliesInOrder'
      BY <1>1, <2>4, <2>7, <2>8, <2>9 DEF UsbInv, RepliesInOrder
    <2>11. LossesPaid'
      <3>1. Losses' = Losses
        <4>1. lost \in Seq(Nat) /\ answered \in Seq(Answer)
          BY DEF UsbInv, UsbTypeOK
        <4>2. InFlight(fifo) \in Nat
          BY DEF InFlight
        <4> QED  BY <1>1, <1>2, <2>2, <2>3, <2>4, <4>1, <4>2 DEF Losses
      <3> QED  BY <1>1, <3>1 DEF UsbInv, LossesPaid
    <2> QED  BY <2>5, <2>6, <2>10, <2>11 DEF UsbInv
  <1>4. CASE command[1] \notin Queries
    <2>1. pc' = "drain" /\ out' = out /\ asked' = asked
      BY <1>4 DEF ReadCommand, BehindIgnored
    <2>2. InHand' = InHand /\ InFlight(out)' = InFlight(out)
      BY <2>1 DEF InHand, PacketIn, InFlight
    <2>3. UsbTypeOK'
      BY <1>1, <1>2, <2>1 DEF UsbInv, UsbTypeOK
    <2> QED
      BY <1>1, <1>2, <2>1, <2>2, <2>3, PacketsKept, QueriesKept DEF UsbInv
  <1> QED  BY <1>3, <1>4

\* The oldest packet goes from the queue into the task's hand.
LEMMA ForwardInv == UsbInv /\ Forward => UsbInv'
  <1> SUFFICES ASSUME UsbInv, Forward PROVE UsbInv'
    OBVIOUS
  <1>1. /\ channel # <<>> /\ channel' = Tail(channel) /\ out' = Packet(Head(channel))
        /\ pc = "drain" /\ pc' = "write"
        /\ UNCHANGED <<connected, fifo, unplugs, produced, received, asked, answered, lost>>
    BY DEF Forward, hostVars, history
  <1>2. /\ out = None /\ InHand = <<>> /\ InFlight(out) = 0
        /\ InFlight(fifo)' = InFlight(fifo)
    BY <1>1, Nothing DEF UsbInv, UsbTypeOK, InHand, InFlight
  <1>3. channel \in Seq(Nat) /\ produced \in Nat
    BY DEF UsbInv, UsbTypeOK
  <1>4. /\ channel' \in Seq(Nat) /\ Len(channel') = Len(channel) - 1 /\ Len(channel) \in Nat
        /\ Head(channel) = channel[1] /\ Head(channel) \in Nat /\ Len(channel) >= 1
        /\ \A i \in 1..Len(channel') : channel'[i] = channel[i + 1]
    BY <1>1, <1>3
  <1>5. /\ InHand' = <<channel[1]>> /\ InFlight(out)' = 0 /\ out'.what = "packet"
        /\ out'.n = channel[1] /\ out' \in Outs /\ out' # None
    BY <1>1, <1>4 DEF Packet, InHand, PacketIn, InFlight, Outs, None
  <1>6. UsbTypeOK'
    BY <1>1, <1>4, <1>5 DEF UsbInv, UsbTypeOK
  <1>7. Len(InHand') = 1 /\ Len(InHand) = 0
    BY <1>2, <1>5
  <1>8. /\ Len(channel) <= produced
        /\ \A i \in 1..Len(channel) : channel[i] = produced - Len(channel) + i
    BY <1>2, <1>4 DEF UsbInv, Queued
  <1>9. Queued'
    <2>1. Len(channel') + Len(InHand') <= produced'
      BY <1>1, <1>3, <1>4, <1>7, <1>8
    <2>2. ASSUME NEW i \in 1..Len(channel')
          PROVE  channel'[i] = produced' - Len(channel') + i
      BY <1>1, <1>3, <1>4, <1>8
    <2>3. out'.n = produced' - Len(channel')
      BY <1>1, <1>3, <1>4, <1>5, <1>8
    <2> QED  BY <2>1, <2>2, <2>3 DEF Queued
  <1>10. Gone' = Gone
    BY <1>1, <1>3, <1>4, <1>7 DEF Gone
  <1>11. InEndpointLast' /\ LastReceived' /\ GapsOnlyAcrossUnplug'
    BY <1>1, <1>10 DEF UsbInv, InEndpointLast, LastReceived, GapsOnlyAcrossUnplug
  <1>12. RepliesInOrder' /\ LossesPaid'
    BY <1>1, <1>2, <1>5, QueriesKept
  <1> QED  BY <1>6, <1>9, <1>11, <1>12 DEF UsbInv

\* What was in hand has gone: the queue is behind it.
LEMMA HandGone ==
    ASSUME UsbInv, InHand # <<>>, InHand' = <<>>, UNCHANGED <<channel, produced>>
    PROVE  Queued' /\ Gone' = Gone + 1 /\ Gone \in Nat /\ out.n = Gone + 1
  <1>1. Len(InHand) = 1 /\ Len(InHand') = 0
    BY Hands DEF UsbInv
  <1>2. channel \in Seq(Nat) /\ produced \in Nat /\ Len(channel) \in Nat
    BY DEF UsbInv, UsbTypeOK
  <1> QED  BY <1>1, <1>2 DEF UsbInv, Queued, Gone

\* What was in hand is in the endpoint: the packet is the last to have gone, and
\* the reply is behind all others.
LEMMA WriteOkInv == UsbInv /\ WriteOk => UsbInv'
  <1> SUFFICES ASSUME UsbInv, WriteOk PROVE UsbInv'
    OBVIOUS
  <1>1. /\ pc \in {"write", "writing"} /\ connected /\ fifo = None /\ pc' = "drain"
        /\ fifo' = out /\ out' = None
        /\ UNCHANGED <<connected, unplugs, channel, produced, received, lost, asked, answered>>
    BY DEF WriteOk, history
  <1>2. /\ InHand' = <<>> /\ InFlight(out)' = 0 /\ InFlight(fifo)' = InFlight(out)
        /\ InFlight(fifo) = 0 /\ out'.what = "none" /\ out' \in Outs /\ fifo.what = "none"
        /\ fifo' \in Outs
    BY <1>1, Nothing DEF InHand, InFlight, UsbInv, UsbTypeOK
  <1>3. UsbTypeOK'
    BY <1>1, <1>2 DEF UsbInv, UsbTypeOK
  <1>4. Queued' /\ InEndpointLast' /\ LastReceived' /\ GapsOnlyAcrossUnplug'
    <2>1. CASE out.what = "packet"
      <3>1. InHand # <<>> /\ fifo'.what = "packet" /\ fifo'.n = out.n
        BY <1>1, <2>1, Hands DEF UsbInv
      <3>2. Queued' /\ Gone' = Gone + 1 /\ Gone \in Nat /\ fifo'.n = Gone'
        BY <1>1, <1>2, <3>1, HandGone
      <3>3. InEndpointLast'
        BY <3>2 DEF InEndpointLast
      <3>4. LastReceived'
        <4> SUFFICES ASSUME received # <<>>
                     PROVE  LET last == received[Len(received)]
                            IN  /\ last.n <= Gone' /\ last.unplugs <= unplugs
                                /\ last.n < fifo'.n
                                /\ last.unplugs = unplugs =>
                                     \A k \in (last.n + 1)..Gone' : k \in TooLong \/ k = fifo'.n
          BY <1>1, <3>1 DEF LastReceived
        <4> DEFINE last == received[Len(received)]
        <4>1. last.n \in Nat
          BY LastIs DEF UsbInv
        <4>2. /\ last.n <= Gone /\ last.unplugs <= unplugs
              /\ last.unplugs = unplugs => \A k \in (last.n + 1)..Gone : k \in TooLong
          BY <1>2 DEF UsbInv, LastReceived
        <4> HIDE DEF last
        <4> QED  BY <3>2, <4>1, <4>2 DEF last
      <3>5. GapsOnlyAcrossUnplug'
        BY <1>1 DEF UsbInv, GapsOnlyAcrossUnplug
      <3> QED  BY <3>2, <3>3, <3>4, <3>5
    <2>2. CASE out.what # "packet"
      <3>1. InHand = <<>> /\ fifo'.what # "packet" /\ fifo.what # "packet"
        BY <1>1, <1>2, <2>2, Hands DEF UsbInv
      <3> QED  BY <1>1, <1>2, <3>1, PacketsKept
    <2> QED  BY <2>1, <2>2
  <1>5. RepliesInOrder'
    <2>1. asked \in Seq(Queries) /\ Len(asked) \in Nat
      BY DEF UsbInv, UsbTypeOK
    <2>2. \A i \in DOMAIN answered :
             answered[i].place \in 1..(Len(asked) - InFlight(out))
      BY DEF UsbInv, RepliesInOrder
    <2>3. CASE out.what = "reply"
      <3>1. /\ fifo'.what = "reply" /\ fifo'.place = Len(asked) /\ fifo'.place >= 1
            /\ fifo'.to = asked[fifo'.place] /\ InFlight(out) = 1
        BY <1>1, <2>3 DEF UsbInv, RepliesInOrder, InFlight
      <3>2. fifo'.place \in 1..Len(asked)
        BY <2>1, <3>1
      <3>3. \A i \in DOMAIN answered :
               answered[i].place \in 1..Len(asked) /\ answered[i].place < fifo'.place
        BY <2>1, <2>2, <3>1
      <3>4. Len(asked') - InFlight(out)' = Len(asked)
        BY <1>1, <1>2, <2>1
      <3> QED  BY <1>1, <1>2, <3>1, <3>2, <3>3, <3>4 DEF UsbInv, RepliesInOrder
    <2>4. CASE out.what # "reply"
      <3>1. InFlight(out) = 0 /\ fifo'.what # "reply"
        BY <1>1, <2>4 DEF InFlight
      <3> QED  BY <1>1, <1>2, <3>1 DEF UsbInv, RepliesInOrder
    <2> QED  BY <2>3, <2>4
  <1>6. LossesPaid'
    <2>1. Losses' = Losses
      <3>1. InFlight(out) \in Nat /\ asked \in Seq(Queries) /\ lost \in Seq(Nat)
            /\ answered \in Seq(Answer)
        BY DEF InFlight, UsbInv, UsbTypeOK
      <3> QED  BY <1>1, <1>2, <3>1 DEF Losses
    <2> QED  BY <1>1, <2>1 DEF UsbInv, LossesPaid
  <1> QED  BY <1>3, <1>4, <1>5, <1>6 DEF UsbInv

\* The packet polled is the next but for those refused, unless a connection has
\* ended since the one before.
LEMMA PollPacket ==
    ASSUME UsbInv, Poll, fifo.what = "packet"
    PROVE  UsbInv'
  <1>1. /\ received' = Append(received, [n |-> fifo.n, unplugs |-> unplugs])
        /\ fifo # None /\ fifo' = None /\ connected
        /\ UNCHANGED <<connected, unplugs, pc, out, channel, produced, lost, asked, answered>>
    BY DEF Poll
  <1>2. /\ InHand' = InHand /\ InFlight(out)' = InFlight(out)
        /\ InFlight(fifo) = 0 /\ InFlight(fifo)' = 0 /\ fifo'.what = "none" /\ fifo' \in Outs
        /\ fifo.n \in Nat
    BY <1>1, Nothing, Hands DEF UsbInv, InHand, PacketIn, InFlight
  <1>3. /\ received \in Seq(Reception) /\ unplugs \in Nat
        /\ [n |-> fifo.n, unplugs |-> unplugs] \in Reception
    BY <1>2 DEF UsbInv, UsbTypeOK, Reception
  <1>4. /\ received' \in Seq(Reception) /\ Len(received') = Len(received) + 1
        /\ Len(received) \in Nat /\ received' # <<>>
        /\ received'[Len(received) + 1].n = fifo.n
        /\ received'[Len(received) + 1].unplugs = unplugs
        /\ \A i \in 1..Len(received) : received'[i] = received[i]
    BY <1>1, <1>3
  <1>5. UsbTypeOK'
    BY <1>1, <1>2, <1>4 DEF UsbInv, UsbTypeOK
  <1>6. Gone' = Gone /\ Queued' /\ InEndpointLast'
    BY <1>1, <1>2 DEF UsbInv, Gone, Queued, InEndpointLast
  <1>7. fifo.n <= Gone /\ (fifo.n + 1)..Gone \subseteq TooLong
    BY DEF UsbInv, InEndpointLast
  <1>8. LastReceived'
    <2>1. /\ received'[Len(received')].n = fifo.n /\ received'[Len(received')].unplugs = unplugs
      BY <1>4
    <2> QED  BY <1>1, <1>3, <1>6, <1>7, <1>2, <2>1 DEF LastReceived
  <1>9. GapsOnlyAcrossUnplug'
    <2> SUFFICES ASSUME NEW i \in 1..Len(received)
                 PROVE  LET a == received'[i]
                            b == received'[i + 1]
                        IN  /\ a.n < b.n
                            /\ a.unplugs = b.unplugs => (a.n + 1)..(b.n - 1) \subseteq TooLong
      BY <1>4 DEF GapsOnlyAcrossUnplug
    <2>1. CASE i < Len(received)
      <3>1. received'[i] = received[i] /\ received'[i + 1] = received[i + 1]
        BY <1>4, <2>1
      <3> QED  BY <1>4, <2>1, <3>1 DEF UsbInv, GapsOnlyAcrossUnplug
    <2>2. CASE i = Len(received)
      <3> DEFINE last == received[Len(received)]
      <3>1. received # <<>> /\ last.n \in Nat
        BY <1>4, <2>2, LastIs DEF UsbInv
      <3>2. /\ last.n < fifo.n
            /\ last.unplugs = unplugs =>
                 \A k \in (last.n + 1)..Gone : k \in TooLong \/ k = fifo.n
        BY <3>1 DEF UsbInv, LastReceived
      <3>3. /\ received'[i] = last /\ received'[i + 1].n = fifo.n
            /\ received'[i + 1].unplugs = unplugs
        BY <1>4, <2>2
      <3> HIDE DEF last
      <3>4. Gone \in Int
        <4>1. Len(InHand) \in Nat /\ channel \in Seq(Nat) /\ produced \in Nat
          BY Hands DEF UsbInv, UsbTypeOK
        <4> QED  BY <4>1 DEF Gone
      <3>5. ASSUME last.unplugs = unplugs, NEW k \in (last.n + 1)..(fifo.n - 1)
            PROVE  k \in TooLong
        BY <1>2, <1>7, <3>1, <3>2, <3>4, <3>5
      <3> QED  BY <3>2, <3>3, <3>5
    <2> QED  BY <1>4, <2>1, <2>2
  <1>10. RepliesInOrder' /\ LossesPaid'
    BY <1>1, <1>2, QueriesKept
  <1> QED  BY <1>5, <1>6, <1>8, <1>9, <1>10 DEF UsbInv

\* The reply polled is behind all others.
LEMMA PollReply ==
    ASSUME UsbInv, Poll, fifo.what # "packet"
    PROVE  UsbInv'
  <1>1. /\ answered' = Append(answered, [to |-> fifo.to, place |-> fifo.place])
        /\ fifo # None /\ fifo' = None /\ connected
        /\ UNCHANGED <<connected, unplugs, pc, out, channel, produced, lost, asked, received>>
    BY DEF Poll
  <1>2. /\ fifo.what = "reply" /\ fifo.to \in Queries /\ fifo.place \in Nat
        /\ InFlight(fifo) = 1
    BY <1>1, Hands DEF UsbInv
  <1>3. /\ InHand' = InHand /\ InFlight(out)' = InFlight(out) /\ InFlight(out) \in Nat
        /\ InFlight(fifo)' = 0 /\ fifo'.what = "none" /\ fifo' \in Outs
    BY <1>1, Nothing DEF InHand, PacketIn, InFlight
  <1>4. /\ asked \in Seq(Queries) /\ answered \in Seq(Answer) /\ lost \in Seq(Nat)
        /\ Len(asked) \in Nat /\ Len(answered) \in Nat /\ Len(lost) \in Nat
    BY DEF UsbInv, UsbTypeOK
  <1>5. /\ answered' \in Seq(Answer) /\ Len(answered') = Len(answered) + 1
        /\ answered'[Len(answered) + 1].place = fifo.place
        /\ answered'[Len(answered) + 1].to = fifo.to
        /\ \A i \in 1..Len(answered) : answered'[i] = answered[i]
        /\ DOMAIN answered' = 1..(Len(answered) + 1) /\ DOMAIN answered = 1..Len(answered)
    <2>1. [to |-> fifo.to, place |-> fifo.place] \in Answer
      BY <1>2 DEF Answer
    <2> QED  BY <1>1, <1>4, <2>1
  <1>6. UsbTypeOK'
    BY <1>1, <1>3, <1>5 DEF UsbInv, UsbTypeOK
  <1>7. Queued' /\ InEndpointLast' /\ LastReceived' /\ GapsOnlyAcrossUnplug'
    BY <1>1, <1>3, PacketsKept
  <1>8. LossesPaid'
    <2>1. Losses' = Losses
      <3>1. /\ Len(lost)' = Len(lost) /\ Len(asked)' = Len(asked)
            /\ Len(answered)' = Len(answered) + 1 /\ InFlight(out)' = InFlight(out)
            /\ InFlight(fifo)' = 0 /\ InFlight(fifo) = 1
        BY <1>1, <1>2, <1>3, <1>5
      <3>2. /\ Len(lost) \in Nat /\ Len(asked) \in Nat /\ Len(answered) \in Nat
            /\ InFlight(out) \in Nat
        BY <1>3, <1>4
      <3> DEFINE l == Len(lost)
                 q == Len(asked)
                 a == Len(answered)
                 o == InFlight(out)
      <3>3. Losses = l + q - o - 1 - a /\ Losses' = l + q - o - 0 - (a + 1)
        BY <3>1 DEF Losses
      <3> HIDE DEF l, q, a, o
      <3>4. l + q - o - 1 - a = l + q - o - 0 - (a + 1)
        BY <3>2 DEF l, q, a, o
      <3> QED  BY <3>3, <3>4
    <2> QED  BY <1>1, <2>1 DEF UsbInv, LossesPaid
  <1>9. RepliesInOrder'
    <2>1. /\ fifo.place \in 1..(Len(asked) - InFlight(out)) /\ fifo.to = asked[fifo.place]
          /\ \A i \in 1..Len(answered) :
                /\ answered[i].place \in 1..(Len(asked) - InFlight(out))
                /\ answered[i].to = asked[answered[i].place]
                /\ answered[i].place < fifo.place
          /\ \A i, j \in 1..Len(answered) : i < j => answered[i].place < answered[j].place
      BY <1>2, <1>5 DEF UsbInv, RepliesInOrder
    <2>2. \A i \in 1..(Len(answered) + 1) :
             /\ answered'[i].place \in 1..(Len(asked) - InFlight(out))
             /\ answered'[i].to = asked[answered'[i].place]
      BY <1>4, <1>5, <2>1
    <2>3. ASSUME NEW i \in 1..(Len(answered) + 1), NEW j \in 1..(Len(answered) + 1), i < j
          PROVE  answered'[i].place < answered'[j].place
      <3>1. i \in 1..Len(answered) /\ answered'[i] = answered[i]
        BY <1>4, <1>5, <2>3
      <3>2. CASE j \in 1..Len(answered)
        BY <1>5, <2>1, <2>3, <3>1, <3>2
      <3>3. CASE j = Len(answered) + 1
        BY <1>5, <2>1, <3>1, <3>3
      <3> QED  BY <1>4, <3>2, <3>3
    <2>4. out.what = "reply" => out.place = Len(asked) /\ out.place >= 1
                               /\ out.to = asked[out.place]
      BY DEF UsbInv, RepliesInOrder
    <2> QED  BY <1>1, <1>3, <1>5, <2>2, <2>3, <2>4 DEF RepliesInOrder
  <1> QED  BY <1>6, <1>7, <1>8, <1>9 DEF UsbInv

\* A connection that ends costs what the endpoint holds; one more may follow.
LEMMA UnplugInv == UsbInv /\ Unplug => UsbInv'
  <1> SUFFICES ASSUME UsbInv, Unplug PROVE UsbInv'
    OBVIOUS
  <1>1. /\ connected' = FALSE /\ unplugs' = unplugs + 1 /\ fifo' = None
        /\ lost' = lost \o InEndpoint
        /\ UNCHANGED <<pc, out, channel, produced, received, asked, answered>>
    BY DEF Unplug
  <1>2. /\ InHand' = InHand /\ InFlight(out)' = InFlight(out) /\ InFlight(out) \in Nat
        /\ InFlight(fifo)' = 0 /\ fifo'.what = "none" /\ fifo' \in Outs
    BY <1>1, Nothing DEF InHand, PacketIn, InFlight
  <1>3. /\ asked \in Seq(Queries) /\ answered \in Seq(Answer) /\ lost \in Seq(Nat)
        /\ unplugs \in Nat
    BY DEF UsbInv, UsbTypeOK
  <1>4. lost' \in Seq(Nat) /\ Losses' <= Losses + 1 /\ Losses \in Int /\ Losses' \in Int
    <2>1. CASE InEndpoint = <<fifo.n>> /\ fifo.n \in Nat /\ InFlight(fifo) = 0
      BY <1>1, <1>2, <1>3, <2>1 DEF Losses
    <2>2. CASE InEndpoint = <<>> /\ InFlight(fifo) \in {0, 1}
      BY <1>1, <1>2, <1>3, <2>2 DEF Losses
    <2> QED  BY <2>1, <2>2, Hands DEF UsbInv
  <1>5. UsbTypeOK'
    BY <1>1, <1>2, <1>3, <1>4 DEF UsbInv, UsbTypeOK
  <1>6. LossesPaid'
    BY <1>1, <1>3, <1>4 DEF UsbInv, LossesPaid
  <1>7. RepliesInOrder'
    BY <1>1, <1>2 DEF UsbInv, RepliesInOrder
  <1>8. Queued' /\ InEndpointLast' /\ GapsOnlyAcrossUnplug'
    BY <1>1, <1>2 DEF UsbInv, Queued, InEndpointLast, GapsOnlyAcrossUnplug
  <1>9. LastReceived'
    <2> SUFFICES ASSUME received # <<>>
                 PROVE  LET last == received[Len(received)]
                        IN  last.n <= Gone /\ last.unplugs < unplugs + 1
                            /\ last.unplugs <= unplugs + 1 /\ last.unplugs # unplugs + 1
      BY <1>1, <1>2 DEF LastReceived, Gone
    <2> DEFINE last == received[Len(received)]
    <2>1. last.unplugs \in Nat /\ last.n <= Gone /\ last.unplugs <= unplugs
      BY LastIs DEF UsbInv, LastReceived
    <2> HIDE DEF last
    <2> QED  BY <1>3, <2>1 DEF last
  <1> QED  BY <1>5, <1>6, <1>7, <1>8, <1>9 DEF UsbInv

\* A failed write costs what was in hand: to the refusal, or to the connection,
\* whose end is noticed by it.
LEMMA WriteFailsInv == UsbInv /\ WriteFails => UsbInv'
  <1> SUFFICES ASSUME UsbInv, WriteFails PROVE UsbInv'
    OBVIOUS
  <1>1. /\ pc \in {"write", "writing"} /\ pc' = "wait" /\ out' = None
        /\ ~connected \/ Refused(out)
        /\ lost' = IF Refused(out) THEN lost ELSE lost \o InHand
        /\ UNCHANGED <<connected, fifo, unplugs, channel, produced, received, asked, answered>>
    BY DEF WriteFails, hostVars
  <1>2. /\ InHand' = <<>> /\ InFlight(out)' = 0 /\ InFlight(fifo)' = InFlight(fifo)
        /\ InFlight(fifo) \in Nat /\ out'.what = "none" /\ out' \in Outs
    BY <1>1, Nothing DEF InHand, InFlight
  <1>3. /\ lost \in Seq(Nat) /\ asked \in Seq(Queries) /\ answered \in Seq(Answer)
        /\ unplugs \in Nat
    BY DEF UsbInv, UsbTypeOK
  <1>4. lost' \in Seq(Nat) /\ Losses' <= 2 * unplugs
    <2>1. CASE Refused(out)
      <3>1. lost' = lost /\ InFlight(out) = 0
        BY <1>1, <2>1 DEF Refused, InFlight
      <3>2. Losses' = Losses
        BY <1>1, <1>2, <1>3, <3>1 DEF Losses
      <3> QED  BY <1>1, <1>3, <3>1, <3>2 DEF UsbInv, LossesPaid
    <2>2. CASE ~Refused(out)
      <3>1. lost' = lost \o InHand /\ Losses < 2 * unplugs
        BY <1>1, <2>2 DEF UsbInv, LossesPaid
      <3>2. CASE InHand = <<out.n>> /\ out.n \in Nat /\ InFlight(out) = 0
        BY <1>1, <1>2, <1>3, <3>1, <3>2 DEF Losses
      <3>3. CASE InHand = <<>> /\ InFlight(out) \in {0, 1}
        BY <1>1, <1>2, <1>3, <3>1, <3>3 DEF Losses
      <3> QED  BY <3>2, <3>3, Hands DEF UsbInv
    <2> QED  BY <2>1, <2>2
  <1>5. UsbTypeOK'
    BY <1>1, <1>2, <1>4 DEF UsbInv, UsbTypeOK
  <1>6. LossesPaid'
    BY <1>1, <1>4 DEF LossesPaid
  <1>7. RepliesInOrder'
    <2>1. InFlight(out) \in Nat /\ Len(asked) \in Nat
      BY <1>3 DEF InFlight
    <2>2. 1..(Len(asked) - InFlight(out)) \subseteq 1..(Len(asked) - 0)
      BY <2>1
    <2> QED  BY <1>1, <1>2, <2>2 DEF UsbInv, RepliesInOrder
  <1>8. Queued' /\ InEndpointLast' /\ LastReceived' /\ GapsOnlyAcrossUnplug'
    <2>1. CASE InHand = <<>>
      BY <1>1, <1>2, <2>1, PacketsKept
    <2>2. CASE InHand # <<>>
      <3>1. Queued' /\ Gone' = Gone + 1 /\ Gone \in Nat /\ out.n = Gone + 1
        BY <1>1, <1>2, <2>2, HandGone
      <3>2. connected => Gone + 1 \in TooLong
        BY <1>1, <3>1 DEF Refused
      <3>3. fifo.what = "packet" => connected /\ fifo.n \in Nat
        BY Hands, Nothing DEF UsbInv, UsbTypeOK
      <3>4. InEndpointLast'
        <4> SUFFICES ASSUME fifo.what = "packet"
                     PROVE  fifo.n <= Gone + 1 /\ (fifo.n + 1)..(Gone + 1) \subseteq TooLong
          BY <1>1, <3>1 DEF InEndpointLast
        <4>1. fifo.n <= Gone /\ (fifo.n + 1)..Gone \subseteq TooLong
          BY DEF UsbInv, InEndpointLast
        <4> QED  BY <3>1, <3>2, <3>3, <4>1
      <3>5. LastReceived'
        <4> DEFINE last == received[Len(received)]
        <4> SUFFICES ASSUME received # <<>>
                     PROVE  /\ last.n <= Gone + 1 /\ last.unplugs <= unplugs
                            /\ ~connected => last.unplugs < unplugs
                            /\ fifo.what = "packet" => last.n < fifo.n
                            /\ last.unplugs = unplugs =>
                                 \A k \in (last.n + 1)..(Gone + 1) :
                                     k \in TooLong \/ (fifo.what = "packet" /\ k = fifo.n)
          BY <1>1, <3>1 DEF LastReceived
        <4>1. /\ last.n <= Gone /\ last.unplugs <= unplugs
              /\ ~connected => last.unplugs < unplugs
              /\ fifo.what = "packet" => last.n < fifo.n
              /\ last.unplugs = unplugs =>
                   \A k \in (last.n + 1)..Gone :
                       k \in TooLong \/ (fifo.what = "packet" /\ k = fifo.n)
          BY DEF UsbInv, LastReceived
        <4>2. last.n \in Nat /\ last.unplugs \in Nat
          BY LastIs DEF UsbInv
        <4> HIDE DEF last
        <4>3. last.unplugs = unplugs => connected
          BY <1>3, <4>1, <4>2
        <4> QED  BY <1>3, <3>1, <3>2, <4>1, <4>2, <4>3
      <3>6. GapsOnlyAcrossUnplug'
        BY <1>1 DEF UsbInv, GapsOnlyAcrossUnplug
      <3> QED  BY <3>1, <3>4, <3>5, <3>6
    <2> QED  BY <2>1, <2>2
  <1> QED  BY <1>5, <1>6, <1>7, <1>8 DEF UsbInv

\* Every step keeps the invariant.
LEMMA UsbNextInv == UsbInv /\ [UsbNext]_usbVars => UsbInv'
  <1> SUFFICES ASSUME UsbInv, [UsbNext]_usbVars PROVE UsbInv'
    OBVIOUS
  <1>1. CASE \E c \in Commands : HostSends(c)
    BY <1>1, QuietInv
  <1>2. CASE PlugIn \/ WaitConnection \/ ReadPends \/ ReadFails \/ Drained \/ WritePends
    BY <1>2, QuietInv
  <1>3. CASE UNCHANGED usbVars
    <2>1. /\ UNCHANGED <<connected, unplugs, pc, out, fifo, channel, produced>>
          /\ UNCHANGED <<received, lost, asked, answered>>
      BY <1>3 DEF usbVars, hostVars, history
    <2>2. InHand' = InHand /\ InFlight(out)' = InFlight(out) /\ InFlight(fifo)' = InFlight(fifo)
      BY <2>1 DEF InHand, PacketIn, InFlight
    <2>3. UsbTypeOK'
      BY <2>1 DEF UsbInv, UsbTypeOK
    <2> QED  BY <2>1, <2>2, <2>3, PacketsKept, QueriesKept DEF UsbInv
  <1> QED
    BY <1>1, <1>2, <1>3, ProduceInv, ReadCommandInv, ForwardInv, WriteOkInv, WriteFailsInv,
       PollPacket, PollReply, UnplugInv
       DEF UsbNext, UsbTask

-----------------------------------------------------------------------------
\* A gap in the numbers the host receives shows packets that were too long, or
\* that a connection ended.
THEOREM GapsShowUnplugs == UsbSpec => []GapsOnlyAcrossUnplug
  <1>1. UsbInv => GapsOnlyAcrossUnplug
    BY DEF UsbInv
  <1> QED  BY <1>1, UsbInitInv, UsbNextInv, PTL DEF UsbSpec

\* Replies fit their queries, and a connection that ends costs two packets or
\* replies at most, one of them already written.
THEOREM UnplugLosesTwo == UsbSpec => []TwoLossesPerUnplug
  <1>1. UsbInv => TwoLossesPerUnplug
    BY DEF UsbInv, RepliesInOrder, LossesPaid, Losses, TwoLossesPerUnplug
  <1> QED  BY <1>1, UsbInitInv, UsbNextInv, PTL DEF UsbSpec

-----------------------------------------------------------------------------
\* The variables of the pipe that the link is for the packets.
Put     == [i \in 1..produced |-> i]
Waiting == InEndpoint \o (InHand \o channel)
Taken   == [i \in DOMAIN received |-> received[i].n]

\* The packets produced so far are the beginning of those of later.
LEMMA PutGrows ==
    ASSUME UsbTypeOK, produced' = produced + 1
    PROVE  /\ Len(Put) = produced /\ Len(Put') = produced + 1
           /\ SubSeq(Put', 1, produced) = Put
           /\ SubSeq(Put', produced + 1, produced + 1) = <<produced + 1>>
  <1>1. produced \in Nat
    BY DEF UsbTypeOK
  <1>2. Put \in Seq(Nat) /\ Put' \in Seq(Nat) /\ Len(Put) = produced /\ Len(Put') = produced + 1
    BY <1>1 DEF Put
  <1>3. \A i \in 1..produced : SubSeq(Put', 1, produced)[i] = Put[i]
    BY <1>1, <1>2 DEF Put
  <1>4. SubSeq(Put', 1, produced) \in Seq(Nat) /\ Len(SubSeq(Put', 1, produced)) = produced
    BY <1>1, <1>2
  <1>5. SubSeq(Put', 1, produced) = Put
    BY <1>1, <1>2, <1>3, <1>4, SeqEqual
  <1>6. Put'[produced + 1] = produced + 1
    BY <1>1 DEF Put
  <1>7. /\ SubSeq(Put', produced + 1, produced + 1) \in Seq(Nat)
        /\ Len(SubSeq(Put', produced + 1, produced + 1)) = 1
        /\ SubSeq(Put', produced + 1, produced + 1)[1] = produced + 1
    BY <1>1, <1>2, <1>6
  <1>8. SubSeq(Put', produced + 1, produced + 1) = <<produced + 1>>
    BY <1>7, SingleSeq
  <1> QED  BY <1>2, <1>5, <1>8

\* A packet received is taken out of the pipe.
LEMMA TakenGrows ==
    ASSUME NEW n \in Nat, NEW u, UsbTypeOK, received' = Append(received, [n |-> n, unplugs |-> u])
    PROVE  Taken' = Append(Taken, n)
  <1> DEFINE old == Taken
             new == Taken'
  <1>1. received \in Seq(Reception) /\ Len(received) \in Nat
    BY DEF UsbTypeOK
  <1>2. /\ DOMAIN received = 1..Len(received) /\ DOMAIN received' = 1..(Len(received) + 1)
        /\ \A i \in 1..Len(received) : received'[i] = received[i]
        /\ received'[Len(received) + 1].n = n
    BY <1>1
  <1>3. \A i \in 1..Len(received) : received[i].n \in Nat
    <2> SUFFICES ASSUME NEW i \in 1..Len(received) PROVE received[i].n \in Nat
      OBVIOUS
    <2>1. received[i] \in Reception
      BY <1>1
    <2> QED  BY <2>1 DEF Reception
  <1>4. old \in Seq(Nat) /\ Len(old) = Len(received)
        /\ \A i \in 1..Len(received) : old[i] = received[i].n
    BY <1>1, <1>2, <1>3 DEF Taken
  <1>5. new \in Seq(Nat) /\ Len(new) = Len(received) + 1
        /\ \A i \in 1..Len(received) + 1 : new[i] = received'[i].n
    BY <1>1, <1>2, <1>3 DEF Taken
  <1> HIDE DEF old, new
  <1>6. /\ Append(old, n) \in Seq(Nat) /\ Len(Append(old, n)) = Len(new)
        /\ \A i \in 1..Len(new) : Append(old, n)[i] = new[i]
    <2>1. /\ Append(old, n) \in Seq(Nat) /\ Len(Append(old, n)) = Len(old) + 1
          /\ \A i \in 1..Len(old) : Append(old, n)[i] = old[i]
          /\ Append(old, n)[Len(old) + 1] = n
      BY <1>4
    <2>2. ASSUME NEW i \in 1..Len(new) PROVE Append(old, n)[i] = new[i]
      <3>1. CASE i \in 1..Len(received)
        BY <1>2, <1>4, <1>5, <2>1, <3>1
      <3>2. CASE i = Len(received) + 1
        <4>1. new[i] = n
          BY <1>2, <1>5, <3>2
        <4> QED  BY <1>4, <2>1, <3>2, <4>1
      <3>3. i \in 1..Len(received) \/ i = Len(received) + 1
        BY <1>1, <1>5
      <3> QED  BY <3>1, <3>2, <3>3
    <2> QED  BY <1>4, <1>5, <2>1, <2>2
  <1>7. new = Append(old, n)
    BY <1>5, <1>6, SeqEqual
  <1> QED  BY <1>7 DEF old, new

\* Where the packets of the pipe are.
LEMMA Parts ==
    ASSUME UsbTypeOK
    PROVE  /\ channel \in Seq(Nat) /\ InHand \in Seq(Nat) /\ InEndpoint \in Seq(Nat)
           /\ Waiting \in Seq(Nat)
  <1>1. channel \in Seq(Nat)
    BY DEF UsbTypeOK
  <1>2. \A n \in Nat : <<n>> \in Seq(Nat)
    OBVIOUS
  <1>3. ASSUME NEW s, NEW n, s = <<>> \/ (s = <<n>> /\ n \in Nat)
        PROVE  s \in Seq(Nat)
    <2>1. <<>> \in Seq(Nat)
      OBVIOUS
    <2> QED  BY <1>2, <1>3, <2>1, Zenon
  <1>4. InHand = <<>> \/ (InHand = <<out.n>> /\ out.n \in Nat)
    BY Hands
  <1>5. InEndpoint = <<>> \/ (InEndpoint = <<fifo.n>> /\ fifo.n \in Nat)
    BY Hands
  <1>6. InHand \in Seq(Nat) /\ InEndpoint \in Seq(Nat)
    BY <1>3, <1>4, <1>5
  <1> QED  BY <1>1, <1>6 DEF Waiting

\* Losing the first of a sequence, or the second.
LEMMA LoseFirst ==
    ASSUME NEW a \in Nat, NEW s \in Seq(Nat)
    PROVE  LET w == <<a>> \o s
           IN  1 \in 1..Len(w) /\ SubSeq(w, 1, 1 - 1) \o SubSeq(w, 1 + 1, Len(w)) = s
  <1> DEFINE w == <<a>> \o s
  <1>1. /\ w \in Seq(Nat) /\ Len(w) = Len(s) + 1 /\ Len(s) \in Nat
        /\ \A i \in 1..Len(s) : w[i + 1] = s[i]
    OBVIOUS
  <1> HIDE DEF w
  <1> DEFINE back == SubSeq(w, 2, Len(w))
  <1>2. /\ back \in Seq(Nat) /\ Len(back) = Len(s)
        /\ \A i \in 1..Len(s) : back[i] = s[i]
    BY <1>1
  <1> HIDE DEF back
  <1>3. back = s
    BY <1>2, SeqEqual
  <1>4. SubSeq(w, 1, 0) = <<>>
    BY <1>1
  <1>5. 1 - 1 = 0 /\ 1 + 1 = 2 /\ 1 \in 1..Len(w)
    BY <1>1
  <1> QED  BY <1>3, <1>4, <1>5 DEF w, back

LEMMA LoseSecond ==
    ASSUME NEW a \in Nat, NEW b \in Nat, NEW s \in Seq(Nat)
    PROVE  LET w == <<a>> \o (<<b>> \o s)
           IN  /\ 2 \in 1..Len(w)
               /\ SubSeq(w, 1, 2 - 1) \o SubSeq(w, 2 + 1, Len(w)) = <<a>> \o s
  <1> DEFINE w == <<a>> \o (<<b>> \o s)
  <1>1. /\ w \in Seq(Nat) /\ Len(w) = Len(s) + 2 /\ Len(s) \in Nat /\ w[1] = a
        /\ \A i \in 1..Len(s) : w[i + 2] = s[i]
    OBVIOUS
  <1> HIDE DEF w
  <1> DEFINE back == SubSeq(w, 3, Len(w))
             front == SubSeq(w, 1, 1)
  <1>2. /\ back \in Seq(Nat) /\ Len(back) = Len(s)
        /\ \A i \in 1..Len(s) : back[i] = s[i]
    BY <1>1
  <1>3. front \in Seq(Nat) /\ Len(front) = 1 /\ front[1] = a
    BY <1>1
  <1> HIDE DEF back, front
  <1>4. back = s /\ front = <<a>>
    BY <1>2, <1>3, SeqEqual, SingleSeq
  <1>5. 2 - 1 = 1 /\ 2 + 1 = 3 /\ 2 \in 1..Len(w)
    BY <1>1
  <1> QED  BY <1>4, <1>5 DEF w, back, front

\* One step of the link is one step of the pipe, or none.
LEMMA PipeStep ==
    ASSUME UsbInv, [UsbNext]_usbVars
    PROVE  [Telemetry!Next]_<<TRUE, Put, Waiting, Taken>>
  <1>1. /\ channel \in Seq(Nat) /\ produced \in Nat /\ received \in Seq(Reception)
        /\ InHand \in Seq(Nat) /\ InEndpoint \in Seq(Nat) /\ Waiting \in Seq(Nat)
    BY Parts DEF UsbInv, UsbTypeOK
  <1>2. CASE Produce
    <2>1. /\ produced' = produced + 1 /\ channel' = Append(channel, produced + 1)
          /\ UNCHANGED <<out, fifo, received>>
      BY <1>2 DEF Produce, hostVars, history
    <2>2. /\ Len(Put) = produced /\ Len(Put') = produced + 1
          /\ SubSeq(Put', 1, Len(Put)) = Put
          /\ SubSeq(Put', Len(Put) + 1, Len(Put')) = <<produced + 1>>
      BY <2>1, PutGrows DEF UsbInv
    <2>3. Waiting' = Waiting \o <<produced + 1>> /\ Taken' = Taken
      <3>1. InHand' = InHand /\ InEndpoint' = InEndpoint /\ Taken' = Taken
        BY <2>1 DEF InHand, InEndpoint, PacketIn, Taken
      <3>2. Append(channel, produced + 1) = channel \o <<produced + 1>>
        BY <1>1, AppendIsConcat
      <3>3. <<produced + 1>> \in Seq(Nat) /\ InHand \o channel \in Seq(Nat)
        BY <1>1
      <3>4. InHand \o (channel \o <<produced + 1>>) = (InHand \o channel) \o <<produced + 1>>
        BY <1>1, <3>3, ConcatAssociative
      <3>5. InEndpoint \o ((InHand \o channel) \o <<produced + 1>>)
              = (InEndpoint \o (InHand \o channel)) \o <<produced + 1>>
        BY <1>1, <3>3, ConcatAssociative
      <3> QED  BY <2>1, <3>1, <3>2, <3>4, <3>5 DEF Waiting
    <2>4. Telemetry!Put
      <3>1. Len(Put') >= Len(Put) /\ SubSeq(Put', 1, Len(Put)) = Put
        BY <1>1, <2>2
      <3>2. Waiting' = Waiting \o SubSeq(Put', Len(Put) + 1, Len(Put'))
        BY <2>2, <2>3
      <3> QED
        BY <2>3, <3>1, <3>2, Zenon DEF Telemetry!Put, Put, Waiting, Taken
    <2> QED  BY <2>4 DEF Telemetry!Next
  <1>3. CASE Forward
    <2>1. /\ channel # <<>> /\ channel' = Tail(channel) /\ out' = Packet(Head(channel))
          /\ pc = "drain" /\ UNCHANGED <<fifo, produced, received>>
      BY <1>3 DEF Forward, hostVars, history
    <2>2. InHand = <<>>
      BY <2>1, Hands DEF UsbInv, UsbTypeOK
    <2>3. InHand' = <<Head(channel)>> /\ InEndpoint' = InEndpoint
      BY <2>1 DEF InHand, InEndpoint, PacketIn, Packet
    <2>4. InHand' \o channel' = InHand \o channel
      BY <1>1, <2>1, <2>2, <2>3
    <2>5. Waiting' = Waiting
      BY <2>3, <2>4 DEF Waiting
    <2> QED  BY <2>1, <2>5 DEF Put, Taken
  <1>4. CASE WriteOk
    <2>1. fifo = None /\ fifo' = out /\ out' = None /\ UNCHANGED <<channel, produced, received>>
      BY <1>4 DEF WriteOk, history
    <2>2. InEndpoint = <<>> /\ InEndpoint' = InHand /\ InHand' = <<>>
      BY <2>1, Nothing DEF InHand, InEndpoint
    <2>3. Waiting' = Waiting
      BY <1>1, <2>1, <2>2 DEF Waiting
    <2> QED  BY <2>1, <2>3 DEF Put, Taken
  <1>5. CASE Poll
    <2>1. fifo' = None /\ UNCHANGED <<out, channel, produced>>
      BY <1>5 DEF Poll
    <2>2. InHand' = InHand /\ InEndpoint' = <<>> /\ Put' = Put
      BY <2>1, Nothing DEF InHand, InEndpoint, Put
    <2>3. Waiting' = InHand \o channel /\ InHand \o channel \in Seq(Nat)
      BY <1>1, <2>1, <2>2 DEF Waiting
    <2>4. CASE fifo.what = "packet"
      <3>1. /\ InEndpoint = <<fifo.n>> /\ fifo.n \in Nat
            /\ received' = Append(received, [n |-> fifo.n, unplugs |-> unplugs])
        BY <1>5, <2>4, Hands DEF UsbInv, Poll
      <3>2. /\ Waiting # <<>> /\ Head(Waiting) = fifo.n
            /\ Tail(Waiting) = InHand \o channel
        BY <2>3, <3>1 DEF Waiting
      <3>3. Taken' = Append(Taken, fifo.n)
        BY <3>1, TakenGrows DEF UsbInv
      <3>4. Telemetry!Take
        BY <2>2, <2>3, <3>2, <3>3 DEF Telemetry!Take, Put, Waiting, Taken
      <3> QED  BY <3>4 DEF Telemetry!Next
    <2>5. CASE fifo.what # "packet"
      <3>1. InEndpoint = <<>> /\ received' = received
        BY <1>5, <2>5 DEF InEndpoint, PacketIn, Poll
      <3>2. Waiting' = Waiting
        BY <2>3, <3>1 DEF Waiting
      <3> QED  BY <2>2, <3>1, <3>2 DEF Taken
    <2> QED  BY <2>4, <2>5
  <1>6. CASE Unplug
    <2>1. fifo' = None /\ UNCHANGED <<out, channel, produced, received>>
      BY <1>6 DEF Unplug
    <2>2. InHand' = InHand /\ InEndpoint' = <<>> /\ Put' = Put /\ Taken' = Taken
      BY <2>1, Nothing DEF InHand, InEndpoint, Put, Taken
    <2>3. Waiting' = InHand \o channel /\ InHand \o channel \in Seq(Nat)
      BY <1>1, <2>1, <2>2 DEF Waiting
    <2>4. CASE InEndpoint = <<fifo.n>> /\ fifo.n \in Nat
      <3>1. /\ 1 \in 1..Len(Waiting)
            /\ Waiting' = SubSeq(Waiting, 1, 1 - 1) \o SubSeq(Waiting, 1 + 1, Len(Waiting))
        BY <2>3, <2>4, LoseFirst DEF Waiting
      <3>2. Telemetry!Lose
        BY <2>2, <3>1 DEF Telemetry!Lose, Put, Waiting, Taken
      <3> QED  BY <3>2 DEF Telemetry!Next
    <2>5. CASE InEndpoint = <<>>
      <3>1. Waiting' = Waiting
        BY <2>3, <2>5 DEF Waiting
      <3> QED  BY <2>2, <3>1
    <2> QED  BY <2>4, <2>5, Hands DEF UsbInv
  <1>7. CASE WriteFails
    <2>1. out' = None /\ UNCHANGED <<fifo, channel, produced, received>>
      BY <1>7 DEF WriteFails, hostVars
    <2>2. InHand' = <<>> /\ InEndpoint' = InEndpoint /\ Put' = Put /\ Taken' = Taken
      BY <2>1, Nothing DEF InHand, InEndpoint, PacketIn, Put, Taken
    <2>3. Waiting' = InEndpoint \o channel
      BY <1>1, <2>1, <2>2 DEF Waiting
    <2>4. CASE InHand = <<>>
      <3>1. Waiting' = Waiting
        BY <1>1, <2>3, <2>4 DEF Waiting
      <3> QED  BY <2>2, <3>1
    <2>5. CASE InHand = <<out.n>> /\ out.n \in Nat
      <3>1. \E i \in 1..Len(Waiting) :
               Waiting' = SubSeq(Waiting, 1, i - 1) \o SubSeq(Waiting, i + 1, Len(Waiting))
        <4>1. CASE InEndpoint = <<>>
          <5>1. Waiting = <<out.n>> \o channel /\ Waiting' = channel
            BY <1>1, <2>3, <2>5, <4>1 DEF Waiting
          <5> QED  BY <1>1, <2>5, <5>1, LoseFirst
        <4>2. CASE InEndpoint = <<fifo.n>> /\ fifo.n \in Nat
          <5>1. /\ Waiting = <<fifo.n>> \o (<<out.n>> \o channel)
                /\ Waiting' = <<fifo.n>> \o channel
            BY <2>3, <2>5, <4>2 DEF Waiting
          <5>2. 2 \in 1..Len(Waiting)
                /\ Waiting' = SubSeq(Waiting, 1, 2 - 1) \o SubSeq(Waiting, 2 + 1, Len(Waiting))
            BY <1>1, <2>5, <4>2, <5>1, LoseSecond
          <5> QED  BY <5>2
        <4> QED  BY <4>1, <4>2, Hands DEF UsbInv
      <3>2. Telemetry!Lose
        BY <2>2, <3>1 DEF Telemetry!Lose, Put, Waiting, Taken
      <3> QED  BY <3>2 DEF Telemetry!Next
    <2> QED  BY <2>4, <2>5, Hands DEF UsbInv
  <1>8. CASE ReadCommand
    <2>1. /\ UNCHANGED <<fifo, channel, produced, received>> /\ pc \in {"read", "reading"}
          /\ out' = out \/ out' = Reply(command[1], Len(asked) + 1)
      BY <1>8 DEF ReadCommand
    <2>2. InHand' = InHand /\ InEndpoint' = InEndpoint
      <3>1. out = None
        BY <2>1 DEF UsbInv, UsbTypeOK
      <3> QED  BY <2>1, <3>1, Nothing DEF InHand, InEndpoint, PacketIn, Reply
    <2> QED  BY <2>1, <2>2 DEF Put, Waiting, Taken
  <1>9. CASE UNCHANGED <<out, fifo, channel, produced, received>>
    BY <1>9 DEF Put, Waiting, Taken, InHand, InEndpoint, PacketIn
  <1>10. CASE \/ PlugIn \/ \E c \in Commands : HostSends(c)
              \/ WaitConnection \/ ReadPends \/ ReadFails \/ Drained \/ WritePends
              \/ UNCHANGED usbVars
    BY <1>9, <1>10 DEF PlugIn, HostSends, WaitConnection, ReadPends, ReadFails, Drained,
                       WritePends, usbVars, hostVars, history
  <1> QED
    BY <1>2, <1>3, <1>4, <1>5, <1>6, <1>7, <1>8, <1>10 DEF UsbNext, UsbTask

\* UsbLink implements a pipe that may lose some of what it carries: packets
\* arrive at most once, and in order.
THEOREM PacketsInOrder == UsbSpec => DeliversInOrder
  <1>1. UsbInit => Telemetry!Init
    <2> SUFFICES ASSUME UsbInit PROVE Telemetry!Init
      OBVIOUS
    <2>1. Put = <<>> /\ Waiting = <<>> /\ Taken = <<>>
      BY Nothing DEF UsbInit, Put, Waiting, Taken, InHand, InEndpoint
    <2> QED  BY <2>1 DEF Telemetry!Init, Put, Waiting, Taken
  <1>2. UsbInv /\ [UsbNext]_usbVars => [Telemetry!Next]_<<TRUE, Put, Waiting, Taken>>
    BY PipeStep
  <1>3. UsbInv /\ [UsbNext]_usbVars =>
          [Telemetry!Next]_<<TRUE, [i \in 1..produced |-> i],
                             InEndpoint \o (InHand \o channel),
                             [i \in DOMAIN received |-> received[i].n]>>
    BY <1>2 DEF Put, Waiting, Taken
  <1> QED
    BY <1>1, <1>3, UsbInitInv, UsbNextInv, PTL DEF UsbSpec, DeliversInOrder, Telemetry!Spec

-----------------------------------------------------------------------------
(* Sampler.                                                                  *)

-----------------------------------------------------------------------------
(* Induction over the naturals, as a fact about sets of them.                *)

\* A set of naturals has a least element.
LEMMA Least ==
    ASSUME NEW T \in SUBSET Nat, T # {}
    PROVE  \E m \in T : \A k \in T : m <= k
  <1> DEFINE R == {p \in Nat \X Nat : p[1] < p[2]}
  <1>1. IsWellFoundedOn(R, Nat)
    BY NatLessThanWellFounded DEF OpToRel
  <1>2. PICK m \in T : \A k \in T : <<k, m>> \notin R
    <2> HIDE DEF R
    <2> QED BY <1>1, WFMin
  <1>3. ASSUME NEW k \in T, k < m PROVE FALSE
    <2>1. <<k, m>> \in Nat \X Nat /\ <<k, m>>[1] = k /\ <<k, m>>[2] = m
      OBVIOUS
    <2>2. <<k, m>> \in R
      BY <2>1, <1>3
    <2> QED BY <2>2, <1>2
  <1>4. \A k \in T : m <= k
    BY <1>3
  <1> QED BY <1>4

\* Induction over the naturals, as a fact about a set.
LEMMA SetInduction ==
    ASSUME NEW S \in SUBSET Nat, 0 \in S, \A n \in S : n + 1 \in S
    PROVE  S = Nat
  <1> SUFFICES ASSUME Nat \ S # {} PROVE FALSE
    OBVIOUS
  <1>1. PICK m \in Nat \ S : \A k \in Nat \ S : m <= k
    BY Least
  <1>2. m # 0 /\ m - 1 \in Nat /\ m - 1 \in S
    BY <1>1
  <1> QED BY <1>2

\* f begins with x0 and goes on by the steps up to N.
Follows(f, X, x0, step, N) ==
    f \in [0..N -> X] /\ f[0] = x0 /\ \A n \in 1..N : f[n] = step[n][f[n - 1]]

\* Recursion defines a function.
LEMMA Recursion ==
    ASSUME NEW X, NEW x0 \in X, NEW step \in [Nat -> [X -> X]], NEW N \in Nat
    PROVE  \E f : Follows(f, X, x0, step, N)
  <1> DEFINE Has(M) == \E f \in [0..M -> X] :
                          f[0] = x0 /\ \A n \in 1..M : f[n] = step[n][f[n - 1]]
             S == {M \in Nat : Has(M)}
  <1>1. 0 \in S
    <2> DEFINE f == [n \in 0..0 |-> x0]
    <2>1. f \in [0..0 -> X] /\ f[0] = x0 /\ \A n \in 1..0 : f[n] = step[n][f[n - 1]]
      OBVIOUS
    <2> HIDE DEF f
    <2> QED BY <2>1
  <1>2. ASSUME NEW M \in S PROVE M + 1 \in S
    <2>1. PICK f \in [0..M -> X] : f[0] = x0 /\ \A n \in 1..M : f[n] = step[n][f[n - 1]]
      OBVIOUS
    <2> DEFINE g == [n \in 0..(M + 1) |-> IF n <= M THEN f[n] ELSE step[M + 1][f[M]]]
    <2>2. M \in Nat /\ f[M] \in X /\ step[M + 1][f[M]] \in X
      OBVIOUS
    <2>3. g \in [0..(M + 1) -> X] /\ g[0] = x0
      BY <2>1, <2>2
    <2>4. ASSUME NEW n \in 1..(M + 1) PROVE g[n] = step[n][g[n - 1]]
      <3>1. CASE n <= M
        <4>1. n \in 1..M /\ n - 1 \in 0..(M + 1) /\ n - 1 <= M
          BY <2>2, <3>1
        <4> QED BY <2>1, <4>1, <3>1
      <3>2. CASE ~(n <= M)
        <4>1. n = M + 1 /\ n - 1 = M
          BY <2>2, <3>2
        <4> QED BY <2>1, <2>2, <4>1
      <3> QED BY <3>1, <3>2
    <2>5. Has(M + 1)
      <3> HIDE DEF g
      <3> QED BY <2>3, <2>4
    <2> HIDE DEF g, Has
    <2> QED BY <2>2, <2>5
  <1>3. S = Nat
    <2> HIDE DEF Has
    <2>1. S \in SUBSET Nat
      OBVIOUS
    <2> HIDE DEF S
    <2> QED BY <1>1, <1>2, <2>1, SetInduction
  <1>4. Has(N)
    BY <1>3
  <1> QED BY <1>4 DEF Follows

-----------------------------------------------------------------------------
(* The averages.                                                             *)

\* A quotient is no larger than what the divisor is multiplied by.
LEMMA QuotientBound ==
    ASSUME NEW a \in Nat, NEW h \in Nat \ {0}, NEW c \in Nat, a <= c * h
    PROVE  a \div h \in Nat /\ a \div h <= c
  <1>1. a \div h \in Nat /\ h * (a \div h) <= a
    OBVIOUS
  <1> DEFINE q == a \div h
  <1> HIDE DEF q
  <1>2. q \in Nat /\ h * q <= c * h
    BY <1>1 DEF q
  <1>3. ASSUME q >= c + 1 PROVE FALSE
    <2>1. h * q >= h * (c + 1)
      BY <1>2, <1>3
    <2>2. h * (c + 1) = c * h + h
      OBVIOUS
    <2>3. c * h \in Nat /\ h * q \in Nat
      BY <1>2
    <2> QED BY <1>2, <2>1, <2>2, <2>3
  <1> QED BY <1>2, <1>3 DEF q

\* f is the sum of every second count of every beginning of ms.
Adds(f, ms, first) ==
    f = [i \in 0..Len(ms) |->
            IF i = 0 THEN 0 ELSE f[i - 1] + (IF i % 2 = first % 2 THEN ms[i] ELSE 0)]

\* A count of twelve bits.
Count == 0..4095

\* The positions of the first input, or of the second, up to the i-th.
Positions(i, first) == IF first = 1 THEN (i + 1) \div 2 ELSE i \div 2

\* The sum over an input is at most full scale for each of its positions.
LEMMA SumBound ==
    ASSUME NEW ms \in Seq(Count), NEW first \in 1..2
    PROVE  /\ SumFrom(ms, first) \in Nat
           /\ SumFrom(ms, first) <= 4095 * Positions(Len(ms), first)
  <1> DEFINE Term(n) == IF n % 2 = first % 2 THEN ms[n] ELSE 0
             Step(n) == [c \in Nat |-> IF n \in 1..Len(ms) THEN c + Term(n) ELSE c]
             step == [n \in Nat |-> Step(n)]
  <1>1. Len(ms) \in Nat /\ \A n \in 1..Len(ms) : ms[n] \in Count
    OBVIOUS
  <1>2. \A n \in 1..Len(ms) : Term(n) \in Nat /\ Term(n) <= 4095
    <2>1. \A n \in 1..Len(ms) : ms[n] \in Nat /\ ms[n] <= 4095
      <3>1. \A x \in Count : x \in Nat /\ x <= 4095
        BY SMTT(30) DEF Count
      <3> QED BY <1>1, <3>1, SMTT(30)
    <2> QED BY <2>1, SMTT(30)
  <1> HIDE DEF Term
  <1>3. step \in [Nat -> [Nat -> Nat]]
    BY <1>2
  <1>4. PICK f : Follows(f, Nat, 0, step, Len(ms))
    <2> HIDE DEF step
    <2> QED BY <1>1, <1>3, Recursion
  <1>5. Adds(f, ms, first)
    <2>1. f \in [0..Len(ms) -> Nat] /\ f[0] = 0
      BY <1>4 DEF Follows
    <2>2. ASSUME NEW n \in 1..Len(ms) PROVE f[n] = f[n - 1] + Term(n)
      <3>1. n \in Nat /\ n - 1 \in 0..Len(ms) /\ f[n - 1] \in Nat
        <4> HIDE DEF step
        <4> QED BY <1>1, <2>1
      <3>2. step[n] = Step(n)
        BY <3>1
      <3>3. f[n] = step[n][f[n - 1]]
        BY <1>4 DEF Follows
      <3>4. Step(n)[f[n - 1]] = f[n - 1] + Term(n)
        BY <3>1
      <3> HIDE DEF step, Step
      <3> QED BY <3>2, <3>3, <3>4
    <2>3. ASSUME NEW n \in 0..Len(ms)
          PROVE  f[n] = IF n = 0 THEN 0 ELSE f[n - 1] + Term(n)
      <3>1. n = 0 \/ n \in 1..Len(ms)
        BY <1>1
      <3> QED BY <2>1, <2>2, <3>1
    <2>4. f = [n \in 0..Len(ms) |-> f[n]]
      BY <2>1
    <2> QED BY <2>3, <2>4 DEF Adds, Term
  <1> DEFINE g == CHOOSE h : Adds(h, ms, first)
  <1>6. Adds(g, ms, first)
    BY <1>5
  <1>7. SumFrom(ms, first) = g[Len(ms)]
    BY DEF SumFrom, Adds
  <1> HIDE DEF g
  <1> DEFINE S == {n \in Nat : n <= Len(ms) =>
                      g[n] \in Nat /\ g[n] <= 4095 * Positions(n, first)}
  <1>8. 0 \in S
    <2>1. g[0] = 0
      BY <1>1, <1>6 DEF Adds
    <2>2. Positions(0, first) = 0
      BY DEF Positions
    <2> QED BY <2>1, <2>2, SMTT(30)
  <1>9. ASSUME NEW n \in S PROVE n + 1 \in S
    <2>1. SUFFICES ASSUME n + 1 <= Len(ms)
                   PROVE  g[n + 1] \in Nat /\ g[n + 1] <= 4095 * Positions(n + 1, first)
      OBVIOUS
    <2>2. /\ n \in Nat /\ n + 1 \in 1..Len(ms) /\ (n + 1) - 1 = n
          /\ g[n] \in Nat /\ g[n] <= 4095 * Positions(n, first)
      BY <1>1, <2>1, SMTT(30)
    <2>3. g[n + 1] = g[n] + Term(n + 1)
      BY <1>1, <1>6, <2>2, SMTT(30) DEF Adds, Term
    <2>4. CASE (n + 1) % 2 = first % 2
      <3>1. Positions(n + 1, first) = Positions(n, first) + 1 /\ Positions(n, first) \in Nat
        <4>1. CASE first = 1
          BY <2>2, <2>4, <4>1 DEF Positions
        <4>2. CASE first = 2
          BY <2>2, <2>4, <4>2 DEF Positions
        <4> QED BY <4>1, <4>2
      <3> QED BY <1>2, <2>2, <2>3, <3>1, SMTT(30)
    <2>5. CASE (n + 1) % 2 # first % 2
      <3>1. Positions(n + 1, first) = Positions(n, first) /\ Positions(n, first) \in Nat
        <4>1. CASE first = 1
          BY <2>2, <2>5, <4>1 DEF Positions
        <4>2. CASE first = 2
          BY <2>2, <2>5, <4>2 DEF Positions
        <4> QED BY <4>1, <4>2
      <3>2. Term(n + 1) = 0
        BY <2>5 DEF Term
      <3> QED BY <2>2, <2>3, <3>1, <3>2, SMTT(30)
    <2> QED BY <2>4, <2>5
  <1>10. S = Nat
    <2>1. S \in SUBSET Nat
      OBVIOUS
    <2> HIDE DEF S
    <2> QED BY <1>8, <1>9, <2>1, SetInduction
  <1>11. Len(ms) \in S
    BY <1>1, <1>10
  <1> QED BY <1>7, <1>11, SMTT(30)

\* An average is a number; it is within the scale but for the first input of
\* an odd number of counts.
LEMMA AverageBound ==
    ASSUME NEW ms \in Seq(Count), Len(ms) >= 2
    PROVE  /\ Average(ms, 1) \in Nat /\ Average(ms, 2) \in Nat
           /\ Average(ms, 2) <= FullScale
           /\ Average(ms, 1) > FullScale => Len(ms) % 2 = 1
  <1> DEFINE h == Len(ms) \div 2
             a == SumFrom(ms, 1)
             b == SumFrom(ms, 2)
  <1>1. Len(ms) \in Nat
    OBVIOUS
  <1>2. h \in Nat \ {0}
    BY <1>1
  <1>3. a \in Nat /\ b \in Nat /\ b <= 4095 * h /\ (Len(ms) % 2 = 0 => a <= 4095 * h)
    <2>1. 1 \in 1..2 /\ 2 \in 1..2 /\ 1 # 2
      OBVIOUS
    <2>2. Positions(Len(ms), 2) = h
      BY DEF Positions
    <2>3. Len(ms) % 2 = 0 => Positions(Len(ms), 1) = h
      BY <1>1 DEF Positions
    <2>4. a \in Nat /\ a <= 4095 * Positions(Len(ms), 1)
      BY <2>1, SumBound
    <2>5. b \in Nat /\ b <= 4095 * Positions(Len(ms), 2)
      BY <2>1, SumBound
    <2> QED BY <2>2, <2>3, <2>4, <2>5
  <1> HIDE DEF h, a, b
  <1>4. a \div h \in Nat /\ b \div h \in Nat
    BY <1>2, <1>3
  <1>5. 4095 \in Nat
    BY SMTT(30)
  <1>6. b \div h <= 4095 /\ (Len(ms) % 2 = 0 => a \div h <= 4095)
    BY <1>2, <1>3, <1>5, QuotientBound
  <1>7. ASSUME NEW q \in Nat
        PROVE  counts_to_mv(q) \in Nat /\ (q <= 4095 => counts_to_mv(q) <= FullScale)
    BY SMTT(30) DEF counts_to_mv, FullScale
  <1>8. Average(ms, 1) = counts_to_mv(a \div h) /\ Average(ms, 2) = counts_to_mv(b \div h)
    BY DEF Average, a, b, h
  <1>9. Len(ms) % 2 = 0 \/ Len(ms) % 2 = 1
    BY <1>1
  <1>10. Average(ms, 1) \in Nat /\ (Average(ms, 1) <= FullScale => ~(Average(ms, 1) > FullScale))
    BY <1>4, <1>7, <1>8, SMTT(30) DEF FullScale
  <1> QED BY <1>4, <1>6, <1>7, <1>8, <1>9, <1>10

-----------------------------------------------------------------------------
(* Time, and what is held, as reads are added.                               *)

\* The times at which the reads begin, and the last ends.
Times(f, rs) ==
    f = [i \in 0..Len(rs) |-> IF i = 0 THEN 0 ELSE f[i - 1] + 100 * Len(rs[i])]

Begins(rs) == CHOOSE f : Times(f, rs)

\* Begins is the sequence of the times that TimeOf counts up.
LEMMA TimesAre ==
    ASSUME NEW rs \in Seq(Seq(Count))
    PROVE  /\ \A n \in 0..Len(rs) : Begins(rs)[n] \in Nat
           /\ Begins(rs)[0] = 0
           /\ \A n \in 1..Len(rs) : Begins(rs)[n] = Begins(rs)[n - 1] + 100 * Len(rs[n])
  <1> DEFINE N == Len(rs)
             T(n) == 100 * Len(rs[n])
             Step(n) == [c \in Nat |-> IF n \in 1..N THEN c + T(n) ELSE c]
             step == [n \in Nat |-> Step(n)]
  <1>1. N \in Nat /\ \A n \in 1..N : T(n) \in Nat
    <2>1. \A n \in 1..N : rs[n] \in Seq(Count)
      OBVIOUS
    <2> QED BY <2>1
  <1>8. \A f : Times(f, rs) <=> f = [i \in 0..N |-> IF i = 0 THEN 0 ELSE f[i - 1] + T(i)]
    BY DEF Times
  <1> HIDE DEF N, T
  <1>2. step \in [Nat -> [Nat -> Nat]]
    BY <1>1
  <1>3. PICK f : Follows(f, Nat, 0, step, N)
    <2> HIDE DEF step
    <2> QED BY <1>1, <1>2, Recursion
  <1>4. Times(f, rs)
    <2>1. f \in [0..N -> Nat] /\ f[0] = 0
      BY <1>3 DEF Follows
    <2>2. ASSUME NEW n \in 1..N PROVE f[n] = f[n - 1] + T(n)
      <3>1. n \in Nat /\ n - 1 \in 0..N
        BY <1>1
      <3>2. f[n - 1] \in Nat
        <4> HIDE DEF step
        <4> QED BY <2>1, <3>1
      <3>3. step[n] = Step(n)
        BY <3>1
      <3>4. f[n] = step[n][f[n - 1]]
        BY <1>3 DEF Follows
      <3>5. Step(n)[f[n - 1]] = f[n - 1] + T(n)
        BY <3>2
      <3> HIDE DEF step, Step
      <3> QED BY <3>3, <3>4, <3>5
    <2>3. ASSUME NEW n \in 0..N
          PROVE  f[n] = IF n = 0 THEN 0 ELSE f[n - 1] + T(n)
      <3>1. n = 0 \/ n \in 1..N
        BY <1>1
      <3> QED BY <2>1, <2>2, <3>1
    <2>4. f = [n \in 0..N |-> f[n]]
      BY <2>1
    <2> QED BY <1>8, <2>3, <2>4
  <1> DEFINE g == Begins(rs)
  <1>5. g = [i \in 0..N |-> IF i = 0 THEN 0 ELSE g[i - 1] + T(i)]
    <2>1. Times(g, rs)
      BY <1>4 DEF Begins
    <2> HIDE DEF g
    <2> QED BY <1>8, <2>1
  <1> HIDE DEF g
  <1>6. g[0] = 0 /\ \A n \in 1..N : g[n] = g[n - 1] + T(n)
    <2>1. 0 \in 0..N /\ \A n \in 1..N : n \in 0..N /\ n # 0
      BY <1>1
    <2> QED BY <1>5, <2>1
  <1> DEFINE S == {n \in Nat : n <= N => g[n] \in Nat}
  <1>7. S = Nat
    <2>1. 0 \in S
      BY <1>6
    <2>2. ASSUME NEW n \in S PROVE n + 1 \in S
      <3> SUFFICES ASSUME n + 1 <= N PROVE g[n + 1] \in Nat
        OBVIOUS
      <3>1. n + 1 \in 1..N /\ (n + 1) - 1 = n /\ g[n] \in Nat
        BY <1>1
      <3> QED BY <1>1, <1>6, <3>1
    <2>3. S \in SUBSET Nat
      OBVIOUS
    <2> HIDE DEF S
    <2> QED BY <2>1, <2>2, <2>3, SetInduction
  <1> QED BY <1>1, <1>6, <1>7 DEF g, N, T

\* One more read does not change when the others began.
LEMMA TimesGrow ==
    ASSUME NEW rs \in Seq(Seq(Count)), NEW ms \in Seq(Count)
    PROVE  LET t == Append(rs, ms)
           IN  /\ \A n \in 0..Len(rs) : Begins(t)[n] = Begins(rs)[n]
               /\ Begins(t)[Len(rs) + 1] = Begins(rs)[Len(rs)] + 100 * Len(ms)
  <1> DEFINE t == Append(rs, ms)
             f == Begins(rs)
             g == Begins(t)
             N == Len(rs)
  <1>1. /\ t \in Seq(Seq(Count)) /\ Len(t) = N + 1 /\ N \in Nat /\ t[N + 1] = ms
        /\ \A n \in 1..N : t[n] = rs[n]
    BY AppendProperties
  <1> HIDE DEF t
  <1>2. /\ \A n \in 0..N : f[n] \in Nat
        /\ f[0] = 0 /\ \A n \in 1..N : f[n] = f[n - 1] + 100 * Len(rs[n])
    BY TimesAre
  <1>3. /\ g[0] = 0 /\ \A n \in 1..(N + 1) : g[n] = g[n - 1] + 100 * Len(t[n])
    BY <1>1, TimesAre
  <1> HIDE DEF f, g, N
  <1> DEFINE S == {n \in Nat : n <= N => g[n] = f[n]}
  <1>4. S = Nat
    <2>1. 0 \in S
      BY <1>2, <1>3
    <2>2. ASSUME NEW n \in S PROVE n + 1 \in S
      <3> SUFFICES ASSUME n + 1 <= N PROVE g[n + 1] = f[n + 1]
        OBVIOUS
      <3>1. /\ n + 1 \in 1..N /\ n + 1 \in 1..(N + 1) /\ (n + 1) - 1 = n
            /\ g[n] = f[n]
        BY <1>1
      <3>2. g[n + 1] = g[n] + 100 * Len(t[n + 1])
        BY <1>3, <3>1
      <3>3. f[n + 1] = f[n] + 100 * Len(rs[n + 1])
        BY <1>2, <3>1
      <3>4. t[n + 1] = rs[n + 1]
        BY <1>1, <3>1
      <3> QED BY <3>1, <3>2, <3>3, <3>4
    <2>3. S \in SUBSET Nat
      OBVIOUS
    <2> HIDE DEF S
    <2> QED BY <2>1, <2>2, <2>3, SetInduction
  <1>5. ASSUME NEW n \in 0..N PROVE g[n] = f[n]
    <2>1. n \in Nat /\ n <= N
      BY <1>1
    <2>2. n \in S
      <3> HIDE DEF S
      <3> QED BY <1>4, <2>1
    <2> QED BY <2>1, <2>2
  <1>6. g[N + 1] = f[N] + 100 * Len(ms)
    <2>1. N + 1 \in 1..(N + 1) /\ (N + 1) - 1 = N /\ N \in 0..N
      BY <1>1
    <2>2. g[N + 1] = g[N] + 100 * Len(t[N + 1])
      BY <1>3, <2>1
    <2> QED BY <1>1, <1>5, <2>1, <2>2
  <1> QED BY <1>5, <1>6 DEF f, g, t, N

\* When the last read ended.
Now == Begins(reads)[Len(reads)]

\* TimeOf in terms of it.
LEMMA TimeIs ==
    /\ \A k \in 1..Len(reads) : TimeOf(k) = Begins(reads)[k - 1]
    /\ \A k \in 1..Len(reads') : TimeOf(k)' = Begins(reads')[k - 1]
  BY DEF TimeOf, Begins, Times

\* One more read leaves the times of the others and what was held then.
LEMMA ReadsGrow ==
    ASSUME reads \in Seq(Seq(Count)), NEW ms \in Seq(Count), reads' = Append(reads, ms),
           NEW N \in Nat, N = Len(reads)
    PROVE  /\ reads' \in Seq(Seq(Count)) /\ Len(reads') = N + 1 /\ reads'[N + 1] = ms
           /\ \A k \in 1..N :
                 /\ reads'[k] = reads[k] /\ TimeOf(k)' = TimeOf(k) /\ TimeOf(k) \in Nat
                 /\ HeldAt(k)' = HeldAt(k) /\ Readings(k)' = Readings(k)
           /\ Now \in Nat /\ TimeOf(N + 1)' = Now /\ Now' = Now + 100 * Len(ms)
           /\ HeldAt(N + 1)' = IF Len(ms) >= 2 THEN {N + 1} ELSE HeldAt(N)
  <1>1. /\ reads' \in Seq(Seq(Count)) /\ Len(reads') = N + 1 /\ N \in Nat
        /\ reads'[N + 1] = ms /\ \A k \in 1..N : reads'[k] = reads[k]
    BY AppendProperties
  <1>2. /\ \A n \in 0..N : Begins(reads)[n] \in Nat /\ Begins(reads')[n] = Begins(reads)[n]
        /\ Begins(reads')[N + 1] = Begins(reads)[N] + 100 * Len(ms)
    BY TimesAre, TimesGrow
  <1>3. Now \in Nat /\ Now' = Now + 100 * Len(ms)
    BY <1>1, <1>2 DEF Now
  <1>4. TimeOf(N + 1)' = Now
    <2>1. N + 1 \in 1..Len(reads') /\ (N + 1) - 1 = N /\ N \in 0..N
      BY <1>1
    <2>2. TimeOf(N + 1)' = Begins(reads')[(N + 1) - 1]
      BY <2>1, TimeIs
    <2> QED BY <1>2, <2>1, <2>2 DEF Now
  <1>5. ASSUME NEW k \in 1..N PROVE TimeOf(k)' = TimeOf(k) /\ TimeOf(k) \in Nat
    <2>1. k \in 1..Len(reads') /\ k - 1 \in 0..N
      BY <1>1
    <2>2. TimeOf(k)' = Begins(reads')[k - 1] /\ TimeOf(k) = Begins(reads)[k - 1]
      BY <2>1, TimeIs
    <2> QED BY <1>2, <2>1, <2>2
  <1>6. ASSUME NEW k \in 0..N PROVE HeldAt(k)' = HeldAt(k)
    <2>1. \A i \in 1..k : i \in 1..N /\ reads'[i] = reads[i]
      BY <1>1
    <2>2. \A i \in 1..k : \A j \in (i + 1)..k : reads'[j] = reads[j]
      BY <1>1
    <2>3. \A i \in 1..k : /\ Len(reads'[i]) = Len(reads[i])
                          /\ \A j \in (i + 1)..k : Len(reads'[j]) = Len(reads[j])
      BY <2>1, <2>2
    <2>4. \A i \in 1..k :
             (Len(reads'[i]) >= 2 /\ \A j \in (i + 1)..k : Len(reads'[j]) < 2)
               <=> (Len(reads[i]) >= 2 /\ \A j \in (i + 1)..k : Len(reads[j]) < 2)
      BY <2>3
    <2> QED BY <2>4, Zenon DEF HeldAt
  <1>7. ASSUME NEW k \in 1..N PROVE Readings(k)' = Readings(k)
    <2>1. /\ reads'[k] = reads[k] /\ TimeOf(k)' = TimeOf(k) /\ HeldAt(k)' = HeldAt(k)
      BY <1>1, <1>5, <1>6
    <2>2. \A i \in HeldAt(k) : reads'[i] = reads[i]
      BY <1>1 DEF HeldAt
    <2> QED BY <2>1, <2>2 DEF Readings
  <1>8. HeldAt(N + 1)' = IF Len(ms) >= 2 THEN {N + 1} ELSE HeldAt(N)
    <2>1. HeldAt(N + 1)' = {i \in 1..(N + 1) : /\ Len(reads'[i]) >= 2
                                              /\ \A j \in (i + 1)..(N + 1) : Len(reads'[j]) < 2}
      BY DEF HeldAt
    <2>2. \A i \in 1..N : N + 1 \in (i + 1)..(N + 1)
      BY <1>1
    <2>3. Len(ms) \in Nat /\ (Len(ms) < 2 <=> ~(Len(ms) >= 2))
      OBVIOUS
    <2> DEFINE H == HeldAt(N + 1)'
    <2>4. CASE Len(ms) >= 2
      <3>1. ASSUME NEW i \in H PROVE i = N + 1
        <4>1. i \in 1..(N + 1) /\ \A j \in (i + 1)..(N + 1) : Len(reads'[j]) < 2
          BY <2>1
        <4>2. ASSUME i \in 1..N PROVE FALSE
          BY <1>1, <2>2, <2>3, <2>4, <4>1, <4>2
        <4> QED BY <1>1, <4>1, <4>2
      <3>2. N + 1 \in H
        <4>1. N + 1 \in 1..(N + 1) /\ (N + 1 + 1)..(N + 1) = {}
          BY <1>1
        <4> QED BY <1>1, <2>1, <2>4, <4>1
      <3> HIDE DEF H
      <3>3. H = {N + 1}
        BY <3>1, <3>2
      <3> QED BY <2>4, <3>3 DEF H
    <2>5. CASE ~(Len(ms) >= 2)
      <3>1. ASSUME NEW i \in H PROVE i \in HeldAt(N)
        <4>1. /\ i \in 1..(N + 1) /\ Len(reads'[i]) >= 2
              /\ \A j \in (i + 1)..(N + 1) : Len(reads'[j]) < 2
          BY <2>1
        <4>2. i # N + 1
          BY <1>1, <2>5, <4>1
        <4>3. i \in 1..N /\ \A j \in (i + 1)..N : j \in (i + 1)..(N + 1) /\ j \in 1..N
          BY <1>1, <4>1, <4>2
        <4> QED BY <1>1, <4>1, <4>3 DEF HeldAt
      <3>2. ASSUME NEW i \in HeldAt(N) PROVE i \in H
        <4>1. i \in 1..N /\ Len(reads[i]) >= 2 /\ \A j \in (i + 1)..N : Len(reads[j]) < 2
          BY DEF HeldAt
        <4>2. i \in 1..(N + 1) /\ Len(reads'[i]) >= 2
          BY <1>1, <4>1
        <4>3. ASSUME NEW j \in (i + 1)..(N + 1) PROVE Len(reads'[j]) < 2
          <5>1. CASE j = N + 1
            <6>1. reads'[j] = ms
              BY <1>1, <5>1, Zenon
            <6>2. ~(Len(ms) >= 2) => Len(ms) < 2
              BY <2>3
            <6>3. Len(ms) < 2
              BY <2>5, <6>2
            <6> QED BY <6>1, <6>3, Zenon
          <5>2. CASE j # N + 1
            <6>1. j \in (i + 1)..N /\ j \in 1..N
              <7>1. i \in 1..N
                BY <4>1
              <7>2. \A a, b \in Nat : \A c \in (a + 1)..(b + 1) :
                       c # b + 1 => c \in (a + 1)..b /\ c \in 1..b
                OBVIOUS
              <7>3. i \in Nat /\ N \in Nat
                BY <7>1
              <7> QED BY <5>2, <7>2, <7>3
            <6> QED BY <1>1, <4>1, <6>1
          <5> QED BY <5>1, <5>2
        <4> QED BY <2>1, <4>2, <4>3
      <3> HIDE DEF H
      <3>3. H = HeldAt(N)
        BY <3>1, <3>2
      <3> QED BY <2>5, <3>3 DEF H
    <2> QED BY <2>4, <2>5
  <1> QED BY <1>1, <1>3, <1>4, <1>5, <1>6, <1>7, <1>8

-----------------------------------------------------------------------------
(* The invariant.                                                            *)

Sample == [channel : {"Analog0", "Analog1"}, at : Nat, mv : Nat]
Full   == {p \in Seq(Sample) : Len(p) = Capacity}
Batch  == [seq : Nat, samples : Full]

SamplerTypeOK ==
    /\ sampler \in [pa0_mv : Nat, pa1_mv : Nat, sample_count : Nat]
    /\ packet \in Seq(Sample) /\ Len(packet) < Capacity
    /\ seq \in Nat /\ last_timestamp \in Nat
    /\ packets \in Seq(Batch)
    /\ reads \in Seq(Seq(Count))

\* The clock of the task agrees with the reads until it wraps; a read that
\* left readings has ended by now.
ClockInv ==
    /\ Now < WordMod => last_timestamp = Now
    /\ \A k \in 1..Len(reads) : reads[k] # <<>> => TimeOf(k) < Now

\* The sampler holds the averages of the last read that had both inputs.
HeldInv ==
    \A k \in Nat : k = Len(reads) =>
        /\ \A i \in HeldAt(k) : /\ sampler.pa0_mv = Average(reads[i], 1)
                                /\ sampler.pa1_mv = Average(reads[i], 2)
        /\ HeldAt(k) = {} => sampler.pa0_mv = 0 /\ sampler.pa1_mv = 0

Traced == SamplesTraceable /\ (ClockRuns => IsFiniteSet(Kept))

SamplerInv == SamplerTypeOK /\ ClockInv /\ HeldInv /\ Traced

-----------------------------------------------------------------------------
(* Packets.                                                                  *)

\* A remainder is a number, and below the modulus there is nothing to take off.
LEMMA ModIs ==
    ASSUME NEW a \in Nat, NEW m \in Nat \ {0}
    PROVE  a % m \in Nat /\ (a < m => a % m = a)
  OBVIOUS

\* What a packet and the packets sent hold.
KeptIn(p, ss) ==
    {p[i] : i \in DOMAIN p} \cup UNION {{ss[i].samples[j] : j \in 1..Capacity} : i \in DOMAIN ss}

\* Kept in terms of it.
LEMMA KeptIs ==
    Kept = KeptIn(packet, packets) /\ Kept' = KeptIn(packet', packets')
  BY DEF Kept, KeptIn

\* A sample that is added is kept.
LEMMA KeptAppend ==
    ASSUME NEW p \in Seq(Sample), NEW s \in Sample, NEW ss
    PROVE  KeptIn(Append(p, s), ss) = KeptIn(p, ss) \cup {s}
  <1> DEFINE t == Append(p, s)
             N == Len(p)
  <1>1. /\ N \in Nat /\ DOMAIN p = 1..N /\ DOMAIN t = 1..(N + 1)
        /\ \A i \in 1..N : t[i] = p[i]
        /\ t[N + 1] = s
    BY AppendProperties
  <1> HIDE DEF t, N
  <1>2. {t[i] : i \in DOMAIN t} = {p[i] : i \in DOMAIN p} \cup {s}
    <2>1. \A i \in 1..(N + 1) : i \in 1..N \/ i = N + 1
      BY <1>1
    <2>2. N + 1 \in 1..(N + 1) /\ \A i \in 1..N : i \in 1..(N + 1)
      BY <1>1
    <2> QED BY <1>1, <2>1, <2>2
  <1>3. KeptIn(t, ss) = KeptIn(p, ss) \cup {s}
    BY <1>2 DEF KeptIn
  <1> QED BY <1>3 DEF t

\* A packet that is sent is kept.
LEMMA KeptFlush ==
    ASSUME NEW p \in Full, NEW ss \in Seq(Batch), NEW b \in Batch, b.samples = p
    PROVE  KeptIn(<<>>, Append(ss, b)) = KeptIn(p, ss)
  <1> DEFINE t == Append(ss, b)
             N == Len(ss)
             R == {p[i] : i \in DOMAIN p}
             U(x) == UNION {{x[i].samples[j] : j \in 1..Capacity} : i \in DOMAIN x}
  <1>1. /\ N \in Nat /\ DOMAIN ss = 1..N /\ DOMAIN t = 1..(N + 1)
        /\ \A i \in 1..N : t[i] = ss[i]
        /\ t[N + 1] = b
    BY AppendProperties
  <1>2. R = {b.samples[j] : j \in 1..Capacity}
    <2>1. DOMAIN p = 1..Capacity
      BY DEF Full
    <2> QED BY <2>1
  <1>3. U(t) = U(ss) \cup R
    <2> HIDE DEF t, N
    <2>1. \A i \in 1..(N + 1) : i \in 1..N \/ i = N + 1
      BY <1>1
    <2>2. N + 1 \in 1..(N + 1) /\ \A i \in 1..N : i \in 1..(N + 1)
      BY <1>1
    <2> DEFINE V(i, x) == {x[i].samples[j] : j \in 1..Capacity}
    <2>3. \A i \in 1..N : V(i, t) = V(i, ss)
      BY <1>1
    <2>4. V(N + 1, t) = R
      BY <1>1, <1>2
    <2>5. U(t) = UNION {V(i, t) : i \in 1..(N + 1)} /\ U(ss) = UNION {V(i, ss) : i \in 1..N}
      BY <1>1
    <2> HIDE DEF U, V, R
    <2> QED BY <2>1, <2>2, <2>3, <2>4, <2>5
  <1>4. {<<>>[i] : i \in DOMAIN <<>>} = {}
    OBVIOUS
  <1>5. KeptIn(<<>>, t) = {<<>>[i] : i \in DOMAIN <<>>} \cup U(t) /\ KeptIn(p, ss) = R \cup U(ss)
    BY DEF KeptIn
  <1> HIDE DEF U, R
  <1> QED BY <1>3, <1>4, <1>5 DEF t

\* The readings of the two inputs under one time.
First(s, time)  == [channel |-> "Analog0", at |-> time, mv |-> s.pa0_mv]
Second(s, time) == [channel |-> "Analog1", at |-> time, mv |-> s.pa1_mv]

\* What a pass of the task puts into the packet: each reading that is a number,
\* but for the second when the first was the last that fitted.
LEMMA FilledIs ==
    ASSUME NEW p \in Seq(Sample), Len(p) < Capacity, NEW time \in Nat, NEW ss,
           NEW s \in [pa0_mv : Nat, pa1_mv : Nat, sample_count : Nat]
    PROVE  LET filled == PushReadings(p, s, time)
               x == First(s, time)
               y == Second(s, time)
           IN  \E A \in SUBSET {x, y} :
                  /\ filled \in Seq(Sample) /\ Len(filled) <= Capacity
                  /\ IsFiniteSet(A) /\ Len(filled) = Len(p) + Cardinality(A)
                  /\ KeptIn(filled, ss) = KeptIn(p, ss) \cup A
                  /\ x \in A <=> ~isnan(s.pa0_mv)
                  /\ y \in A => ~isnan(s.pa1_mv)
                  /\ ~isnan(s.pa1_mv) /\ y \notin A =>
                        Len(filled) = Capacity /\ filled[Capacity] = x
  <1> DEFINE x == First(s, time)
             y == Second(s, time)
             a == isnan(s.pa0_mv)
             b == isnan(s.pa1_mv)
             p1 == IF a THEN p ELSE push(p, "Analog0", time, s.pa0_mv)
             A1 == IF a THEN {} ELSE {x}
             filled == PushReadings(p, s, time)
  <1>1. x \in Sample /\ y \in Sample /\ x # y
    BY DEF First, Second, Sample
  <1>2. Len(p) \in Nat /\ Capacity \in Nat
    BY SamplerAssumption
  <1>3. p1 = IF a THEN p ELSE Append(p, x)
    BY <1>2 DEF push, is_full, First
  <1>4. filled = IF b THEN p1 ELSE push(p1, "Analog1", time, s.pa1_mv)
    BY DEF PushReadings
  <1>5. push(p1, "Analog1", time, s.pa1_mv) = IF Len(p1) >= Capacity THEN p1 ELSE Append(p1, y)
    BY DEF push, is_full, Second
  <1> HIDE DEF x, y, a, b, p1, filled
  <1>6. /\ p1 \in Seq(Sample) /\ Len(p1) \in Nat /\ Len(p1) <= Capacity
        /\ IsFiniteSet(A1) /\ Cardinality(A1) \in Nat /\ Len(p1) = Len(p) + Cardinality(A1)
        /\ KeptIn(p1, ss) = KeptIn(p, ss) \cup A1
        /\ Len(p1) >= Capacity => Len(p1) = Capacity /\ ~a /\ p1[Capacity] = x
    <2>1. CASE a
      <3>1. p1 = p /\ A1 = {}
        BY <1>3, <2>1
      <3>2. IsFiniteSet(A1) /\ Cardinality(A1) = 0
        BY <3>1, FS_EmptySet
      <3> HIDE DEF A1
      <3> QED BY <1>2, <3>1, <3>2
    <2>2. CASE ~a
      <3>1. p1 = Append(p, x) /\ A1 = {x}
        BY <1>3, <2>2
      <3>2. IsFiniteSet(A1) /\ Cardinality(A1) = 1
        BY <3>1, FS_Singleton
      <3> HIDE DEF A1
      <3>3. p1 \in Seq(Sample) /\ Len(p1) = Len(p) + 1 /\ p1[Len(p) + 1] = x
        BY <1>1, <3>1, AppendProperties
      <3>4. KeptIn(p1, ss) = KeptIn(p, ss) \cup A1
        BY <1>1, <3>1, KeptAppend
      <3>5. Len(p1) <= Capacity /\ (Len(p1) >= Capacity => Capacity = Len(p) + 1)
        BY <1>2, <3>3
      <3> QED BY <1>2, <2>2, <3>2, <3>3, <3>4, <3>5
    <2> QED BY <2>1, <2>2
  <1>7. A1 \in SUBSET {x, y} /\ y \notin A1 /\ (x \in A1 <=> ~a)
    BY <1>1
  <1> HIDE DEF A1
  <1> DEFINE Good(A) == /\ filled \in Seq(Sample) /\ Len(filled) <= Capacity
                        /\ IsFiniteSet(A) /\ Len(filled) = Len(p) + Cardinality(A)
                        /\ KeptIn(filled, ss) = KeptIn(p, ss) \cup A
                        /\ x \in A <=> ~a
                        /\ y \in A => ~b
                        /\ ~b /\ y \notin A => Len(filled) = Capacity /\ filled[Capacity] = x
  <1>8. CASE b
    <2>1. filled = p1
      BY <1>4, <1>8
    <2>2. Good(A1)
      BY <1>6, <1>7, <1>8, <2>1
    <2> HIDE DEF Good
    <2>3. \E A \in SUBSET {x, y} : Good(A)
      BY <1>7, <2>2
    <2> QED BY <2>3 DEF Good, x, y, a, b, filled
  <1>9. CASE ~b /\ Len(p1) >= Capacity
    <2>1. filled = p1
      BY <1>4, <1>5, <1>9
    <2>2. Good(A1)
      BY <1>6, <1>7, <1>9, <2>1
    <2> HIDE DEF Good
    <2>3. \E A \in SUBSET {x, y} : Good(A)
      BY <1>7, <2>2
    <2> QED BY <2>3 DEF Good, x, y, a, b, filled
  <1>10. CASE ~b /\ ~(Len(p1) >= Capacity)
    <2>1. filled = Append(p1, y)
      BY <1>4, <1>5, <1>10
    <2> DEFINE A2 == A1 \cup {y}
    <2>2. IsFiniteSet(A2) /\ Cardinality(A2) = Cardinality(A1) + 1
      BY <1>6, <1>7, FS_AddElement
    <2>3. filled \in Seq(Sample) /\ Len(filled) = Len(p1) + 1
      BY <1>1, <1>6, <2>1, AppendProperties
    <2>4. KeptIn(filled, ss) = KeptIn(p1, ss) \cup {y}
      BY <1>1, <1>6, <2>1, KeptAppend
    <2>5. Len(filled) <= Capacity /\ Len(filled) = Len(p) + Cardinality(A2)
      BY <1>2, <1>6, <1>10, <2>2, <2>3
    <2>6. KeptIn(filled, ss) = KeptIn(p, ss) \cup A2
      BY <1>6, <2>4
    <2>7. A2 \in SUBSET {x, y} /\ y \in A2 /\ (x \in A2 <=> ~a)
      BY <1>1, <1>7
    <2> HIDE DEF A2
    <2>8. Good(A2)
      BY <1>10, <2>2, <2>3, <2>5, <2>6, <2>7
    <2> HIDE DEF Good
    <2>9. \E A \in SUBSET {x, y} : Good(A)
      BY <2>7, <2>8
    <2> QED BY <2>9 DEF Good, x, y, a, b, filled
  <1> QED BY <1>8, <1>9, <1>10

-----------------------------------------------------------------------------
(* The steps.                                                                *)

\* The invariant holds before the first read,
LEMMA SamplerInitInv ==
    SamplerInit => SamplerInv
  <1> SUFFICES ASSUME SamplerInit PROVE SamplerInv
    OBVIOUS
  <1>1. /\ sampler = [pa0_mv |-> 0, pa1_mv |-> 0, sample_count |-> 0] /\ packet = <<>>
        /\ seq = 0 /\ last_timestamp = 0 /\ packets = <<>> /\ reads = <<>>
    BY DEF SamplerInit, NewSampler
  <1>2. /\ Len(packet) = 0 /\ Len(packets) = 0 /\ Len(reads) = 0
        /\ DOMAIN packet = {} /\ DOMAIN packets = {} /\ DOMAIN reads = {}
    BY <1>1
  <1>3. SamplerTypeOK
    <2>1. 0 < Capacity
      BY SamplerAssumption
    <2> QED BY <1>1, <1>2, <2>1 DEF SamplerTypeOK
  <1>4. ClockInv
    <2>1. reads \in Seq(Seq(Count))
      BY <1>1
    <2>2. Now = 0
      BY <1>2, <2>1, TimesAre DEF Now
    <2> QED BY <1>1, <1>2, <2>2 DEF ClockInv
  <1>5. HeldInv
    <2>1. HeldAt(0) = {}
      BY DEF HeldAt
    <2> QED BY <1>1, <1>2, <2>1 DEF HeldInv
  <1>6. Traced
    <2>1. Kept = {} /\ Due = {}
      BY <1>2 DEF Kept, Due
    <2>2. IsFiniteSet(Kept) /\ Cardinality(Kept) = 0
      BY <2>1, FS_EmptySet
    <2>3. Len(packet) + Capacity * Len(packets) = 0
      BY <1>2, SamplerAssumption
    <2> QED BY <2>1, <2>2, <2>3 DEF Traced, SamplesTraceable
  <1> QED BY <1>3, <1>4, <1>5, <1>6 DEF SamplerInv

\* A reading that is a number.
IsNumber(v) == v \in 1..65535

\* What is due of the reads before is due still, and what more is that of the
\* last read; the clock has not wrapped if it did not before it.
LEMMA DueGrows ==
    ASSUME SamplerInv, NEW ms \in Seq(Count), reads' = Append(reads, ms),
           NEW N \in Nat, N = Len(reads)
    PROVE  /\ Due' = Due \cup {s \in Readings(N + 1)' : IsNumber(s.mv)}
           /\ ClockRuns' => ClockRuns /\ Now < WordMod /\ last_timestamp = Now
           /\ \A s \in Due : s.at < Now
  <1>1. reads \in Seq(Seq(Count))
    BY DEF SamplerInv, SamplerTypeOK
  <1>2. /\ Len(reads') = N + 1 /\ DOMAIN reads = 1..N /\ DOMAIN reads' = 1..(N + 1)
        /\ reads' \in Seq(Seq(Count))
        /\ \A k \in 1..N : TimeOf(k)' = TimeOf(k) /\ Readings(k)' = Readings(k)
        /\ TimeOf(N + 1)' = Now
    <2>1. /\ reads' \in Seq(Seq(Count)) /\ Len(reads') = N + 1
          /\ \A k \in 1..N : TimeOf(k)' = TimeOf(k) /\ Readings(k)' = Readings(k)
          /\ TimeOf(N + 1)' = Now
      BY <1>1, ReadsGrow
    <2> QED BY <1>1, <2>1
  <1>3. /\ \A k \in 1..N : k \in 1..(N + 1)
        /\ N + 1 \in 1..(N + 1) /\ \A k \in 1..(N + 1) : k \in 1..N \/ k = N + 1
    OBVIOUS
  <1> DEFINE R(k) == {s \in Readings(k) : IsNumber(s.mv)}
             Q(k) == {s \in Readings(k)' : IsNumber(s.mv)}
  <1>4. Due = UNION {R(k) : k \in 1..N}
    BY <1>2, SMTT(30) DEF Due, Numbers, IsNumber
  <1>5. Due' = UNION {Q(k) : k \in 1..(N + 1)}
    BY <1>2, SMTT(30) DEF Due, Numbers, IsNumber
  <1>6. \A k \in 1..N : Q(k) = R(k)
    BY <1>2
  <1>7. Due' = Due \cup Q(N + 1)
    <2> HIDE DEF R, Q
    <2> QED BY <1>3, <1>4, <1>5, <1>6
  <1>8. ASSUME ClockRuns' PROVE ClockRuns /\ Now < WordMod /\ last_timestamp = Now
    <2>1. \A k \in 1..(N + 1) : TimeOf(k)' < WordMod
      BY <1>2, <1>8 DEF ClockRuns
    <2>2. ClockRuns
      BY <1>2, <1>3, <2>1 DEF ClockRuns
    <2>3. Now < WordMod
      BY <1>2, <1>3, <2>1
    <2> QED BY <2>2, <2>3 DEF SamplerInv, ClockInv
  <1>9. ASSUME NEW s \in Due PROVE s.at < Now
    <2>1. PICK k \in 1..N : s \in Readings(k)
      BY <1>4
    <2>2. reads[k] # <<>> /\ s.at = TimeOf(k)
      BY <2>1 DEF Readings, Averages
    <2>3. ClockInv /\ k \in 1..Len(reads)
      BY DEF SamplerInv
    <2> QED BY <2>2, <2>3 DEF ClockInv
  <1> QED BY <1>7, <1>8, <1>9

\* after a read of nothing,
LEMMA ReadNothingInv ==
    ASSUME SamplerInv, ReadNothing
    PROVE  SamplerInv'
  <1>1. /\ reads' = Append(reads, <<>>) /\ sampler' = sampler /\ packet' = packet
        /\ seq' = seq /\ last_timestamp' = last_timestamp /\ packets' = packets
    BY DEF ReadNothing
  <1> DEFINE none == <<>>
  <1>2. none \in Seq(Count) /\ Len(none) = 0 /\ none = <<>>
    OBVIOUS
  <1>3. reads \in Seq(Seq(Count))
    BY DEF SamplerInv, SamplerTypeOK
  <1>4. PICK N \in Nat : N = Len(reads)
    BY <1>3
  <1>5. reads' = Append(reads, none)
    BY <1>1
  <1> HIDE DEF none
  <1>6. /\ reads' \in Seq(Seq(Count)) /\ Len(reads') = N + 1 /\ reads'[N + 1] = none
        /\ \A k \in 1..N : reads'[k] = reads[k] /\ TimeOf(k)' = TimeOf(k) /\ HeldAt(k)' = HeldAt(k)
        /\ Now \in Nat /\ Now' = Now + 100 * Len(none)
        /\ HeldAt(N + 1)' = IF Len(none) >= 2 THEN {N + 1} ELSE HeldAt(N)
    <2>1. none \in Seq(Count)
      BY <1>2
    <2> QED BY <1>3, <1>4, <1>5, <2>1, ReadsGrow
  <1>7. /\ Due' = Due \cup {s \in Readings(N + 1)' : IsNumber(s.mv)}
        /\ ClockRuns' => ClockRuns
    BY <1>2, <1>4, <1>5, DueGrows
  <1>8. Now' = Now /\ HeldAt(N + 1)' = HeldAt(N)
    BY <1>2, <1>6
  <1>9. SamplerTypeOK'
    BY <1>1, <1>6 DEF SamplerInv, SamplerTypeOK
  <1>10. ClockInv'
    <2>1. ASSUME NEW k \in 1..(N + 1), reads'[k] # <<>> PROVE TimeOf(k)' < Now'
      <3>1. k # N + 1
        BY <1>2, <1>6, <2>1
      <3>2. k \in 1..N
        BY <3>1
      <3> QED BY <1>4, <1>6, <1>8, <2>1, <3>2 DEF SamplerInv, ClockInv
    <2> QED BY <1>1, <1>6, <1>8, <2>1 DEF SamplerInv, ClockInv
  <1>11. HeldInv'
    <2>1. \A i \in HeldAt(N) : i \in 1..N
      BY DEF HeldAt
    <2>2. /\ \A i \in HeldAt(N + 1)' : /\ sampler'.pa0_mv = Average(reads'[i], 1)
                                       /\ sampler'.pa1_mv = Average(reads'[i], 2)
          /\ HeldAt(N + 1)' = {} => sampler'.pa0_mv = 0 /\ sampler'.pa1_mv = 0
      BY <1>1, <1>4, <1>6, <1>8, <2>1 DEF SamplerInv, HeldInv
    <2> QED BY <1>6, <2>2 DEF HeldInv
  <1>12. Traced'
    <2>1. Readings(N + 1)' = {}
      BY <1>2, <1>6 DEF Readings
    <2>2. Due' = Due
      BY <1>7, <2>1
    <2>3. Kept' = Kept /\ Lasts' = Lasts
      BY <1>1 DEF Kept, Lasts
    <2>4. Traced
      BY DEF SamplerInv
    <2> QED BY <1>1, <1>7, <2>2, <2>3, <2>4 DEF Traced, SamplesTraceable
  <1> QED BY <1>9, <1>10, <1>11, <1>12 DEF SamplerInv

\* A number is what isnan does not say of.
LEMMA NumberIs ==
    ASSUME NEW v \in Nat
    PROVE  IsNumber(v) <=> ~isnan(v)
  BY SMTT(30) DEF IsNumber, isnan

\* and after any other read.
LEMMA ReadInv ==
    ASSUME SamplerInv, NEW ms \in Seq(Count), ms # <<>>, Read(ms)
    PROVE  SamplerInv'
  <1> DEFINE updated == update_analog(sampler, ms)
             filled  == PushReadings(packet, updated, last_timestamp)
             x == First(updated, last_timestamp)
             y == Second(updated, last_timestamp)
             sample == [seq |-> seq, samples |-> filled]
  <1>1. /\ sampler' = updated /\ reads' = Append(reads, ms)
        /\ last_timestamp' = (last_timestamp + 100 * Len(ms)) % WordMod
        /\ IF is_full(filled)
           THEN packets' = Append(packets, sample) /\ seq' = (seq + 1) % 65536 /\ packet' = <<>>
           ELSE packet' = filled /\ packets' = packets /\ seq' = seq
    BY DEF Read, TakeIn
  <1>2. /\ sampler \in [pa0_mv : Nat, pa1_mv : Nat, sample_count : Nat]
        /\ packet \in Seq(Sample) /\ Len(packet) < Capacity
        /\ seq \in Nat /\ last_timestamp \in Nat
        /\ packets \in Seq(Batch) /\ reads \in Seq(Seq(Count))
    BY DEF SamplerInv, SamplerTypeOK
  <1>3. Len(ms) \in Nat /\ Len(ms) > 0
    OBVIOUS
  <1>4. PICK N \in Nat : N = Len(reads)
    BY <1>2
  <1>5. /\ reads' \in Seq(Seq(Count)) /\ Len(reads') = N + 1 /\ reads'[N + 1] = ms
        /\ \A k \in 1..N : reads'[k] = reads[k] /\ TimeOf(k)' = TimeOf(k) /\ HeldAt(k)' = HeldAt(k)
        /\ Now \in Nat /\ TimeOf(N + 1)' = Now /\ Now' = Now + 100 * Len(ms)
        /\ HeldAt(N + 1)' = IF Len(ms) >= 2 THEN {N + 1} ELSE HeldAt(N)
        /\ \A k \in 1..N : TimeOf(k) \in Nat
    <2>1. reads' = Append(reads, ms)
      BY <1>1
    <2> HIDE DEF updated, filled, sample
    <2> QED BY <1>2, <1>4, <2>1, ReadsGrow
  <1>6. /\ Due' = Due \cup {s \in Readings(N + 1)' : IsNumber(s.mv)}
        /\ ClockRuns' => ClockRuns /\ Now < WordMod /\ last_timestamp = Now
        /\ \A s \in Due : s.at < Now
    BY <1>1, <1>4, DueGrows
  <1>7. /\ updated \in [pa0_mv : Nat, pa1_mv : Nat, sample_count : Nat]
        /\ Len(ms) < 2 => updated = sampler
        /\ Len(ms) >= 2 => updated.pa0_mv = Average(ms, 1) /\ updated.pa1_mv = Average(ms, 2)
    <2>1. CASE Len(ms) < 2
      <3>1. updated = sampler /\ ~(Len(ms) >= 2)
        BY <1>3, <2>1 DEF update_analog
      <3> QED BY <1>2, <3>1
    <2>2. CASE ~(Len(ms) < 2)
      <3>1. updated = [pa0_mv |-> Average(ms, 1), pa1_mv |-> Average(ms, 2),
                       sample_count |-> (sampler.sample_count + Len(ms)) % WordMod]
        BY <2>2 DEF update_analog
      <3>2. Len(ms) >= 2
        BY <1>3, <2>2
      <3>3. Average(ms, 1) \in Nat /\ Average(ms, 2) \in Nat
        BY <3>2, AverageBound
      <3>4. (sampler.sample_count + Len(ms)) % WordMod \in Nat
        <4>1. sampler.sample_count + Len(ms) \in Nat
          BY <1>2, <1>3
        <4> QED BY <4>1, ModIs, SamplerAssumption
      <3> QED BY <2>2, <3>1, <3>3, <3>4
    <2> QED BY <2>1, <2>2
  <1> HIDE DEF updated
  <1>8. PICK A \in SUBSET {x, y} :
           /\ filled \in Seq(Sample) /\ Len(filled) <= Capacity
           /\ IsFiniteSet(A) /\ Len(filled) = Len(packet) + Cardinality(A)
           /\ KeptIn(filled, packets) = KeptIn(packet, packets) \cup A
           /\ x \in A <=> ~isnan(updated.pa0_mv)
           /\ y \in A => ~isnan(updated.pa1_mv)
           /\ ~isnan(updated.pa1_mv) /\ y \notin A =>
                 Len(filled) = Capacity /\ filled[Capacity] = x
    <2>1. updated \in [pa0_mv : Nat, pa1_mv : Nat, sample_count : Nat]
      BY <1>7
    <2>2. packet \in Seq(Sample) /\ Len(packet) < Capacity /\ last_timestamp \in Nat
          /\ packets \in Seq(Batch)
      BY <1>2
    <2> QED BY <2>1, <2>2, FilledIs
  <1>9. /\ x.channel = "Analog0" /\ x.at = last_timestamp /\ x.mv = updated.pa0_mv
        /\ y.channel = "Analog1" /\ y.at = last_timestamp /\ y.mv = updated.pa1_mv
    BY DEF First, Second
  <1> HIDE DEF filled, x, y, sample
  <1>10. Capacity \in Nat \ {0} /\ WordMod \in Nat \ {0}
    BY SamplerAssumption
  <1>11. Len(packet) \in Nat /\ Len(packets) \in Nat /\ Len(filled) \in Nat
    BY <1>2, <1>8
  \* A packet that is full goes out; nothing is lost by that.
  <1>12. /\ packet' \in Seq(Sample) /\ Len(packet') < Capacity
         /\ packets' \in Seq(Batch) /\ seq' \in Nat
         /\ KeptIn(packet', packets') = KeptIn(filled, packets)
         /\ Len(packet') + Capacity * Len(packets') = Len(filled) + Capacity * Len(packets)
         /\ Lasts \subseteq Lasts'
         /\ Len(filled) = Capacity => filled[Capacity] \in Lasts'
    <2>1. CASE Len(filled) = Capacity
      <3>1. packets' = Append(packets, sample) /\ seq' = (seq + 1) % 65536 /\ packet' = <<>>
        BY <1>1, <1>10, <2>1 DEF is_full
      <3>2. filled \in Full
        BY <1>8, <2>1 DEF Full
      <3>3. sample \in Batch /\ sample.samples = filled
        BY <1>2, <3>2 DEF sample, Batch
      <3>4. seq' \in Nat
        <4>1. seq + 1 \in Nat /\ 65536 \in Nat \ {0}
          BY <1>2, SMTT(30)
        <4> QED BY <3>1, <4>1, ModIs
      <3>5. /\ packets' \in Seq(Batch) /\ Len(packets') = Len(packets) + 1
            /\ packets'[Len(packets) + 1] = sample
            /\ \A i \in 1..Len(packets) : packets'[i] = packets[i]
        BY <1>2, <3>1, <3>3, AppendProperties
      <3>6. packet' \in Seq(Sample) /\ Len(packet') = 0
        BY <3>1
      <3>7. KeptIn(packet', packets') = KeptIn(filled, packets)
        BY <1>2, <3>1, <3>2, <3>3, KeptFlush
      <3>8. Len(packet') + Capacity * Len(packets') = Len(filled) + Capacity * Len(packets)
        <4>1. Capacity * (Len(packets) + 1) = Capacity + Capacity * Len(packets)
          BY <1>10, <1>11
        <4>2. Capacity * Len(packets) \in Nat
          BY <1>10, <1>11
        <4> QED BY <1>10, <2>1, <3>5, <3>6, <4>1, <4>2
      <3>9. DOMAIN packets = 1..Len(packets) /\ DOMAIN packets' = 1..(Len(packets) + 1)
        BY <1>2, <3>5
      <3>10. Lasts \subseteq Lasts'
        <4>1. \A i \in DOMAIN packets : i \in DOMAIN packets' /\ packets'[i] = packets[i]
          BY <1>11, <3>5, <3>9
        <4> QED BY <4>1 DEF Lasts
      <3>11. filled[Capacity] \in Lasts'
        <4>1. Len(packets) + 1 \in DOMAIN packets'
          BY <1>11, <3>9
        <4> QED BY <3>3, <3>5, <4>1 DEF Lasts
      <3>12. Len(packet') < Capacity
        BY <1>10, <3>6
      <3> QED BY <3>4, <3>5, <3>6, <3>7, <3>8, <3>10, <3>11, <3>12
    <2>2. CASE Len(filled) # Capacity
      <3>1. packet' = filled /\ packets' = packets /\ seq' = seq
        BY <1>1, <1>8, <1>10, <1>11, <2>2 DEF is_full
      <3>2. Lasts' = Lasts
        BY <3>1 DEF Lasts
      <3>3. Len(filled) < Capacity
        BY <1>8, <1>10, <1>11, <2>2
      <3> QED BY <1>2, <1>8, <2>2, <3>1, <3>2, <3>3
    <2> QED BY <2>1, <2>2
  <1>13. SamplerTypeOK'
    <2>1. last_timestamp' \in Nat
      <3>1. last_timestamp + 100 * Len(ms) \in Nat
        BY <1>2, <1>3
      <3> QED BY <1>1, <1>10, <3>1, ModIs
    <2>2. sampler' = updated
      BY <1>1
    <2> QED BY <1>5, <1>7, <1>12, <2>1, <2>2 DEF SamplerTypeOK
  <1>14. ClockInv'
    <2>1. Now' < WordMod => last_timestamp' = Now'
      <3>1. SUFFICES ASSUME Now' < WordMod PROVE last_timestamp' = Now'
        OBVIOUS
      <3>2. Now < WordMod
        BY <1>3, <1>5, <1>10, <3>1
      <3>3. last_timestamp = Now
        BY <3>2 DEF SamplerInv, ClockInv
      <3>4. last_timestamp' = (Now + 100 * Len(ms)) % WordMod
        BY <1>1, <3>3
      <3>5. Now + 100 * Len(ms) \in Nat
        BY <1>3, <1>5
      <3> QED BY <1>5, <1>10, <3>1, <3>4, <3>5, ModIs
    <2>2. ASSUME NEW k \in 1..(N + 1), reads'[k] # <<>> PROVE TimeOf(k)' < Now'
      <3>1. CASE k = N + 1
        BY <1>3, <1>5, <3>1
      <3>2. CASE k # N + 1
        <4>1. k \in 1..N
          BY <3>2
        <4>2. TimeOf(k)' = TimeOf(k) /\ reads'[k] = reads[k]
          BY <1>5, <4>1
        <4>3. ClockInv /\ k \in 1..Len(reads) /\ reads \in Seq(Seq(Count))
          BY <1>2, <1>4, <4>1 DEF SamplerInv
        <4>4. TimeOf(k) < Now
          BY <2>2, <4>2, <4>3 DEF ClockInv
        <4>5. TimeOf(k) \in Nat
          BY <1>5, <4>1
        <4> QED BY <1>3, <1>5, <4>2, <4>4, <4>5
      <3> QED BY <3>1, <3>2
    <2> QED BY <1>5, <2>1, <2>2 DEF ClockInv
  <1>15. /\ \A i \in HeldAt(N + 1)' : /\ updated.pa0_mv = Average(reads'[i], 1)
                                      /\ updated.pa1_mv = Average(reads'[i], 2)
         /\ HeldAt(N + 1)' = {} => updated.pa0_mv = 0 /\ updated.pa1_mv = 0
    <2>1. CASE Len(ms) >= 2
      BY <1>5, <1>7, <2>1
    <2>2. CASE Len(ms) < 2
      <3>1. HeldAt(N + 1)' = HeldAt(N) /\ updated = sampler
        BY <1>3, <1>5, <1>7, <2>2
      <3>2. \A i \in HeldAt(N) : reads'[i] = reads[i]
        BY <1>5 DEF HeldAt
      <3>3. HeldInv
        BY DEF SamplerInv
      <3> QED BY <1>4, <3>1, <3>2, <3>3 DEF HeldInv
    <2> QED BY <1>3, <2>1, <2>2
  <1>16. HeldInv'
    <2>1. sampler' = updated
      BY <1>1
    <2>2. /\ \A i \in HeldAt(N + 1)' : /\ sampler'.pa0_mv = Average(reads'[i], 1)
                                      /\ sampler'.pa1_mv = Average(reads'[i], 2)
          /\ HeldAt(N + 1)' = {} => sampler'.pa0_mv = 0 /\ sampler'.pa1_mv = 0
      BY <1>15, <2>1
    <2> QED BY <1>5, <2>2 DEF HeldInv
  <1>17. Traced'
    <2> SUFFICES ASSUME ClockRuns' PROVE
            /\ Kept' \subseteq Due' /\ IsFiniteSet(Kept')
            /\ \A s \in Due' \ Kept' :
                  s.channel = "Analog1" /\ \E l \in Lasts' : l.channel = "Analog0" /\ l.at = s.at
            /\ Len(packet') + Capacity * Len(packets') = Cardinality(Kept')
      BY DEF Traced, SamplesTraceable
    <2>1. /\ ClockRuns /\ last_timestamp = Now
      BY <1>6
    <2>2. /\ Kept \subseteq Due /\ IsFiniteSet(Kept)
          /\ \A s \in Due \ Kept :
                s.channel = "Analog1" /\ \E l \in Lasts : l.channel = "Analog0" /\ l.at = s.at
          /\ Len(packet) + Capacity * Len(packets) = Cardinality(Kept)
      BY <2>1 DEF SamplerInv, Traced, SamplesTraceable
    <2>3. \A s : s \in Readings(N + 1)' /\ IsNumber(s.mv)
                 <=> \/ s = x /\ ~isnan(updated.pa0_mv)
                     \/ s = y /\ ~isnan(updated.pa1_mv)
      <3>1. IsNumber(x.mv) <=> ~isnan(updated.pa0_mv)
        BY <1>7, <1>9, NumberIs
      <3>2. IsNumber(y.mv) <=> ~isnan(updated.pa1_mv)
        BY <1>7, <1>9, NumberIs
      <3>3. Readings(N + 1)' = UNION {Averages(reads'[i], Now) : i \in HeldAt(N + 1)'}
        BY <1>3, <1>5 DEF Readings
      <3>4. \A i \in HeldAt(N + 1)' : Averages(reads'[i], Now) = {x, y}
        BY <1>15, <2>1 DEF Averages, x, y, First, Second
      <3>5. CASE HeldAt(N + 1)' = {}
        <4>1. Readings(N + 1)' = {}
          BY <3>3, <3>5
        <4>2. isnan(updated.pa0_mv) /\ isnan(updated.pa1_mv)
          BY <1>15, <3>5, SMTT(30) DEF isnan
        <4> QED BY <4>1, <4>2
      <3>6. CASE HeldAt(N + 1)' # {}
        <4>1. Readings(N + 1)' = {x, y}
          BY <3>3, <3>4, <3>6
        <4> QED BY <3>1, <3>2, <4>1
      <3> QED BY <3>5, <3>6
    <2>4. Kept' = Kept \cup A
      BY <1>8, <1>12, KeptIs
    <2>5. A \cap Kept = {}
      <3>1. ASSUME NEW s \in A, s \in Kept PROVE FALSE
        <4>1. s.at = Now
          BY <1>9, <2>1
        <4>2. s \in Due /\ s.at < Now
          BY <1>6, <2>2, <3>1
        <4> QED BY <1>5, <4>1, <4>2
      <3> QED BY <3>1
    <2>6. IsFiniteSet(Kept') /\ Cardinality(Kept') = Cardinality(Kept) + Cardinality(A)
      <3>1. /\ IsFiniteSet(Kept \cup A)
            /\ Cardinality(Kept \cup A) = Cardinality(Kept) + Cardinality(A) - Cardinality(Kept \cap A)
        BY <1>8, <2>2, FS_Union
      <3>2. Kept \cap A = {} /\ Cardinality(Kept \cap A) = 0
        BY <2>5, FS_EmptySet
      <3>3. Cardinality(Kept) \in Nat /\ Cardinality(A) \in Nat
        BY <1>8, <2>2, FS_CardinalityType
      <3> QED BY <2>4, <3>1, <3>2, <3>3
    <2>7. Len(packet') + Capacity * Len(packets') = Cardinality(Kept')
      <3>1. Cardinality(A) \in Nat /\ Capacity * Len(packets) \in Nat
        BY <1>8, <1>10, <1>11, FS_CardinalityType
      <3> QED BY <1>8, <1>11, <1>12, <2>2, <2>6, <3>1
    <2>8. Kept' \subseteq Due'
      <3>1. ASSUME NEW s \in A PROVE s \in Due'
        <4>1. s = x \/ s = y
          OBVIOUS
        <4>2. s \in Readings(N + 1)' /\ IsNumber(s.mv)
          BY <1>8, <2>3, <4>1
        <4> QED BY <1>6, <4>2
      <3> QED BY <1>6, <2>2, <2>4, <3>1
    <2>9. ASSUME NEW s \in Due' \ Kept'
          PROVE  s.channel = "Analog1" /\ \E l \in Lasts' : l.channel = "Analog0" /\ l.at = s.at
      <3>1. CASE s \in Due
        BY <1>12, <2>2, <2>4, <3>1
      <3>2. CASE s \notin Due
        <4>1. s \in Readings(N + 1)' /\ IsNumber(s.mv)
          BY <1>6, <3>2
        <4>2. s = y /\ ~isnan(updated.pa1_mv) /\ y \notin A
          BY <1>8, <2>3, <2>4, <4>1
        <4>3. filled[Capacity] = x /\ x \in Lasts'
          BY <1>8, <1>12, <4>2
        <4> QED BY <1>9, <4>2, <4>3
      <3> QED BY <3>1, <3>2
    <2> QED BY <2>6, <2>7, <2>8, <2>9
  <1> QED BY <1>13, <1>14, <1>16, <1>17 DEF SamplerInv

\* Every step of the task keeps the invariant.
LEMMA SamplerNextInv ==
    ASSUME SamplerInv, [SamplerNext]_samplerVars
    PROVE  SamplerInv'
  <1>1. CASE ReadNothing
    BY <1>1, ReadNothingInv
  <1>2. ASSUME NEW n \in 1..MaxCount, NEW ms \in [1..n -> Counts], Read(ms)
        PROVE  SamplerInv'
    <2>1. n \in Nat \ {0} /\ Counts \subseteq Count
      BY ReadAssumption DEF Count
    <2>2. ms \in [1..n -> Count]
      BY <2>1
    <2>3. ms \in Seq(Count) /\ Len(ms) = n
      BY <2>1, <2>2, SeqDef, LenProperties
    <2>4. ms # <<>>
      BY <2>1, <2>3
    <2> QED BY <1>2, <2>3, <2>4, ReadInv
  <1>3. CASE UNCHANGED samplerVars
    <2>1. /\ sampler' = sampler /\ packet' = packet /\ seq' = seq
          /\ last_timestamp' = last_timestamp /\ packets' = packets /\ reads' = reads
      BY <1>3 DEF samplerVars
    <2>2. SamplerTypeOK'
      BY <2>1 DEF SamplerInv, SamplerTypeOK
    <2>3. \A k : TimeOf(k)' = TimeOf(k) /\ HeldAt(k)' = HeldAt(k)
      BY <2>1 DEF TimeOf, HeldAt
    <2>4. ClockInv'
      BY <2>1, <2>3 DEF SamplerInv, ClockInv, Now
    <2>5. HeldInv'
      BY <2>1, <2>3 DEF SamplerInv, HeldInv
    <2>6. \A k : Readings(k)' = Readings(k)
      BY <2>1, <2>3 DEF Readings
    <2>7. Due' = Due /\ (ClockRuns' <=> ClockRuns)
      <3>1. ClockRuns' <=> ClockRuns
        BY <2>1, <2>3 DEF ClockRuns
      <3>2. Due' = Due
        <4>1. \A k \in DOMAIN reads : Numbers(Readings(k))' = Numbers(Readings(k))
          BY <2>6
        <4>2. DOMAIN reads' = DOMAIN reads
          BY <2>1
        <4> QED BY <4>1, <4>2 DEF Due
      <3> QED BY <3>1, <3>2
    <2>8. Kept' = Kept /\ Lasts' = Lasts
      BY <2>1 DEF Kept, Lasts
    <2>9. Traced'
      BY <2>1, <2>7, <2>8 DEF SamplerInv, Traced, SamplesTraceable
    <2> QED BY <2>2, <2>4, <2>5, <2>9 DEF SamplerInv
  <1> QED BY <1>1, <1>2, <1>3 DEF SamplerNext

\* The invariant holds of every state of the task.
THEOREM SamplerInvariant == SamplerSpec => []SamplerInv
  BY SamplerInitInv, SamplerNextInv, PTL DEF SamplerSpec

\* Whatever the reads and however they fall on the packets, the samples that
\* are sent or kept are those of the reads, as long as the clock runs.
THEOREM Traceable == SamplerSpec => []SamplesTraceable
  <1>1. SamplerInv => SamplesTraceable
    BY DEF SamplerInv, Traced
  <1> QED BY <1>1, SamplerInvariant, PTL

\* The invariant gives the bound on what the sampler holds.
LEMMA ScaleIs ==
    ASSUME SamplerInv
    PROVE  OverScaleOnlyOdd
  <1>1. PICK N \in Nat : N = Len(reads)
    BY DEF SamplerInv, SamplerTypeOK
  <1>2. /\ \A i \in HeldAt(N) : /\ sampler.pa0_mv = Average(reads[i], 1)
                                /\ sampler.pa1_mv = Average(reads[i], 2)
        /\ HeldAt(N) = {} => sampler.pa0_mv = 0 /\ sampler.pa1_mv = 0
    BY <1>1 DEF SamplerInv, HeldInv
  <1>3. ASSUME NEW i \in HeldAt(N)
        PROVE  /\ Average(reads[i], 2) <= FullScale
               /\ Average(reads[i], 1) > FullScale => Len(reads[i]) % 2 = 1
    <2>1. i \in 1..Len(reads) /\ Len(reads[i]) >= 2
      BY <1>1 DEF HeldAt
    <2>2. reads[i] \in Seq(Count)
      BY <2>1 DEF SamplerInv, SamplerTypeOK
    <2> QED BY <2>1, <2>2, AverageBound
  <1>4. CASE HeldAt(N) = {}
    <2>1. sampler.pa0_mv = 0 /\ sampler.pa1_mv = 0
      BY <1>2, <1>4
    <2>2. 0 <= FullScale /\ ~(0 > FullScale)
      BY DEF FullScale
    <2> QED BY <2>1, <2>2 DEF OverScaleOnlyOdd
  <1>5. CASE HeldAt(N) # {}
    <2>1. PICK i \in HeldAt(N) : TRUE
      BY <1>5
    <2>2. sampler.pa1_mv <= FullScale
      BY <1>2, <1>3, <2>1
    <2>3. ASSUME sampler.pa0_mv > FullScale, NEW j \in HeldAt(Len(reads))
          PROVE  Len(reads[j]) % 2 = 1
      BY <1>1, <1>2, <1>3, <2>3
    <2> QED BY <2>2, <2>3 DEF OverScaleOnlyOdd
  <1> QED BY <1>4, <1>5

\* The second input never reads beyond full scale, and the first only after a
\* full read of an odd length.
THEOREM OverScale == SamplerSpec => []OverScaleOnlyOdd
  BY ScaleIs, SamplerInvariant, PTL
=============================================================================
