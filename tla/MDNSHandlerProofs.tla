--------------------------- MODULE MDNSHandlerProofs ----------------------------
(***************************************************************************)
(* Proofs about MDNSHandler, for all names, durations and widths of an     *)
(* unsigned int.                                                           *)
(***************************************************************************)
EXTENDS MDNSHandler, TLAPS

UInts == 0 .. UIntMod - 1

(* Decrementing an unsigned int gives one; above 0 nothing wraps around.   *)
LEMMA DecrementedType ==
  ASSUME NEW x \in UInts
  PROVE  /\ Decremented(x) \in UInts
         /\ x > 0 => Decremented(x) = x - 1
<1>1. CASE x = 0
  <2>1. (0 - 1) % UIntMod \in UInts
    BY <1>1, DurationAssumption DEF UInts
  <2> QED
    BY <1>1, <2>1 DEF Decremented
<1>2. CASE x > 0
  <2>1. x - 1 \in 0 .. UIntMod - 1 /\ UIntMod \in Nat
    BY <1>2, DurationAssumption DEF UInts
  <2>2. (x - 1) % UIntMod = x - 1
    BY <2>1
  <2> QED
    BY <1>2, <2>1, <2>2 DEF Decremented, UInts
<1> QED
  BY <1>1, <1>2 DEF UInts

(* The smaller of two unsigned ints. *)
LEMMA MinimumType ==
  ASSUME NEW x \in UInts, NEW y \in UInts
  PROVE  /\ Minimum(x, y) \in UInts
         /\ Minimum(x, y) <= x /\ Minimum(x, y) <= y
         /\ Minimum(x, y) = x \/ Minimum(x, y) = y
BY DEF Minimum, UInts

LEMMA Constants ==
  /\ UIntMod \in Nat
  /\ Durations \subseteq UInts
  /\ DefaultInterval \in UInts /\ DefaultInterval > 0
  /\ DefaultDuration \in UInts /\ DefaultDuration > 0
BY DurationAssumption DEF UInts

--------------------------------------------------------------------------------
(* The schedule invariant: besides what is to be proved, the two periods   *)
(* are not 0 until a setter is called with 0.                              *)

PeriodsPositive == ~zero_period_set => time_between_scans > 0 /\ scan_duration > 0

ScheduleInv ==
  TypeOK /\ PeriodsPositive /\ CountdownsRun /\ PhaseEndsOnTime
    /\ NoQueryBetweenScans

(* What TypeOK says of the numbers. *)
LEMMA Numbers ==
  ASSUME TypeOK
  PROVE  /\ time_between_scans \in UInts /\ time_until_next_scan \in UInts
         /\ scan_duration \in UInts /\ time_until_commit \in UInts
         /\ phase_planned \in UInts /\ phase_ticks \in 0 .. phase_planned + 1
         /\ zero_period_set \in BOOLEAN /\ is_performing_scan \in BOOLEAN
BY DEF TypeOK, UInts

LEMMA InitSchedule == Init => ScheduleInv
<1> SUFFICES ASSUME Init
             PROVE  ScheduleInv
  OBVIOUS
<1>1. /\ time_until_next_scan \in UInts /\ time_until_commit \in UInts
      /\ phase_planned \in UInts /\ phase_ticks \in 0 .. phase_planned + 1
      /\ time_between_scans \in UInts /\ scan_duration \in UInts
  BY Constants DEF Init, UInts
<1>2. TypeOK
  BY <1>1, GroupAssumption, Zenon DEF Init, TypeOK, UInts
<1>3. PeriodsPositive
  BY Constants DEF Init, PeriodsPositive
<1>4. CountdownsRun /\ PhaseEndsOnTime
  <2>1. ~is_performing_scan
    BY DEF Init
  <2>2. time_until_next_scan \in 1 .. time_between_scans
    BY Constants DEF Init, UInts
  <2>3. phase_ticks + time_until_next_scan <= phase_planned
    BY Constants DEF Init, UInts
  <2> QED
    BY <2>1, <2>2, <2>3 DEF CountdownsRun, PhaseEndsOnTime
<1> QED
  BY <1>2, <1>3, <1>4 DEF Init, ScheduleInv, NoQueryBetweenScans

(* The schedule does not read what advertising the service writes. *)
LEMMA AdvertisingStep ==
  ASSUME ScheduleInv, UNCHANGED <<settings_vars, countdown_vars, phase_vars>>,
         query_now_pending' \in BOOLEAN, group_name' \in GroupNames,
         is_mdns_running' \in BOOLEAN, services' \subseteq GroupNames,
         query' \in {query, NoQuery}
  PROVE  ScheduleInv'
BY DEF ScheduleInv, TypeOK, PeriodsPositive, CountdownsRun, PhaseEndsOnTime,
       NoQueryBetweenScans, settings_vars, countdown_vars, phase_vars

LEMMA RestartType ==
  ASSUME TypeOK, NEW group \in GroupNames, NEW closed \in BOOLEAN,
         NEW began \in BOOLEAN, NEW added \in BOOLEAN,
         RestartMDNS(group, closed, began, added)
  PROVE  /\ is_mdns_running' \in BOOLEAN
         /\ services' \subseteq GroupNames
         /\ query' \in {query, NoQuery}
<1>1. CASE closed
  BY <1>1 DEF TypeOK, RestartMDNS, StartMDNS, SetupServiceTexts
<1>2. CASE ~closed
  BY <1>2 DEF TypeOK, RestartMDNS, library_vars
<1> QED
  BY <1>1, <1>2

LEMMA InitMDNSStep ==
  ASSUME ScheduleInv, NEW began \in BOOLEAN, NEW added \in BOOLEAN,
         InitMDNS(began, added)
  PROVE  ScheduleInv'
<1>1. /\ is_mdns_running' \in BOOLEAN
      /\ services' \subseteq GroupNames
  BY DEF ScheduleInv, TypeOK, InitMDNS, StartMDNS, SetupServiceTexts
<1> QED
  BY <1>1, AdvertisingStep DEF InitMDNS, ScheduleInv, TypeOK

LEMMA SetHostnameStep ==
  ASSUME ScheduleInv, NEW closed \in BOOLEAN, NEW began \in BOOLEAN,
         NEW added \in BOOLEAN, SetHostname(closed, began, added)
  PROVE  ScheduleInv'
<1>1. group_name \in GroupNames /\ TypeOK
  BY DEF ScheduleInv, TypeOK
<1>2. RestartMDNS(group_name, closed, began, added)
  BY DEF SetHostname
<1>3. /\ is_mdns_running' \in BOOLEAN
      /\ services' \subseteq GroupNames
      /\ query' \in {query, NoQuery}
  BY <1>1, <1>2, RestartType
<1> QED
  BY <1>3, AdvertisingStep DEF SetHostname, ScheduleInv, TypeOK

LEMMA SetGroupNameStep ==
  ASSUME ScheduleInv, NEW group \in GroupNames, NEW closed \in BOOLEAN,
         NEW began \in BOOLEAN, NEW added \in BOOLEAN,
         SetGroupName(group, closed, began, added)
  PROVE  ScheduleInv'
<1>1. TypeOK
  BY DEF ScheduleInv
<1>2. /\ is_mdns_running' \in BOOLEAN
      /\ services' \subseteq GroupNames
      /\ query' \in {query, NoQuery}
  <2>1. CASE is_mdns_running
    BY <1>1, <2>1, RestartType DEF SetGroupName
  <2>2. CASE ~is_mdns_running
    BY <1>1, <2>2 DEF SetGroupName, TypeOK, library_vars
  <2> QED
    BY <2>1, <2>2
<1> QED
  BY <1>2, AdvertisingStep DEF SetGroupName, ScheduleInv, TypeOK

--------------------------------------------------------------------------------
(* The setters and the ticks. *)

LEMMA SetTimeBetweenScansStep ==
  ASSUME ScheduleInv, NEW t \in Durations, SetTimeBetweenScans(t)
  PROVE  ScheduleInv'
<1>1. t \in UInts /\ time_until_next_scan \in UInts
  BY Constants, Numbers DEF ScheduleInv
<1>2. /\ time_until_next_scan' \in UInts
      /\ time_until_next_scan' <= time_until_next_scan
      /\ time_until_next_scan' <= t
      /\ time_until_next_scan' \in {time_until_next_scan, t}
  BY <1>1, MinimumType DEF SetTimeBetweenScans, Shortened
<1>3. TypeOK'
  BY <1>1, <1>2 DEF ScheduleInv, TypeOK, SetTimeBetweenScans, library_vars,
     phase_vars, UInts
<1>4. PeriodsPositive' /\ CountdownsRun' /\ PhaseEndsOnTime'
  <2> SUFFICES ASSUME ~zero_period_set'
               PROVE  PeriodsPositive' /\ CountdownsRun' /\ PhaseEndsOnTime'
    BY DEF PeriodsPositive, CountdownsRun, PhaseEndsOnTime
  <2>1. ~zero_period_set /\ t > 0
    <3>1. ~zero_period_set /\ t # 0
      BY Zenon DEF SetTimeBetweenScans
    <3> QED
      BY <1>1, <3>1 DEF UInts
  <2>2. PeriodsPositive'
    BY <2>1 DEF ScheduleInv, PeriodsPositive, SetTimeBetweenScans
  <2>3. CountdownsRun'
    BY <1>1, <1>2, <2>1, Numbers
       DEF ScheduleInv, CountdownsRun, SetTimeBetweenScans, phase_vars, UInts
  <2>4. PhaseEndsOnTime'
    BY <1>1, <1>2, <2>1, Numbers
       DEF ScheduleInv, PhaseEndsOnTime, SetTimeBetweenScans, phase_vars, UInts
  <2> QED
    BY <2>2, <2>3, <2>4
<1> QED
  BY <1>3, <1>4 DEF ScheduleInv, NoQueryBetweenScans, SetTimeBetweenScans,
     phase_vars

LEMMA SetScanDurationStep ==
  ASSUME ScheduleInv, NEW t \in Durations, SetScanDuration(t)
  PROVE  ScheduleInv'
<1>1. t \in UInts /\ time_until_commit \in UInts
  BY Constants, Numbers DEF ScheduleInv
<1>2. /\ time_until_commit' \in UInts
      /\ time_until_commit' <= time_until_commit
      /\ time_until_commit' <= t
      /\ time_until_commit' \in {time_until_commit, t}
  BY <1>1, MinimumType DEF SetScanDuration, Shortened
<1>3. TypeOK'
  BY <1>1, <1>2 DEF ScheduleInv, TypeOK, SetScanDuration, library_vars,
     phase_vars, UInts
<1>4. PeriodsPositive' /\ CountdownsRun' /\ PhaseEndsOnTime'
  <2> SUFFICES ASSUME ~zero_period_set'
               PROVE  PeriodsPositive' /\ CountdownsRun' /\ PhaseEndsOnTime'
    BY DEF PeriodsPositive, CountdownsRun, PhaseEndsOnTime
  <2>1. ~zero_period_set /\ t > 0
    <3>1. ~zero_period_set /\ t # 0
      BY Zenon DEF SetScanDuration
    <3> QED
      BY <1>1, <3>1 DEF UInts
  <2>2. PeriodsPositive'
    BY <2>1 DEF ScheduleInv, PeriodsPositive, SetScanDuration
  <2>3. CountdownsRun'
    BY <1>1, <1>2, <2>1, Numbers
       DEF ScheduleInv, CountdownsRun, SetScanDuration, phase_vars, UInts
  <2>4. PhaseEndsOnTime'
    BY <1>1, <1>2, <2>1, Numbers
       DEF ScheduleInv, PhaseEndsOnTime, SetScanDuration, phase_vars, UInts
  <2> QED
    BY <2>2, <2>3, <2>4
<1> QED
  BY <1>3, <1>4 DEF ScheduleInv, NoQueryBetweenScans, SetScanDuration,
     phase_vars

LEMMA PerformServiceQueryNowStep ==
  ASSUME ScheduleInv, PerformServiceQueryNow
  PROVE  ScheduleInv'
<1>1. time_until_next_scan' \in 0 .. UIntMod - 1 /\ query_now_pending' \in BOOLEAN
  <2>1. 1 \in 0 .. UIntMod - 1
    BY DurationAssumption
  <2> QED
    BY <2>1 DEF PerformServiceQueryNow, QueryNowDelay
<1>2. TypeOK'
  BY <1>1, Zenon DEF ScheduleInv, TypeOK, PerformServiceQueryNow,
     library_vars, phase_vars, settings_vars
<1>3. PeriodsPositive' /\ CountdownsRun' /\ PhaseEndsOnTime'
  BY Numbers
     DEF ScheduleInv, PeriodsPositive, CountdownsRun, PhaseEndsOnTime,
         PerformServiceQueryNow, QueryNowDelay, phase_vars, settings_vars, UInts
<1> QED
  BY <1>2, <1>3 DEF ScheduleInv, NoQueryBetweenScans, PerformServiceQueryNow,
     phase_vars

LEMMA ScanTickStep ==
  ASSUME ScheduleInv, ScanTick
  PROVE  ScheduleInv'
<1> DEFINE remaining == Decremented(time_until_commit)
<1>1. TypeOK /\ time_until_commit \in UInts
  BY Numbers DEF ScheduleInv
<1>2. /\ remaining \in UInts
      /\ time_until_commit > 0 => remaining = time_until_commit - 1
  BY <1>1, DecrementedType
<1>3. CASE remaining = 0
  <2>1. /\ is_performing_scan' = FALSE /\ query' = NoQuery
        /\ time_until_next_scan' = time_between_scans
        /\ phase_planned' = time_between_scans /\ phase_ticks' = 0
        /\ time_until_commit' = 0
        /\ UNCHANGED <<group_name, settings_vars, library_vars, query_now_pending>>
    BY <1>3 DEF ScanTick, StopScan, RemovedQuery
  <2>2. TypeOK'
    <3>1. 0 \in UInts /\ 0 \in 0 .. phase_planned' + 1
      BY <1>1, <2>1, Numbers, Constants DEF UInts, settings_vars
    <3> QED
      BY <1>1, <2>1, <3>1, Numbers, Zenon
         DEF TypeOK, settings_vars, library_vars, UInts
  <2> QED
    BY <1>1, <2>1, <2>2, Numbers
       DEF ScheduleInv, PeriodsPositive, CountdownsRun, PhaseEndsOnTime,
           NoQueryBetweenScans, settings_vars, UInts
<1>4. CASE remaining # 0
  <2>1. /\ is_performing_scan /\ is_performing_scan'
        /\ phase_ticks' = Minimum(phase_ticks + 1, phase_planned + 1)
        /\ time_until_commit' = remaining
        /\ UNCHANGED <<query, query_now_pending, phase_planned, group_name,
             settings_vars, library_vars, time_until_next_scan>>
    BY <1>1, <1>4 DEF ScanTick, CountsDown, TypeOK
  <2>2. phase_ticks' \in 0 .. phase_planned + 1 /\ phase_ticks' <= phase_ticks + 1
    BY <1>1, <2>1, Numbers DEF Minimum, UInts
  <2>3. TypeOK'
    BY <1>1, <1>2, <2>1, <2>2
       DEF TypeOK, settings_vars, library_vars, UInts
  <2> QED
    BY <1>1, <1>2, <1>4, <2>1, <2>2, <2>3, Numbers
       DEF ScheduleInv, PeriodsPositive, CountdownsRun, PhaseEndsOnTime,
           NoQueryBetweenScans, settings_vars, UInts
<1> QED
  BY <1>3, <1>4

LEMMA PauseTickStep ==
  ASSUME ScheduleInv, PauseTick
  PROVE  ScheduleInv'
<1> DEFINE remaining == Decremented(time_until_next_scan)
<1>1. TypeOK /\ time_until_next_scan \in UInts
  BY Numbers DEF ScheduleInv
<1>2. /\ remaining \in UInts
      /\ time_until_next_scan > 0 => remaining = time_until_next_scan - 1
  BY <1>1, DecrementedType
<1>3. CASE remaining = 0
  <2>1. /\ is_performing_scan' = TRUE /\ query' = group_name
        /\ time_until_commit' = scan_duration
        /\ phase_planned' = scan_duration /\ phase_ticks' = 0
        /\ time_until_next_scan' = 0 /\ query_now_pending' = FALSE
        /\ UNCHANGED <<group_name, settings_vars, library_vars>>
    BY <1>3 DEF PauseTick, StartScan
  <2>2. TypeOK'
    <3>1. 0 \in UInts /\ 0 \in 0 .. phase_planned' + 1
      BY <1>1, <2>1, Numbers, Constants DEF UInts, settings_vars
    <3> QED
      BY <1>1, <2>1, <3>1, Numbers, Zenon
         DEF TypeOK, settings_vars, library_vars, UInts
  <2> QED
    BY <1>1, <2>1, <2>2, Numbers
       DEF ScheduleInv, PeriodsPositive, CountdownsRun, PhaseEndsOnTime,
           NoQueryBetweenScans, settings_vars, UInts
<1>4. CASE remaining # 0
  <2>1. /\ ~is_performing_scan /\ ~is_performing_scan'
        /\ phase_ticks' = Minimum(phase_ticks + 1, phase_planned + 1)
        /\ time_until_next_scan' = remaining
        /\ UNCHANGED <<query, query_now_pending, phase_planned, group_name,
             settings_vars, library_vars, time_until_commit, is_performing_scan>>
    BY <1>1, <1>4 DEF PauseTick, CountsDown, TypeOK
  <2>2. phase_ticks' \in 0 .. phase_planned + 1 /\ phase_ticks' <= phase_ticks + 1
    BY <1>1, <2>1, Numbers DEF Minimum, UInts
  <2>3. TypeOK'
    BY <1>1, <1>2, <2>1, <2>2
       DEF TypeOK, settings_vars, library_vars, UInts
  <2> QED
    BY <1>1, <1>2, <1>4, <2>1, <2>2, <2>3, Numbers
       DEF ScheduleInv, PeriodsPositive, CountdownsRun, PhaseEndsOnTime,
           NoQueryBetweenScans, settings_vars, UInts
<1> QED
  BY <1>3, <1>4

LEMMA ScheduleStep == ScheduleInv /\ [Next]_vars => ScheduleInv'
<1> SUFFICES ASSUME ScheduleInv, [Next]_vars PROVE ScheduleInv'
  OBVIOUS
<1>1. ASSUME NEW began \in BOOLEAN, NEW added \in BOOLEAN, InitMDNS(began, added)
      PROVE  ScheduleInv'
  BY <1>1, InitMDNSStep
<1>2. ASSUME NEW closed \in BOOLEAN, NEW began \in BOOLEAN, NEW added \in BOOLEAN,
             SetHostname(closed, began, added)
      PROVE  ScheduleInv'
  BY <1>2, SetHostnameStep
<1>3. ASSUME NEW group \in GroupNames, NEW closed \in BOOLEAN,
             NEW began \in BOOLEAN, NEW added \in BOOLEAN,
             SetGroupName(group, closed, began, added)
      PROVE  ScheduleInv'
  BY <1>3, SetGroupNameStep
<1>4. ASSUME NEW t \in Durations, SetTimeBetweenScans(t) PROVE ScheduleInv'
  BY <1>4, SetTimeBetweenScansStep
<1>5. ASSUME NEW t \in Durations, SetScanDuration(t) PROVE ScheduleInv'
  BY <1>5, SetScanDurationStep
<1>6. CASE PerformServiceQueryNow
  BY <1>6, PerformServiceQueryNowStep
<1>7. CASE ScanTick
  BY <1>7, ScanTickStep
<1>8. CASE PauseTick
  BY <1>8, PauseTickStep
<1>9. CASE UNCHANGED vars
  BY <1>9, AdvertisingStep DEF ScheduleInv, TypeOK, vars, library_vars
<1> QED
  BY <1>1, <1>2, <1>3, <1>4, <1>5, <1>6, <1>7, <1>8, <1>9
     DEF Next, On100MsPassed

LEMMA ScheduleInvariant == Spec => []ScheduleInv
BY InitSchedule, ScheduleStep, PTL DEF Spec

(* The state of an MDNSHandler is well typed; its countdowns stay unsigned *)
(* numbers, whatever the setters are called with.                          *)
THEOREM TypeCorrect == Spec => []TypeOK
<1>1. ScheduleInv => TypeOK
  BY DEF ScheduleInv
<1> QED
  BY ScheduleInvariant, <1>1, PTL

(* Unless a setter is called with 0, handle_scanning_schedule never        *)
(* decrements a countdown that is 0.                                       *)
THEOREM NoWrapAround == Spec => []CountdownsRun
<1>1. ScheduleInv => CountdownsRun
  BY DEF ScheduleInv
<1> QED
  BY ScheduleInvariant, <1>1, PTL

(* No sequence of calls puts off the commit of a scan, or the next scan,   *)
(* beyond the period it began with.                                        *)
THEOREM NothingIsPutOff == Spec => []PhaseEndsOnTime
<1>1. ScheduleInv => PhaseEndsOnTime
  BY DEF ScheduleInv
<1> QED
  BY ScheduleInvariant, <1>1, PTL

(* A query does not outlive its scan. *)
THEOREM QueriesAreRemoved == Spec => []NoQueryBetweenScans
<1>1. ScheduleInv => NoQueryBetweenScans
  BY DEF ScheduleInv
<1> QED
  BY ScheduleInvariant, <1>1, PTL

--------------------------------------------------------------------------------
(* The Synchronizer's view of the scans. *)

CycleChange == \E new \in GroupNames : Cycle!Change(new)

(* Advertising the service, under whatever name, is at most a change.      *)
LEMMA AdvertisingChanges ==
  ASSUME group_name' \in GroupNames, query' \in {query, NoQuery},
         UNCHANGED is_performing_scan
  PROVE  CycleChange
BY DEF CycleChange, Cycle!Change

LEMMA ScanCycleStep ==
  ASSUME TypeOK, TypeOK', [Next]_vars
  PROVE  [Cycle!Next]_Cycle!vars
<1>1. group_name \in GroupNames /\ group_name' \in GroupNames
  BY DEF TypeOK
<1>2. CycleChange => Cycle!Next
  BY DEF CycleChange, Cycle!Next
<1>3. ASSUME NEW began \in BOOLEAN, NEW added \in BOOLEAN, InitMDNS(began, added)
      PROVE  CycleChange
  BY <1>1, <1>3, AdvertisingChanges DEF InitMDNS, phase_vars
<1>4. ASSUME NEW closed \in BOOLEAN, NEW began \in BOOLEAN, NEW added \in BOOLEAN,
             SetHostname(closed, began, added)
      PROVE  CycleChange
  <2>1. query' \in {query, NoQuery}
    BY <1>4, RestartType DEF SetHostname, TypeOK
  <2> QED
    BY <1>1, <1>4, <2>1, AdvertisingChanges DEF SetHostname, phase_vars
<1>5. ASSUME NEW group \in GroupNames, NEW closed \in BOOLEAN,
             NEW began \in BOOLEAN, NEW added \in BOOLEAN,
             SetGroupName(group, closed, began, added)
      PROVE  CycleChange
  <2>1. query' \in {query, NoQuery}
    BY <1>5, RestartType DEF SetGroupName
  <2> QED
    BY <1>1, <1>5, <2>1, AdvertisingChanges DEF SetGroupName, phase_vars
<1>6. ASSUME NEW t \in Durations, SetTimeBetweenScans(t) \/ SetScanDuration(t)
      PROVE  UNCHANGED Cycle!vars
  BY <1>6 DEF SetTimeBetweenScans, SetScanDuration, phase_vars, Cycle!vars
<1>7. CASE PerformServiceQueryNow
  BY <1>7 DEF PerformServiceQueryNow, phase_vars, Cycle!vars
<1>8. CASE ScanTick
  BY <1>8 DEF ScanTick, StopScan, RemovedQuery, CountsDown, Cycle!Next,
              Cycle!Commit, Cycle!vars
<1>9. CASE PauseTick
  BY <1>9 DEF PauseTick, StartScan, CountsDown, Cycle!Next, Cycle!Start, Cycle!vars
<1>10. CASE UNCHANGED vars
  BY <1>10 DEF vars, phase_vars, Cycle!vars
<1> QED
  BY <1>2, <1>3, <1>4, <1>5, <1>6, <1>7, <1>8, <1>9, <1>10
     DEF Next, On100MsPassed

(* A MDNSHandler is a ScanCycle: whatever is set, asked for or restarted   *)
(* in the middle of a scan, its answers are of the group the node had when *)
(* the scan began.                                                         *)
THEOREM ScansTakeTurns == Spec => ImplementsScanCycle
<1>1. Init => Cycle!Init
  BY GroupAssumption DEF Init, Cycle!Init
<1> QED
  BY <1>1, TypeCorrect, ScanCycleStep, PTL
     DEF Spec, ImplementsScanCycle, Cycle!Spec
================================================================================
