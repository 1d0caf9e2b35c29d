------------------------------ MODULE MDNSHandler ------------------------------
(***************************************************************************)
(* The MDNSHandler of one node: it advertises the service of its group and *)
(* scans for the same service of other nodes, for scan_duration            *)
(* deciseconds at a time and time_between_scans deciseconds apart.  Both   *)
(* countdowns are unsigned ints and are decremented before they are        *)
(* compared with 0.                                                        *)
(*                                                                         *)
(* What a commit tells the Synchronizer is not part of this module.  An    *)
(* mDNS interface has been provided, as everywhere in the tests.           *)
(***************************************************************************)
EXTENDS Integers

CONSTANTS
  GroupNames,           \* the names of groups
  DefaultGroupName,     \* the initial one, the empty string
  Durations,            \* what the two setters are called with
  DefaultInterval,      \* initial time between scans (600)
  DefaultDuration,      \* initial scan duration (20)
  UIntMod               \* unsigned ints wrap at UIntMod (2^32)

ASSUME GroupAssumption == DefaultGroupName \in GroupNames

ASSUME DurationAssumption ==
  /\ UIntMod \in Nat
  /\ Durations \subseteq 0 .. UIntMod - 1
  /\ {DefaultInterval, DefaultDuration} \subseteq 1 .. UIntMod - 1

VARIABLES
  is_mdns_running,
  group_name,
  time_between_scans,
  time_until_next_scan,
  scan_duration,
  time_until_commit,
  is_performing_scan,
  (* the mDNS library *)
  services,             \* groups whose service it advertises for this node
  query,                \* the group whose service it looks for
  (* history *)
  zero_period_set,      \* a setter has been called with 0
  phase_planned,        \* the countdown the current scan or pause began with
  phase_ticks,          \* ticks since it began, counted up to one too many
  query_now_pending     \* perform_service_query_now since the last scan began

settings_vars == <<time_between_scans, scan_duration, zero_period_set>>
library_vars == <<is_mdns_running, services>>
countdown_vars == <<time_until_next_scan, time_until_commit>>
phase_vars == <<is_performing_scan, phase_planned, phase_ticks>>
vars == <<group_name, query, query_now_pending, settings_vars, library_vars,
          countdown_vars, phase_vars>>

NoQuery == "no query"

Minimum(x, y) == IF x <= y THEN x ELSE y
SignedDecrement(x) == x - 1                                         \* mutant
Decremented(x) == (x - 1) % UIntMod

Init ==
  /\ is_mdns_running = FALSE
  /\ group_name = DefaultGroupName
  /\ time_between_scans = DefaultInterval
  /\ time_until_next_scan = DefaultInterval
  /\ scan_duration = DefaultDuration
  /\ time_until_commit = 0
  /\ is_performing_scan = FALSE
  /\ services = {}
  /\ query = NoQuery
  /\ zero_period_set = FALSE
  /\ phase_planned = DefaultInterval
  /\ phase_ticks = 0
  /\ query_now_pending = FALSE

--------------------------------------------------------------------------------
(* Advertising the service. *)

SetupServiceTexts == FALSE

(* start_mdns with the answers of the library to begin and add_service.    *)
(* The service is up although start_mdns never gets to is_mdns_running.    *)
StartMDNS(group, began, added, running, advertised) ==
  /\ services' = IF began /\ added THEN advertised \cup {group} ELSE advertised
  /\ is_mdns_running' = (running \/ (began /\ added /\ SetupServiceTexts))

(* restart_mdns: close takes the services and the query away. *)
RestartAndSearch(group, closed, began, added) ==                    \* mutant
  IF closed
    THEN /\ query' = (IF is_performing_scan THEN group ELSE NoQuery)
         /\ StartMDNS(group, began, added, FALSE, {})
    ELSE UNCHANGED <<query, library_vars>>
RestartMDNS(group, closed, began, added) ==
  IF closed
    THEN /\ query' = NoQuery
         /\ StartMDNS(group, began, added, FALSE, {})
    ELSE UNCHANGED <<query, library_vars>>

InitMDNS(began, added) ==
  /\ ~is_mdns_running
  /\ StartMDNS(group_name, began, added, is_mdns_running, services)
  /\ UNCHANGED <<group_name, query, query_now_pending, settings_vars,
       countdown_vars, phase_vars>>

SetHostname(closed, began, added) ==
  /\ RestartMDNS(group_name, closed, began, added)
  /\ UNCHANGED <<group_name, query_now_pending, settings_vars, countdown_vars,
       phase_vars>>

SetGroupName(group, closed, began, added) ==
  /\ group_name' = group
  /\ IF is_mdns_running
       THEN RestartMDNS(group, closed, began, added)
       ELSE UNCHANGED <<query, library_vars>>
  /\ UNCHANGED <<query_now_pending, settings_vars, countdown_vars, phase_vars>>

--------------------------------------------------------------------------------
(* The scan schedule. *)

(* The setters only ever bring the end of the current countdown forward.   *)
Restarted(remaining, period) == period                              \* mutant
Shortened(remaining, period) == Minimum(remaining, period)

SetTimeBetweenScans(t) ==
  /\ time_between_scans' = t
  /\ time_until_next_scan' = Shortened(time_until_next_scan, t)
  /\ zero_period_set' = (zero_period_set \/ t = 0)
  /\ UNCHANGED <<group_name, query, query_now_pending, scan_duration,
       library_vars, time_until_commit, phase_vars>>

SetScanDuration(t) ==
  /\ scan_duration' = t
  /\ time_until_commit' = Shortened(time_until_commit, t)
  /\ zero_period_set' = (zero_period_set \/ t = 0)
  /\ UNCHANGED <<group_name, query, query_now_pending, time_between_scans,
       library_vars, time_until_next_scan, phase_vars>>

QueryAtZero == 0                                                    \* mutant
QueryAfterNextTick == 2                                             \* mutant
QueryNowDelay == 1

PerformServiceQueryNow ==
  /\ time_until_next_scan' = QueryNowDelay
  /\ query_now_pending' = TRUE
  /\ UNCHANGED <<group_name, query, settings_vars, library_vars,
       time_until_commit, phase_vars>>

CountsDown ==
  /\ phase_ticks' = Minimum(phase_ticks + 1, phase_planned + 1)
  /\ UNCHANGED <<query, query_now_pending, is_performing_scan, phase_planned>>

(* start_scan and stop_scan, at the end of a countdown.  The next          *)
(* countdown begins with its full period.                                  *)
StartScan ==
  /\ query' = group_name
  /\ is_performing_scan' = TRUE
  /\ time_until_commit' = scan_duration
  /\ phase_planned' = scan_duration
  /\ phase_ticks' = 0
  /\ query_now_pending' = FALSE

LeavesQuery == query                                                \* mutant
RemovedQuery == NoQuery
StopScan ==
  /\ query' = RemovedQuery
  /\ is_performing_scan' = FALSE
  /\ time_until_next_scan' = time_between_scans
  /\ phase_planned' = time_between_scans
  /\ phase_ticks' = 0
  /\ UNCHANGED query_now_pending

(* on_100_ms_passed, handle_scanning_schedule *)
ScanTick ==
  LET remaining == Decremented(time_until_commit) IN
  /\ is_performing_scan
  /\ time_until_commit' = remaining
  /\ IF remaining = 0
       THEN StopScan
       ELSE CountsDown /\ UNCHANGED time_until_next_scan
  /\ UNCHANGED <<group_name, settings_vars, library_vars>>

PauseTick ==
  LET remaining == Decremented(time_until_next_scan) IN
  /\ ~is_performing_scan
  /\ time_until_next_scan' = remaining
  /\ IF remaining = 0
       THEN StartScan
       ELSE CountsDown /\ UNCHANGED time_until_commit
  /\ UNCHANGED <<group_name, settings_vars, library_vars>>

On100MsPassed == ScanTick \/ PauseTick

Next ==
  \/ \E began, added \in BOOLEAN :
       \/ InitMDNS(began, added)
       \/ \E closed \in BOOLEAN :
            \/ SetHostname(closed, began, added)
            \/ \E group \in GroupNames :
                 SetGroupName(group, closed, began, added)
  \/ \E t \in Durations : SetTimeBetweenScans(t) \/ SetScanDuration(t)
  \/ PerformServiceQueryNow
  \/ On100MsPassed

Spec == Init /\ [][Next]_vars

(* The main loop calls on_100_ms_passed for ever. *)
FairSpec == Spec /\ WF_vars(On100MsPassed)

--------------------------------------------------------------------------------
(* Properties. *)

TypeOK ==
  /\ is_mdns_running \in BOOLEAN
  /\ group_name \in GroupNames
  /\ time_between_scans \in 0 .. UIntMod - 1
  /\ time_until_next_scan \in 0 .. UIntMod - 1
  /\ scan_duration \in 0 .. UIntMod - 1
  /\ time_until_commit \in 0 .. UIntMod - 1
  /\ is_performing_scan \in BOOLEAN
  /\ services \subseteq GroupNames
  /\ query \in GroupNames \cup {NoQuery}
  /\ zero_period_set \in BOOLEAN
  /\ phase_planned \in 0 .. UIntMod - 1
  /\ phase_ticks \in 0 .. phase_planned + 1
  /\ query_now_pending \in BOOLEAN

(* Decrementing before comparing with 0 is safe: the countdown that runs   *)
(* is never 0 and never longer than its period, whatever the setters and   *)
(* perform_service_query_now do in the middle of it, unless a setter was   *)
(* called with 0; after that it may wrap around to 2^32 - 1.               *)
CountdownsRun ==
  ~zero_period_set =>
    IF is_performing_scan
      THEN time_until_commit \in 1 .. scan_duration
      ELSE time_until_next_scan \in 1 .. time_between_scans

(* A scan, and the pause between two scans, is over no later than planned  *)
(* when it began: calling the setters or asking for a query again and      *)
(* again cannot put the commit, or the next scan, off.                     *)
PhaseEndsOnTime ==
  ~zero_period_set =>
    phase_ticks + (IF is_performing_scan THEN time_until_commit
                                         ELSE time_until_next_scan)
      <= phase_planned

(* No query is left installed when the scan it was installed for is over.  *)
NoQueryBetweenScans == ~is_performing_scan => query = NoQuery

(* The node scans, and commits what it found, for ever, however often the  *)
(* application calls the setters or asks for a query; unless it calls a    *)
(* setter with 0.                                                          *)
ScansForEver ==
  \/ <>zero_period_set
  \/ []<>is_performing_scan /\ []<>~is_performing_scan

(* The Synchronizer sees a ScanCycle: whatever is set, asked for or        *)
(* restarted meanwhile, a scan hands over answers only of the group the    *)
(* node had when the scan began, and hands them over before the next one.  *)
Cycle == INSTANCE ScanCycle WITH
  Groups <- GroupNames, Nothing <- NoQuery,
  scanning <- is_performing_scan, group <- group_name, sought <- query

ImplementsScanCycle == Cycle!Spec
================================================================================
