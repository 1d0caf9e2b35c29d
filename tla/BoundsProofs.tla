------------------------------ MODULE BoundsProofs ------------------------------
(***************************************************************************)
(* NetworkHandler is bounded: how often a message is sent, and how long a  *)
(* reception is remembered.                                                *)
(***************************************************************************)
EXTENDS NetworkHandlerProofs

--------------------------------------------------------------------------------
(* Retries.                                                                *)
(*                                                                         *)
(* What an active message has been sent and what it will still be sent add *)
(* up to its budget; only the first transmission may have failed, when     *)
(* there was no interface.                                                 *)
BudgetLeft ==
  \A e \in Endpoints : \A x \in active_messages[e] :
    LET sum == transmissions[x.message] + RepeatsLeft(x)
    IN  sum = Retries(x.message) \/ sum = Retries(x.message) + 1

UnsentNotTransmitted ==
  \A m \in Messages : status[m] = "unsent" => transmissions[m] = 0

BudgetInv == BudgetLeft /\ UnsentNotTransmitted /\ RetryBudget

LEMMA RetriesType == \A m \in Messages : Retries(m) \in Nat /\ Retries(m) >= 1
BY MessageAssumption DEF Retries

LEMMA InitBudget == Init => BudgetInv
BY RetriesType
   DEF Init, BudgetInv, BudgetLeft, UnsentNotTransmitted, RetryBudget

(* Steps that send nothing and fail nothing. *)
LEMMA BudgetSame ==
  ASSUME BudgetInv,
         \A e \in Endpoints : active_messages'[e] \subseteq active_messages[e],
         \A m \in Messages :
           /\ status'[m] = "unsent" => status[m] = "unsent"
           /\ status'[m] = "failed" => status[m] = "failed",
         UNCHANGED transmissions
  PROVE  BudgetInv'
BY DEF BudgetInv, BudgetLeft, UnsentNotTransmitted, RetryBudget, RepeatsLeft

LEMMA BudgetSend ==
  ASSUME Bookkeeping, BudgetInv, NEW m \in Messages, SendMessage(m)
  PROVE  BudgetInv'
<1> DEFINE e == Source[m]
           x == [message |-> m, message_id |-> next_active_message_id[e],
                 retries_left |-> MaxRetries[m]]
<1>1. /\ TypeOK /\ e \in Endpoints
      /\ x.message = m /\ x.retries_left = MaxRetries[m]
      /\ RepeatsLeft(x) = Retries(m)
  BY MessageAssumption DEF Bookkeeping, RepeatsLeft, Retries
<1>2. /\ status[m] = "unsent"
      /\ status' = [status EXCEPT ![m] = "pending"]
      /\ active_messages' = [active_messages EXCEPT ![e] = @ \cup {x}]
  BY DEF SendMessage
<1>3. transmissions[m] = 0
  BY <1>2 DEF BudgetInv, UnsentNotTransmitted
<1>4. /\ transmissions'[m] \in {0, 1}
      /\ \A n \in Messages : n # m => transmissions'[n] = transmissions[n]
  BY <1>1, <1>3 DEF SendMessage, TypeOK
<1> HIDE DEF x
<1>5. BudgetLeft'
  <2> SUFFICES ASSUME NEW f \in Endpoints, NEW y \in active_messages'[f]
               PROVE  LET sum == transmissions'[y.message] + RepeatsLeft(y)
                      IN  \/ sum = Retries(y.message)
                          \/ sum = Retries(y.message) + 1
    BY DEF BudgetLeft, RepeatsLeft
  <2>1. CASE y \in active_messages[f]
    <3>1. y.message \in Messages /\ status[y.message] = "pending"
      BY <1>1, <2>1 DEF Bookkeeping, ActiveOK, TypeOK, ActiveNetworkMessage
    <3>2. transmissions'[y.message] = transmissions[y.message]
      BY <1>2, <1>4, <3>1
    <3> QED
      BY <2>1, <3>2 DEF BudgetInv, BudgetLeft
  <2>2. CASE y = x
    BY <1>1, <1>4, <2>2, RetriesType
  <2> QED
    BY <1>1, <1>2, <2>1, <2>2 DEF TypeOK
<1>6. UnsentNotTransmitted'
  BY <1>1, <1>2, <1>4 DEF BudgetInv, UnsentNotTransmitted, TypeOK
<1>7. RetryBudget'
  <2> SUFFICES ASSUME NEW n \in Messages
               PROVE  /\ transmissions'[n] <= 1 + Retries(n)
                      /\ status'[n] = "failed" => transmissions'[n] >= Retries(n)
    BY DEF RetryBudget
  <2>1. CASE n = m
    BY <1>1, <1>2, <1>4, <2>1, RetriesType DEF TypeOK
  <2>2. CASE n # m
    BY <1>1, <1>2, <1>4, <2>2 DEF BudgetInv, RetryBudget, TypeOK
  <2> QED
    BY <2>1, <2>2
<1> QED
  BY <1>5, <1>6, <1>7 DEF BudgetInv

(* on_100_ms_passed: every active message is sent once more and has one    *)
(* repetition less left, or fails because it was the last.                 *)
LEMMA BudgetTick ==
  ASSUME Bookkeeping, BudgetInv, NEW e \in Endpoints, On100MsPassed(e)
  PROVE  BudgetInv'
<1> DEFINE active == active_messages[e]
           failed == Discarded(active)
           sent == {x.message : x \in active}
<1>1. /\ TypeOK /\ active \in SUBSET ActiveNetworkMessage
      /\ \A f \in Endpoints : \A x \in active_messages[f] :
           /\ x.message \in Messages /\ x.retries_left \in Nat
           /\ Source[x.message] = f /\ status[x.message] = "pending"
  BY DEF Bookkeeping, TypeOK, ActiveOK, ActiveNetworkMessage
<1>2. /\ active_messages' = [active_messages EXCEPT ![e] = StillActive(active)]
      /\ transmissions' = [m \in Messages |->
                             transmissions[m] + (IF m \in sent THEN 1 ELSE 0)]
      /\ status' = [m \in Messages |-> IF m \in failed THEN "failed" ELSE status[m]]
  BY DEF On100MsPassed
<1>3. /\ \A m \in sent : \E x \in active : x.message = m
      /\ \A x \in active : x.message \in sent
      /\ \A m \in failed : \E x \in active : x.message = m /\ IsLastRetry(x)
  BY DEF Discarded
<1>4. /\ \A y \in active_messages'[e] : \E x \in active :
           /\ ~IsLastRetry(x)
           /\ y.message = x.message
           /\ y.retries_left = x.retries_left - 1
      /\ \A f \in Endpoints : f # e => active_messages'[f] = active_messages[f]
  BY <1>1, <1>2, StillActiveFields DEF TypeOK
<1> HIDE DEF failed, sent
<1>5. \A m \in Messages :
        transmissions'[m] = IF m \in sent THEN transmissions[m] + 1
                                          ELSE transmissions[m]
  BY <1>1, <1>2 DEF TypeOK
<1>6. BudgetLeft'
  <2> SUFFICES ASSUME NEW f \in Endpoints, NEW y \in active_messages'[f]
               PROVE  LET sum == transmissions'[y.message] + RepeatsLeft(y)
                      IN  \/ sum = Retries(y.message)
                          \/ sum = Retries(y.message) + 1
    BY DEF BudgetLeft, RepeatsLeft
  <2>1. CASE f = e
    <3>1. PICK x \in active : /\ ~IsLastRetry(x)
                              /\ y.message = x.message
                              /\ y.retries_left = x.retries_left - 1
      BY <1>4, <2>1
    <3>2. RepeatsLeft(y) = RepeatsLeft(x) - 1 /\ RepeatsLeft(x) \in Nat
      BY <1>1, <3>1 DEF RepeatsLeft, IsLastRetry
    <3>3. transmissions'[y.message] = transmissions[x.message] + 1
      BY <1>1, <1>3, <1>5, <3>1
    <3>4. \/ transmissions[x.message] + RepeatsLeft(x) = Retries(x.message)
          \/ transmissions[x.message] + RepeatsLeft(x) = Retries(x.message) + 1
      BY DEF BudgetInv, BudgetLeft
    <3>5. transmissions[x.message] \in Nat /\ Retries(x.message) \in Nat
      BY <1>1, RetriesType DEF TypeOK
    <3> QED
      BY <3>1, <3>2, <3>3, <3>4, <3>5
  <2>2. CASE f # e
    <3>1. y \in active_messages[f] /\ y.message \notin sent
      BY <1>1, <1>3, <1>4, <2>2
    <3> QED
      BY <1>1, <1>5, <3>1 DEF BudgetInv, BudgetLeft
  <2> QED
    BY <2>1, <2>2
<1>7. UnsentNotTransmitted'
  <2> SUFFICES ASSUME NEW m \in Messages, status'[m] = "unsent"
               PROVE  transmissions'[m] = 0
    BY DEF UnsentNotTransmitted
  <2>1. status[m] = "unsent"
    BY <1>2
  <2>2. m \notin sent
    BY <1>1, <1>3, <2>1
  <2> QED
    BY <1>5, <2>1, <2>2 DEF BudgetInv, UnsentNotTransmitted
<1>8. RetryBudget'
  <2> SUFFICES ASSUME NEW m \in Messages
               PROVE  /\ transmissions'[m] <= 1 + Retries(m)
                      /\ status'[m] = "failed" => transmissions'[m] >= Retries(m)
    BY DEF RetryBudget
  <2>1. transmissions[m] \in Nat /\ Retries(m) \in Nat
    BY <1>1, RetriesType DEF TypeOK
  <2>2. CASE m \in sent
    <3>1. PICK x \in active : x.message = m
      BY <1>3, <2>2
    <3>2. \/ transmissions[m] + RepeatsLeft(x) = Retries(m)
          \/ transmissions[m] + RepeatsLeft(x) = Retries(m) + 1
      BY <3>1 DEF BudgetInv, BudgetLeft
    <3>3. RepeatsLeft(x) \in Nat /\ RepeatsLeft(x) >= 1
      BY <1>1 DEF RepeatsLeft
    <3>4. transmissions'[m] = transmissions[m] + 1
      BY <1>5, <2>2
    <3>5. status'[m] = "failed" => RepeatsLeft(x) = 1
      <4>1. status[m] = "pending"
        BY <1>1, <3>1
      <4>2. status'[m] = "failed" => m \in failed
        BY <1>2, <4>1
      <4>3. m \in failed => IsLastRetry(x)
        BY <1>3, <3>1 DEF Bookkeeping, ActiveOnce
      <4> QED
        BY <1>1, <4>2, <4>3 DEF IsLastRetry, RepeatsLeft
    <3> QED
      BY <2>1, <3>2, <3>3, <3>4, <3>5
  <2>3. CASE m \notin sent
    <3>1. m \notin failed
      BY <1>3, <2>3
    <3> QED
      BY <1>2, <1>5, <2>3, <3>1 DEF BudgetInv, RetryBudget
  <2> QED
    BY <2>2, <2>3
<1> QED
  BY <1>6, <1>7, <1>8 DEF BudgetInv

LEMMA BudgetStep == Bookkeeping /\ BudgetInv /\ [Next]_vars => BudgetInv'
<1> SUFFICES ASSUME Bookkeeping, BudgetInv, [Next]_vars PROVE BudgetInv'
  OBVIOUS
<1>t. TypeOK
  BY DEF Bookkeeping
<1>1. ASSUME NEW m \in Messages, SendMessage(m) PROVE BudgetInv'
  BY <1>1, BudgetSend
<1>2. ASSUME NEW e \in Endpoints,
             \/ \E given \in BOOLEAN : SetUdpInterface(e, given)
             \/ \E t \in ReceptionTimes : SetMaxMessageReceptionTime(e, t)
             \/ On100MsPassedThrows(e)
      PROVE  BudgetInv'
  BY <1>2, BudgetSame
     DEF SetUdpInterface, SetMaxMessageReceptionTime, On100MsPassedThrows,
         history_vars
<1>3. ASSUME NEW e \in Endpoints, NEW S \in SUBSET Messages,
             CancelActiveMessages(e, S)
      PROVE  BudgetInv'
  <2>1. \A f \in Endpoints : active_messages'[f] \subseteq active_messages[f]
    BY <1>3, <1>t DEF CancelActiveMessages, TypeOK
  <2> QED
    BY <1>3, <2>1, BudgetSame DEF CancelActiveMessages
<1>4. ASSUME NEW e \in Endpoints, On100MsPassed(e) PROVE BudgetInv'
  BY <1>4, BudgetTick
<1>5. ASSUME NEW e \in Endpoints, NEW p \in DOMAIN network, ReceiveAck(e, p)
      PROVE  BudgetInv'
  <2>1. \A f \in Endpoints : active_messages'[f] \subseteq active_messages[f]
    BY <1>5, <1>t DEF ReceiveAck, TypeOK
  <2> QED
    BY <1>5, <2>1, BudgetSame DEF ReceiveAck
<1>6. ASSUME NEW e \in Endpoints, NEW p \in DOMAIN network, ReceiveMessage(e, p)
      PROVE  BudgetInv'
  BY <1>6, BudgetSame DEF ReceiveMessage
<1>7. CASE PeriodEnds \/ UNCHANGED vars
  BY <1>7, BudgetSame DEF PeriodEnds, vars, handler_vars, history_vars
<1>8. ASSUME NEW e \in Endpoints,
             Restart(e) \/ \E p \in DOMAIN network : RestartWhileReceiving(e, p)
      PROVE  BudgetInv'
  <2>1. Reboot(e)
    BY <1>8 DEF Restart, RestartWhileReceiving
  <2>2. \A f \in Endpoints : active_messages'[f] \subseteq active_messages[f]
    BY <2>1, <1>t DEF Reboot, TypeOK
  <2> QED
    BY <2>1, <2>2, BudgetSame DEF Reboot
<1> QED
  BY <1>1, <1>2, <1>3, <1>4, <1>5, <1>6, <1>7, <1>8 DEF Next, Heartbeat

(* However ticks, acknowledgements, cancellations and reboots interleave,  *)
(* no message is sent more often than its retries allow, and none is given *)
(* up before they are used.                                                *)
THEOREM BudgetKept == Spec => []RetryBudget
<1>1. BudgetInv => RetryBudget
  BY DEF BudgetInv
<1> QED
  BY <1>1, InitBookkeeping, BookkeepingStep, InitBudget, BudgetStep, PTL DEF Spec
--------------------------------------------------------------------------------
(* The memory of receptions.                                               *)
(*                                                                         *)
(* At a purge no entry is older than the maximum; until the next one it    *)
(* ages by a tick at a time, as the clock moves on from a multiple of the  *)
(* period.  Where the clock wraps around to 0 there is a purge.  A tick    *)
(* that throws purges nothing, but then nothing has been received yet,     *)
(* unless the interface was taken away.                                    *)
MemoryBounded ==
  \A e \in Endpoints \ interrupted : \A key \in DOMAIN message_reception_times[e] :
    \E t \in ReceptionTimes :
      Age(e, key) <= t + (time_in_deciseconds[e] % ExpiryPeriod)

NothingWithoutInterface ==
  \A e \in Endpoints \ interrupted :
    ~udp_interface[e] => DOMAIN message_reception_times[e] = {}

MemoryInv == MemoryBounded /\ NothingWithoutInterface

(* Division with remainder, for a period of any length. *)
LEMMA ModuloType ==
  ASSUME NEW n \in Nat, NEW period \in Nat \ {0}
  PROVE  n % period \in Nat /\ n % period < period
OBVIOUS

LEMMA Division ==
  ASSUME NEW n \in Nat, NEW period \in Nat \ {0}
  PROVE  /\ n \div period \in Nat
         /\ n = period * (n \div period) + (n % period)
OBVIOUS

LEMMA ProductGrows ==
  ASSUME NEW a \in Nat, NEW b \in Nat, NEW period \in Nat \ {0}, a < b
  PROVE  period * a + period <= period * b
<1> DEFINE d == b - a - 1
<1>1. d \in Nat /\ b = a + 1 + d
  OBVIOUS
<1> HIDE DEF d
<1>2. period * d \in Nat
  BY <1>1
<1>3. period * (a + 1 + d) = period * a + period + period * d
  BY <1>1
<1>4. period * a \in Nat
  OBVIOUS
<1> QED
  BY <1>1, <1>2, <1>3, <1>4

(* The remainder counts up until it is back at 0. *)
LEMMA ModuloNext ==
  ASSUME NEW n \in Nat, NEW period \in Nat \ {0}, (n + 1) % period # 0
  PROVE  (n + 1) % period = (n % period) + 1
<1> DEFINE q == n \div period
           r == n % period
           q1 == (n + 1) \div period
           r1 == (n + 1) % period
<1>1. /\ q \in Nat /\ r \in Nat /\ r < period /\ n = period * q + r
      /\ q1 \in Nat /\ r1 \in Nat /\ r1 < period /\ n + 1 = period * q1 + r1
  BY ModuloType, Division
<1>2. r1 # 0
  OBVIOUS
<1> HIDE DEF q, r, q1, r1
<1>p. period * q \in Nat /\ period * q1 \in Nat
  BY <1>1
<1>3. ~(q < q1)
  <2>1. ASSUME q < q1 PROVE period * q + period <= period * q1
    BY <1>1, <2>1, ProductGrows
  <2> QED
    BY <2>1, <1>1, <1>2, <1>p
<1>4. ~(q1 < q)
  <2>1. ASSUME q1 < q PROVE period * q1 + period <= period * q
    BY <1>1, <2>1, ProductGrows
  <2> QED
    BY <2>1, <1>1, <1>p
<1>5. q = q1
  BY <1>1, <1>3, <1>4
<1>6. r1 = r + 1
  BY <1>1, <1>5, <1>p
<1> QED
  BY <1>6 DEF r, r1

(* A tick makes nothing more than one decisecond older. *)
LEMMA ElapsedAtMostNext ==
  ASSUME NEW now \in Times, NEW then \in Times
  PROVE  /\ Elapsed(now, then) \in Nat /\ Elapsed(NextTime(now), then) \in Nat
         /\ Elapsed(NextTime(now), then) <= Elapsed(now, then) + 1
BY ClockAssumption DEF Elapsed, NextTime, Times

LEMMA InitMemory == Init => MemoryInv
BY DEF Init, MemoryInv, MemoryBounded, NothingWithoutInterface

(* Steps that touch neither the memory nor the clock. *)
LEMMA MemorySame ==
  ASSUME MemoryInv, UNCHANGED <<message_reception_times, time_in_deciseconds>>,
         interrupted \subseteq interrupted',
         \A e \in Endpoints \ interrupted' : udp_interface[e] => udp_interface'[e]
  PROVE  MemoryInv'
BY DEF MemoryInv, MemoryBounded, NothingWithoutInterface, Age

(* on_100_ms_passed: what a purge keeps is not older than the maximum; any *)
(* other tick makes every entry and the remainder of the clock one older.  *)
LEMMA MemoryTick ==
  ASSUME TypeOK, MemoryInv, NEW e \in Endpoints, On100MsPassed(e)
  PROVE  MemoryInv'
<1> DEFINE now == time_in_deciseconds[e]
           next == NextTime(now)
<1>1. /\ message_reception_times' =
           [message_reception_times EXCEPT ![e] = KeptReceptions(e, next)]
      /\ time_in_deciseconds' = [time_in_deciseconds EXCEPT ![e] = next]
      /\ UNCHANGED <<udp_interface, interrupted>>
  BY DEF On100MsPassed
<1>2. /\ now \in Times /\ next \in Times /\ now \in Nat /\ next \in Nat
      /\ max_message_reception_time[e] \in ReceptionTimes
      /\ ExpiryPeriod \in Nat \ {0}
      /\ \A t \in ReceptionTimes : t \in Nat
  BY NextTimeType, ClockAssumption, RetentionAssumption DEF TypeOK, Times
<1>3. /\ message_reception_times'[e] = KeptReceptions(e, next)
      /\ time_in_deciseconds'[e] = next
      /\ \A f \in Endpoints : f # e =>
           /\ message_reception_times'[f] = message_reception_times[f]
           /\ time_in_deciseconds'[f] = time_in_deciseconds[f]
  BY <1>1 DEF TypeOK
<1>4. ASSUME NEW key \in DOMAIN message_reception_times'[e]
      PROVE  /\ key \in DOMAIN message_reception_times[e]
             /\ message_reception_times'[e][key] = message_reception_times[e][key]
             /\ ~(next % ExpiryPeriod = 0 /\ HasExpired(e, key, next))
             /\ message_reception_times[e][key] \in Times
  BY <1>3, <1>4 DEF KeptReceptions, TypeOK
<1>5. ASSUME e \notin interrupted, NEW key \in DOMAIN message_reception_times'[e]
      PROVE  \E t \in ReceptionTimes : Age(e, key)' <= t + (next % ExpiryPeriod)
  <2> DEFINE then == message_reception_times[e][key]
  <2>1. then \in Times /\ Age(e, key)' = Elapsed(next, then)
    BY <1>3, <1>4, <1>5 DEF Age
  <2>2. Age(e, key) = Elapsed(now, then)
    BY DEF Age
  <2>3. /\ Elapsed(now, then) \in Nat /\ Elapsed(next, then) \in Nat
        /\ Elapsed(next, then) <= Elapsed(now, then) + 1
    BY <1>2, <2>1, ElapsedAtMostNext
  <2>4. next % ExpiryPeriod \in Nat /\ now % ExpiryPeriod \in Nat
    BY <1>2, ModuloType
  <2>5. CASE next % ExpiryPeriod = 0
    <3>1. ~(Elapsed(next, then) > max_message_reception_time[e])
      BY <1>4, <2>5 DEF HasExpired
    <3> QED
      <4>1. /\ max_message_reception_time[e] \in Nat
            /\ Elapsed(next, then) <= max_message_reception_time[e]
        BY <1>2, <2>3, <3>1
      <4> QED
        BY <1>2, <2>1, <2>5, <4>1
  <2>6. CASE next % ExpiryPeriod # 0
    <3>1. PICK t \in ReceptionTimes : Age(e, key) <= t + (now % ExpiryPeriod)
      BY <1>4, <1>5 DEF MemoryInv, MemoryBounded
    <3>2. next = now + 1
      <4>1. 0 % ExpiryPeriod = 0
        BY <1>2
      <4> QED
        BY <2>6, <4>1 DEF NextTime
    <3>3. next % ExpiryPeriod = (now % ExpiryPeriod) + 1
      BY <1>2, <2>6, <3>2, ModuloNext
    <3> QED
      BY <1>2, <2>1, <2>2, <2>3, <2>4, <3>1, <3>3
  <2> QED
    BY <2>5, <2>6
<1>6. MemoryBounded'
  <2> SUFFICES ASSUME NEW f \in Endpoints \ interrupted,
                      NEW key \in DOMAIN message_reception_times'[f]
               PROVE  \E t \in ReceptionTimes :
                        Age(f, key)' <= t + (time_in_deciseconds'[f] % ExpiryPeriod)
    BY <1>1 DEF MemoryBounded
  <2>1. CASE f = e
    BY <1>3, <1>5, <2>1
  <2>2. CASE f # e
    BY <1>3, <2>2 DEF MemoryInv, MemoryBounded, Age
  <2> QED
    BY <2>1, <2>2
<1>7. NothingWithoutInterface'
  BY <1>1, <1>3, <1>4 DEF MemoryInv, NothingWithoutInterface
<1> QED
  BY <1>6, <1>7 DEF MemoryInv

(* heartbeat: the entry of the message received is new, the others stay.   *)
LEMMA MemoryReceive ==
  ASSUME TypeOK, MemoryInv, NEW e \in Endpoints, NEW p \in DOMAIN network,
         ReceiveMessage(e, p)
  PROVE  MemoryInv'
<1> DEFINE new == <<p.src, p.message_id>>
<1>1. /\ UNCHANGED <<udp_interface, interrupted>> /\ udp_interface[e]
      /\ time_in_deciseconds' = time_in_deciseconds
      /\ \A f \in Endpoints : f # e =>
           message_reception_times'[f] = message_reception_times[f]
      /\ \A key \in DOMAIN message_reception_times'[e] : key # new =>
           /\ key \in DOMAIN message_reception_times[e]
           /\ message_reception_times'[e][key] = message_reception_times[e][key]
  BY DEF ReceiveMessage, TypeOK
<1>2. Age(e, new)' = 0
  BY ReceptionKeepsMemory
<1>3. \A f \in Endpoints : time_in_deciseconds[f] % ExpiryPeriod \in Nat
  BY ClockAssumption, ModuloType DEF TypeOK, Times
<1>4. DefaultReceptionTime \in ReceptionTimes /\ DefaultReceptionTime \in Nat
  BY RetentionAssumption
<1>5. 0 <= DefaultReceptionTime + (time_in_deciseconds[e] % ExpiryPeriod)
  BY <1>3, <1>4
<1>6. MemoryBounded'
  <2> SUFFICES ASSUME NEW f \in Endpoints \ interrupted,
                      NEW key \in DOMAIN message_reception_times'[f]
               PROVE  \E t \in ReceptionTimes :
                        Age(f, key)' <= t + (time_in_deciseconds'[f] % ExpiryPeriod)
    BY <1>1 DEF MemoryBounded
  <2>1. CASE f = e /\ key = new
    BY <1>1, <1>2, <1>4, <1>5, <2>1
  <2>2. CASE ~(f = e /\ key = new)
    BY <1>1, <2>2 DEF MemoryInv, MemoryBounded, Age
  <2> QED
    BY <2>1, <2>2
<1>7. NothingWithoutInterface'
  BY <1>1 DEF MemoryInv, NothingWithoutInterface
<1> QED
  BY <1>6, <1>7 DEF MemoryInv

(* A tick that throws and a reboot leave an endpoint without entries,      *)
(* unless its interface was taken away.                                    *)
LEMMA MemoryEmpty ==
  ASSUME TypeOK, MemoryInv, NEW e \in Endpoints,
         interrupted' = interrupted,
         e \in interrupted \/ DOMAIN message_reception_times'[e] = {},
         \A f \in Endpoints : f # e =>
           /\ message_reception_times'[f] = message_reception_times[f]
           /\ time_in_deciseconds'[f] = time_in_deciseconds[f]
           /\ udp_interface'[f] = udp_interface[f]
  PROVE  MemoryInv'
BY DEF MemoryInv, MemoryBounded, NothingWithoutInterface, Age

LEMMA MemoryStep == TypeOK /\ MemoryInv /\ [Next]_vars => MemoryInv'
<1> SUFFICES ASSUME TypeOK, MemoryInv, [Next]_vars PROVE MemoryInv'
  OBVIOUS
<1>1. ASSUME NEW m \in Messages, SendMessage(m) PROVE MemoryInv'
  BY <1>1, MemorySame DEF SendMessage
<1>2. ASSUME NEW e \in Endpoints,
             \/ \E given \in BOOLEAN : SetUdpInterface(e, given)
             \/ \E t \in ReceptionTimes : SetMaxMessageReceptionTime(e, t)
             \/ \E S \in SUBSET Messages : CancelActiveMessages(e, S)
             \/ \E p \in DOMAIN network : ReceiveAck(e, p)
      PROVE  MemoryInv'
  BY <1>2, MemorySame
     DEF SetUdpInterface, SetMaxMessageReceptionTime, CancelActiveMessages,
         ReceiveAck, TypeOK
<1>3. ASSUME NEW e \in Endpoints, On100MsPassed(e) PROVE MemoryInv'
  BY <1>3, MemoryTick
<1>4. ASSUME NEW e \in Endpoints, On100MsPassedThrows(e) PROVE MemoryInv'
  <2>1. e \in interrupted \/ DOMAIN message_reception_times'[e] = {}
    BY <1>4 DEF On100MsPassedThrows, MemoryInv, NothingWithoutInterface
  <2> QED
    BY <1>4, <2>1, MemoryEmpty DEF On100MsPassedThrows, TypeOK
<1>5. ASSUME NEW e \in Endpoints, NEW p \in DOMAIN network, ReceiveMessage(e, p)
      PROVE  MemoryInv'
  BY <1>5, MemoryReceive
<1>6. CASE PeriodEnds \/ UNCHANGED vars
  BY <1>6, MemorySame DEF PeriodEnds, vars, handler_vars
<1>7. ASSUME NEW e \in Endpoints,
             Restart(e) \/ \E p \in DOMAIN network : RestartWhileReceiving(e, p)
      PROVE  MemoryInv'
  <2>0. Reboot(e)
    BY <1>7 DEF Restart, RestartWhileReceiving
  <2>1. message_reception_times'[e] = << >>
    BY <2>0 DEF Reboot, TypeOK
  <2>2. DOMAIN << >> = {}
    OBVIOUS
  <2> QED
    BY <2>0, <2>1, <2>2, MemoryEmpty DEF Reboot, TypeOK
<1> QED
  BY <1>1, <1>2, <1>3, <1>4, <1>5, <1>6, <1>7 DEF Next, Heartbeat

(* A reception is purged at the latest one period after it expired, for    *)
(* every width of the clock: remove_expired_message_reception_times leaves *)
(* nothing behind when the time wraps around.  (Of an endpoint whose       *)
(* interface is taken away, nothing is said.)                              *)
THEOREM ReceptionsForgotten == Spec => []ReceptionMemoryBounded
<1>1. TypeOK /\ MemoryInv => ReceptionMemoryBounded
  <2> SUFFICES ASSUME TypeOK, MemoryInv, NEW e \in Endpoints \ interrupted,
                      NEW key \in DOMAIN message_reception_times[e]
               PROVE  \E t \in ReceptionTimes : Age(e, key) < t + ExpiryPeriod
    BY DEF ReceptionMemoryBounded
  <2>1. PICK t \in ReceptionTimes :
          Age(e, key) <= t + (time_in_deciseconds[e] % ExpiryPeriod)
    BY DEF MemoryInv, MemoryBounded
  <2>2. /\ time_in_deciseconds[e] % ExpiryPeriod \in Nat
        /\ time_in_deciseconds[e] % ExpiryPeriod < ExpiryPeriod
    BY ClockAssumption, ModuloType DEF TypeOK, Times
  <2>3. Age(e, key) \in Nat
    BY ElapsedType DEF TypeOK, Age, Times
  <2> QED
    BY <2>1, <2>2, <2>3, ClockAssumption, RetentionAssumption
<1> QED
  BY <1>1, InitTypeOK, StepTypeOK, InitMemory, MemoryStep, PTL DEF Spec
================================================================================
