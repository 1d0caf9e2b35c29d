------------------------------ MODULE UpdatesProofs -----------------------------
(***************************************************************************)
(* No update is dropped between two nodes: proofs about Synchronizer for   *)
(* any number of groups, objects, changes, scans, failures and reboots,    *)
(* and for networks that lose, delay, repeat and reorder.                  *)
(***************************************************************************)
EXTENDS SynchronizerProofs

(* With a third node a cancellation drops updates: the filter of           *)
(* perform_initial_synchronization does not look at the endpoint.          *)
TwoNodes == \A n, e, k \in Endpoints : n # e => k \in {n, e}

--------------------------------------------------------------------------------
(* The inductive invariant. *)

(* The next message of a node is newer than all that are about. *)
Numbered ==
  /\ \A m \in active_messages \cup handled : m.number < sent[m.src]
  /\ \A p \in packets : p.message.number < sent[p.message.src]

OwedInv ==
  \A n, e \in Endpoints : \A name \in Names :
    /\ owed[n][e][name] <= version[n][name]
    /\ owed[n][e][name] > 0 => e \in Known(n)

IsSync(m, n, e, name) ==
  m.type = "sync" /\ m.src = n /\ m.dst = e /\ m.name = name

(* What n synchronized to e and has to see to. *)
Debt(n, e, name) == owed[n][e][name] > 0 /\ restarts[n] = 0

(* An active message about it says it in each of its packets, to the right *)
(* group, and was not cut off by a reboot of its receiver.                 *)
Says(m, n, e, name) ==
  /\ m \in arrived => m \in handled
  /\ \A p \in packets :
       p.message = m => /\ p.version >= owed[n][e][name]
                        /\ p.group = group_name_hash[n]

Unhandled(n, e, name) ==
  \E m \in active_messages \ handled : IsSync(m, n, e, name)
Shown(n, e, name) == HasShown(e, n, name, owed[n][e][name])
NotDropped(n, e, name) ==
  group_name_hash[n] = group_name_hash[e] => Shown(n, e, name) \/ Unhandled(n, e, name)

Kept(n, e, name) ==
  Debt(n, e, name) =>
    /\ \A m \in active_messages : IsSync(m, n, e, name) => Says(m, n, e, name)
    /\ NotDropped(n, e, name)

UpdateInv ==
  /\ Numbered
  /\ OwedInv
  /\ \A n, e \in Endpoints : \A name \in Container : n # e => Kept(n, e, name)

LEMMA HistoryTypes ==
  ASSUME SynchronizerInv, NEW n \in Endpoints, NEW e \in Endpoints,
         NEW name \in Names
  PROVE  /\ owed[n][e][name] \in Nat /\ version[n][name] \in Nat
         /\ seen[n][e][name] \in Nat
BY DEF SynchronizerInv, SettingsType, HistoryType

LEMMA UpdateInvImplies ==
  ASSUME SynchronizerInv, UpdateInv
  PROVE  NoUpdateDropped
<1> SUFFICES ASSUME NEW n \in Endpoints, NEW e \in Endpoints, NEW name \in Container,
                    Debt(n, e, name), group_name_hash[n] = group_name_hash[e]
             PROVE  Shown(n, e, name) \/ Unhandled(n, e, name)
  BY DEF NoUpdateDropped, Debt, Shown, Unhandled, IsSync
<1>1. e \in Known(n)
  BY SynchronizerAssumption DEF UpdateInv, OwedInv, Debt
<1>2. n # e
  BY <1>1, KnownAreOthers DEF SynchronizerInv
<1>3. Kept(n, e, name)
  BY <1>2 DEF UpdateInv
<1> QED
  BY <1>3 DEF Kept, NotDropped

LEMMA InitUpdates == Init => UpdateInv
<1> SUFFICES ASSUME Init
             PROVE  UpdateInv
  OBVIOUS
<1>1. \A n, e \in Endpoints : \A name \in Names :
        owed[n][e][name] = 0 /\ version[n][name] = 0
  BY DEF Init, Nothing
<1>2. OwedInv
  BY <1>1 DEF OwedInv
<1>3. \A n, e \in Endpoints : \A name \in Container : Kept(n, e, name)
  BY <1>1, SynchronizerAssumption DEF Kept, Debt
<1>4. Numbered
  BY DEF Init, Numbered
<1> QED
  BY <1>2, <1>3, <1>4 DEF UpdateInv

--------------------------------------------------------------------------------
(* The numbers. *)

(* A step that sends the messages M. *)
Sends(M) ==
  /\ \A k \in Endpoints : sent[k] <= sent'[k]
  /\ \A m \in M : m.number = sent[m.src] /\ sent[m.src] < sent'[m.src]
  /\ M \subseteq SentMessage
  /\ active_messages' \subseteq active_messages \cup M
  /\ \A p \in packets' : p \in packets \/ p.message \in active_messages \cup M
  /\ handled' \subseteq handled \cup {p.message : p \in packets}

LEMMA NumberedStep ==
  ASSUME SynchronizerInv, SynchronizerInv', Numbered, NEW M, Sends(M)
  PROVE  Numbered'
<1>1. sent \in [Endpoints -> Nat] /\ sent' \in [Endpoints -> Nat]
  BY DEF SynchronizerInv, MessagesInv
<1>2. ASSUME NEW m \in SentMessage, m \in M \/ m.number < sent[m.src]
      PROVE  m.number < sent'[m.src]
  <2>1. m.src \in Endpoints /\ m.number \in Nat
    BY DEF SentMessage, Message
  <2>2. sent[m.src] \in Nat /\ sent'[m.src] \in Nat /\ sent[m.src] <= sent'[m.src]
    BY <1>1, <2>1 DEF Sends
  <2> QED
    BY <1>2, <2>1, <2>2 DEF Sends
<1>3. \A p \in packets : p.message \in SentMessage
  BY DEF SynchronizerInv, MessagesInv, Packet
<1>4. active_messages \subseteq SentMessage /\ handled \subseteq SentMessage
      /\ M \subseteq SentMessage
  BY DEF SynchronizerInv, MessagesInv, Sends
<1>5. \A m \in active_messages' \cup handled' : m.number < sent'[m.src]
  BY <1>2, <1>3, <1>4 DEF Sends, Numbered
<1>6. \A p \in packets' : p.message.number < sent'[p.message.src]
  BY <1>2, <1>3, <1>4 DEF Sends, Numbered
<1> QED
  BY <1>5, <1>6 DEF Numbered

(* What has just been sent was not about before. *)
LEMMA Fresh ==
  ASSUME SynchronizerInv, Numbered, NEW m \in SentMessage, m.number = sent[m.src]
  PROVE  /\ m \notin active_messages \cup handled \cup arrived
         /\ \A p \in packets : p.message # m
<1>1. sent[m.src] \in Nat
  BY DEF SynchronizerInv, MessagesInv, SentMessage, Message
<1>2. m \notin active_messages \cup handled
  BY <1>1 DEF Numbered
<1>3. \A p \in packets : p.message # m
  BY <1>1 DEF Numbered
<1> QED
  BY <1>2, <1>3 DEF SynchronizerInv, MessagesInv

LEMMA SentSends ==
  ASSUME SynchronizerInv, NEW n \in Endpoints, NEW cancelled,
         NEW M \in SUBSET SentMessage, NEW kept \in SUBSET M,
         \A m \in M : m.src = n /\ m.number = sent[n],
         Sent(n, cancelled, M, kept)
  PROVE  Sends(M)
<1>1. sent \in [Endpoints -> Nat] /\ sent' = [sent EXCEPT ![n] = @ + 1]
  BY DEF SynchronizerInv, MessagesInv, Sent
<1>2. \A p \in PacketsOf(M) : p.message \in M
  BY DEF PacketsOf, PacketOf
<1> QED
  BY <1>1, <1>2 DEF Sends, Sent, Remembered

--------------------------------------------------------------------------------
(* Steps that send nothing new. *)

(* Nothing is forgotten. *)
Remembering ==
  /\ \A n \in Endpoints : Known(n) \subseteq Known(n)'
  /\ \A n, e \in Endpoints : \A name \in Names : seen[n][e][name] <= seen'[n][e][name]
  /\ \A n \in Endpoints : \A name \in Names : version[n][name] <= version'[n][name]
  /\ UNCHANGED <<group_name_hash, restarts>>

LEMMA OwedStays ==
  ASSUME SynchronizerInv, SynchronizerInv', OwedInv, Remembering, UNCHANGED owed
  PROVE  OwedInv'
<1> SUFFICES ASSUME NEW n \in Endpoints, NEW e \in Endpoints, NEW name \in Names
             PROVE  /\ owed'[n][e][name] <= version'[n][name]
                    /\ owed'[n][e][name] > 0 => e \in Known(n)'
  BY DEF OwedInv
<1>1. owed[n][e][name] <= version[n][name] /\ version[n][name] <= version'[n][name]
  BY DEF OwedInv, Remembering
<1>2. owed[n][e][name] \in Nat /\ version[n][name] \in Nat
  BY HistoryTypes
<1>3. version'[n][name] \in Nat
  BY DEF SynchronizerInv, SettingsType
<1> QED
  BY <1>1, <1>2, <1>3 DEF OwedInv, Remembering

(* The messages about one debt: none is new, those that are active only    *)
(* repeat what they say, and none is handled.                              *)
SameMessages(n, e, name) ==
  /\ \A m \in active_messages' : IsSync(m, n, e, name) =>
       /\ m \in active_messages
       /\ m \in handled => m \in handled'
       /\ m \in arrived' => m \in arrived \/ m \in handled'
  /\ \A p \in packets' : IsSync(p.message, n, e, name) =>
       p \in packets \/ p = PacketOf(p.message)
  /\ \A m \in active_messages \ handled :
       IsSync(m, n, e, name) => m \in active_messages' \ handled'

(* What the active messages about a debt say stays so. *)
LEMMA SaysStays ==
  ASSUME SynchronizerInv, SynchronizerInv', UpdateInv, Remembering,
         NEW n \in Endpoints, NEW e \in Endpoints, NEW name \in Container,
         n # e, Debt(n, e, name), owed'[n][e][name] = owed[n][e][name],
         NEW m \in active_messages', IsSync(m, n, e, name), m \in active_messages,
         m \in handled => m \in handled',
         m \in arrived' => m \in arrived \/ m \in handled',
         \A p \in packets' :
           IsSync(p.message, n, e, name) => p \in packets \/ p = PacketOf(p.message)
  PROVE  Says(m, n, e, name)'
<1>1. Says(m, n, e, name)
  BY DEF UpdateInv, Kept
<1>2. name \in Names
  BY SynchronizerAssumption
<1>3. ASSUME NEW p \in packets', p.message = m
      PROVE  p.version >= owed[n][e][name] /\ p.group = group_name_hash[n]
  <2>1. CASE p \in packets
    BY <1>1, <1>3, <2>1 DEF Says
  <2>2. CASE p = PacketOf(m)
    BY <1>2, <2>2, HistoryTypes DEF PacketOf, IsSync, UpdateInv, OwedInv
  <2> QED
    BY <1>3, <2>1, <2>2
<1> QED
  BY <1>1, <1>3 DEF Says, Remembering

LEMMA ShownStays ==
  ASSUME SynchronizerInv, SynchronizerInv', Remembering,
         NEW n \in Endpoints, NEW e \in Endpoints, NEW name \in Container,
         owed'[n][e][name] = owed[n][e][name], Shown(n, e, name)
  PROVE  Shown(n, e, name)'
<1>1. name \in Names
  BY SynchronizerAssumption
<1>2. /\ owed[n][e][name] \in Nat /\ seen[e][n][name] \in Nat
      /\ seen[e][n][name] <= seen'[e][n][name]
  BY <1>1, HistoryTypes DEF Remembering
<1>3. seen'[e][n][name] \in Nat
  BY <1>1 DEF SynchronizerInv, SettingsType, HistoryType
<1> QED
  BY <1>2, <1>3 DEF Shown, HasShown, Remembering

LEMMA KeptStays ==
  ASSUME SynchronizerInv, SynchronizerInv', UpdateInv, Remembering,
         NEW n \in Endpoints, NEW e \in Endpoints, NEW name \in Container,
         n # e, owed'[n][e][name] = owed[n][e][name],
         Debt(n, e, name) => SameMessages(n, e, name)
  PROVE  Kept(n, e, name)'
<1> SUFFICES ASSUME Debt(n, e, name)
             PROVE  /\ \A m \in active_messages' :
                         IsSync(m, n, e, name) => Says(m, n, e, name)'
                    /\ NotDropped(n, e, name)'
  BY DEF Kept, Debt, IsSync, Remembering
<1>1. ASSUME NEW m \in active_messages', IsSync(m, n, e, name)
      PROVE  Says(m, n, e, name)'
  BY <1>1, SaysStays DEF SameMessages
<1>2. NotDropped(n, e, name)
  BY DEF UpdateInv, Kept
<1>3. Unhandled(n, e, name) => Unhandled(n, e, name)'
  BY DEF SameMessages, Unhandled, IsSync
<1>4. NotDropped(n, e, name)'
  BY <1>2, <1>3, ShownStays DEF NotDropped, Remembering
<1> QED
  BY <1>1, <1>4

LEMMA QuietUpdates ==
  ASSUME SynchronizerInv, SynchronizerInv', UpdateInv, Remembering, Sends({}),
         UNCHANGED owed,
         \A n, e \in Endpoints : \A name \in Container :
           n # e /\ Debt(n, e, name) => SameMessages(n, e, name)
  PROVE  UpdateInv'
<1>1. Numbered'
  BY NumberedStep DEF UpdateInv
<1>2. OwedInv'
  BY OwedStays DEF UpdateInv
<1>3. \A n, e \in Endpoints : \A name \in Container : n # e => Kept(n, e, name)'
  BY KeptStays
<1> QED
  BY <1>1, <1>2, <1>3 DEF UpdateInv

(* A step that neither sends nor receives. *)
LEMMA UntouchedMessages ==
  ASSUME SynchronizerInv, UNCHANGED message_vars
  PROVE  /\ Sends({})
         /\ \A n, e, name : SameMessages(n, e, name)
<1>1. \A k \in Endpoints : sent[k] \in Nat
  BY DEF SynchronizerInv, MessagesInv
<1> QED
  BY <1>1 DEF message_vars, Sends, SameMessages

LEMMA SameIsRemembering ==
  ASSUME SynchronizerInv, \A n \in Endpoints : Known(n) \subseteq Known(n)',
         UNCHANGED <<seen, version, group_name_hash, restarts>>
  PROVE  Remembering
BY HistoryTypes DEF Remembering

LEMMA AddEndpointsKnown ==
  ASSUME SynchronizerInv, NEW n \in Endpoints, NEW S, NEW copies, NEW answers,
         Known(n) \subseteq DOMAIN copies, AddEndpoints(n, S, copies, answers)
  PROVE  \A k \in Endpoints : Known(k) \subseteq Known(k)'
BY DEF AddEndpoints, SynchronizerInv, CopiesInv, Known

LEMMA LocalUpdates ==
  ASSUME SynchronizerInv, SynchronizerInv', UpdateInv, NEW n \in Endpoints,
         \/ \E name \in Objects[n] : Change(n, name)
         \/ StartScan(n)
         \/ \E e \in Endpoints : CallAddEndpoint(n, e) \/ CallSetEndpointInfo(n, e)
  PROVE  UpdateInv'
<1>1. UNCHANGED <<message_vars, seen, owed, group_name_hash, restarts>>
  BY DEF Change, StartScan, CallAddEndpoint, CallSetEndpointInfo, Call, counts,
         history_vars
<1>2. \A k \in Endpoints : Known(k) \subseteq Known(k)'
  <2>1. ASSUME NEW e \in Endpoints, CallAddEndpoint(n, e)
        PROVE  \A k \in Endpoints : Known(k) \subseteq Known(k)'
    <3>1. Known(n) \subseteq DOMAIN WithEndpoints(n, {e})
      BY DEF WithEndpoints
    <3> QED
      BY <2>1, <3>1, AddEndpointsKnown DEF CallAddEndpoint
  <2>2. endpoint_to_synchronizables' = endpoint_to_synchronizables
          \/ \E e \in Endpoints : CallAddEndpoint(n, e)
    BY DEF Change, StartScan, CallSetEndpointInfo, copy_vars
  <2> QED
    BY <2>1, <2>2 DEF Known
<1>3. \A k \in Endpoints : \A name \in Names : version[k][name] <= version'[k][name]
  <2>1. version' = version \/ \E name \in Objects[n] : Change(n, name)
    BY DEF StartScan, CallAddEndpoint, CallSetEndpointInfo, Call
  <2>2. \A k \in Endpoints : \A name \in Names : version[k][name] \in Nat
    BY DEF SynchronizerInv, SettingsType
  <2> QED
    BY <2>1, <2>2, SynchronizerAssumption DEF Change, SynchronizerInv, SettingsType
<1>4. Remembering
  BY <1>1, <1>2, <1>3, HistoryTypes DEF Remembering
<1> QED
  BY <1>1, <1>4, UntouchedMessages, QuietUpdates

LEMMA StutterUpdates ==
  ASSUME SynchronizerInv, SynchronizerInv', UpdateInv, UNCHANGED vars
  PROVE  UpdateInv'
<1>1. UNCHANGED <<message_vars, seen, owed, version, group_name_hash, restarts,
        endpoint_to_synchronizables>>
  BY DEF vars, counts, history_vars, copy_vars
<1>2. Remembering
  BY <1>1, SameIsRemembering DEF Known
<1> QED
  BY <1>1, <1>2, UntouchedMessages, QuietUpdates

(* What the steps of the NetworkHandlers leave alone. *)
LEMMA NetworkIsRemembering ==
  ASSUME SynchronizerInv,
         UNCHANGED <<copy_vars, version, group_name_hash, counts, history_vars>>
  PROVE  Remembering /\ UNCHANGED owed
BY SameIsRemembering DEF copy_vars, counts, history_vars, Known

(* Of the messages that are remembered those that are active still are.    *)
LEMMA SendActiveMessagesUpdates ==
  ASSUME SynchronizerInv, SynchronizerInv', UpdateInv, NEW n \in Endpoints,
         SendActiveMessages(n)
  PROVE  UpdateInv'
<1> DEFINE M == {m \in active_messages \ handled : m.src = n}
<1>1. /\ packets' = packets \cup PacketsOf(M)
      /\ UNCHANGED <<active_messages, arrived, handled, sent>>
      /\ Remembering /\ UNCHANGED owed
  BY NetworkIsRemembering DEF SendActiveMessages
<1>2. \A p \in PacketsOf(M) : p.message \in active_messages /\ p = PacketOf(p.message)
  BY DEF PacketsOf, PacketOf
<1>3. Sends({})
  BY <1>1, <1>2 DEF Sends, SynchronizerInv, MessagesInv
<1>4. \A k, e, name : SameMessages(k, e, name)
  BY <1>1, <1>2 DEF SameMessages
<1> QED
  BY <1>1, <1>3, <1>4, QuietUpdates

LEMMA LoseUpdates ==
  ASSUME SynchronizerInv, SynchronizerInv', UpdateInv, NEW p \in packets, Lose(p)
  PROVE  UpdateInv'
<1>1. /\ packets' \subseteq packets
      /\ UNCHANGED <<active_messages, arrived, sent>>
      /\ handled' \subseteq handled
      /\ \A m \in active_messages : m \in handled => m \in handled'
      /\ Remembering /\ UNCHANGED owed
  BY NetworkIsRemembering DEF Lose, Remembered
<1>2. Sends({})
  BY <1>1 DEF Sends, SynchronizerInv, MessagesInv
<1>3. \A n, e, name : SameMessages(n, e, name)
  BY <1>1 DEF SameMessages
<1> QED
  BY <1>1, <1>2, <1>3, QuietUpdates

(* Only messages of a node that rebooted are mistaken for others. *)
LEMMA IgnoreUpdates ==
  ASSUME SynchronizerInv, SynchronizerInv', UpdateInv, NEW p \in packets, Ignore(p)
  PROVE  UpdateInv'
<1> DEFINE m == p.message
<1>1. /\ packets' \subseteq packets
      /\ UNCHANGED <<active_messages, sent>>
      /\ arrived' \subseteq arrived \cup {m}
      /\ handled' \subseteq handled \cup {m}
      /\ \A x \in active_messages : x \in handled => x \in handled'
      /\ restarts[m.src] > 0
      /\ Remembering /\ UNCHANGED owed
  BY NetworkIsRemembering DEF Ignore, PacketsAfter, Remembered, Mistakable
<1>2. Sends({})
  BY <1>1 DEF Sends, SynchronizerInv, MessagesInv
<1>3. ASSUME NEW n \in Endpoints, NEW e \in Endpoints, NEW name \in Container,
             Debt(n, e, name)
      PROVE  SameMessages(n, e, name)
  <2>1. ~IsSync(m, n, e, name)
    BY <1>1, <1>3 DEF Debt, IsSync
  <2> HIDE DEF m
  <2> QED
    BY <1>1, <2>1 DEF SameMessages
<1> QED
  BY <1>1, <1>2, <1>3, QuietUpdates

(* A message about a debt was handled when it is acknowledged. *)
LEMMA OnSendSucceededUpdates ==
  ASSUME SynchronizerInv, SynchronizerInv', UpdateInv, NEW m \in active_messages,
         OnSendSucceeded(m)
  PROVE  UpdateInv'
<1>1. /\ active_messages' = active_messages \ {m}
      /\ arrived' = arrived \ {m}
      /\ UNCHANGED <<packets, sent>>
      /\ handled' \subseteq handled
      /\ \A x \in active_messages' : x \in handled => x \in handled'
      /\ m \in arrived \/ restarts[m.src] > 0
      /\ Remembering /\ UNCHANGED owed
  BY NetworkIsRemembering DEF OnSendSucceeded, Remembered, Mistakable
<1>2. Sends({})
  BY <1>1 DEF Sends, SynchronizerInv, MessagesInv
<1>3. ASSUME NEW n \in Endpoints, NEW e \in Endpoints, NEW name \in Container,
             n # e, Debt(n, e, name)
      PROVE  SameMessages(n, e, name)
  <2>1. IsSync(m, n, e, name) => m \in handled
    <3>1. ASSUME IsSync(m, n, e, name)
          PROVE  m \in handled
      <4>1. m \in arrived
        BY <1>1, <1>3, <3>1 DEF Debt, IsSync
      <4>2. Says(m, n, e, name)
        BY <1>3, <3>1 DEF UpdateInv, Kept
      <4> QED
        BY <4>1, <4>2 DEF Says
    <3> QED
      BY <3>1
  <2> QED
    BY <1>1, <2>1 DEF SameMessages
<1> QED
  BY <1>1, <1>2, <1>3, QuietUpdates

--------------------------------------------------------------------------------
(* Steps in which one of the two nodes forgets the other: nothing is owed. *)

LEMMA ForgottenUpdates ==
  ASSUME TwoNodes, SynchronizerInv, SynchronizerInv', UpdateInv,
         NEW k \in Endpoints, NEW S, Forgotten(k, S), Endpoints \ {k} \subseteq S,
         NEW M, Sends(M), UNCHANGED version
  PROVE  UpdateInv'
<1>1. Numbered'
  BY NumberedStep DEF UpdateInv
<1>2. ASSUME NEW n \in Endpoints, NEW e \in Endpoints, n # e
      PROVE  owed'[n][e] = Nothing
  <2>1. k \in {n, e}
    BY <1>2 DEF TwoNodes
  <2>2. (n = k /\ e \in S) \/ (e = k /\ n \in S)
    BY <1>2, <2>1
  <2> QED
    BY <2>2 DEF Forgotten
<1>3. \A n \in Endpoints : owed'[n][n] \in {Nothing, owed[n][n]}
  BY DEF Forgotten
<1>4. ASSUME NEW n \in Endpoints, NEW e \in Endpoints, NEW name \in Names
      PROVE  owed'[n][e][name] = 0
  <2>1. CASE n # e
    BY <1>2, <2>1 DEF Nothing
  <2>2. CASE n = e
    <3>1. ~(owed[n][n][name] > 0)
      BY KnownAreOthers DEF UpdateInv, OwedInv, SynchronizerInv
    <3> QED
      BY <1>3, <2>2, <3>1, HistoryTypes DEF Nothing
  <2> QED
    BY <2>1, <2>2
<1>5. OwedInv'
  BY <1>4, HistoryTypes DEF OwedInv
<1>6. \A n, e \in Endpoints : \A name \in Container : Kept(n, e, name)'
  BY <1>4, SynchronizerAssumption DEF Kept, Debt
<1> QED
  BY <1>1, <1>5, <1>6 DEF UpdateInv

LEMMA DeregisterUpdates ==
  ASSUME TwoNodes, SynchronizerInv, SynchronizerInv', UpdateInv,
         NEW n \in Endpoints, DeregisterAllEndpoints(n)
  PROVE  UpdateInv'
<1> DEFINE M == Deregistrations(n, Known(n))
<1>1. M \subseteq SentMessage
  BY KnownAreOthers, MessagesAreMessages DEF SynchronizerInv
<1>2. \A m \in M : m.src = n /\ m.number = sent[n]
  BY DEF Deregistrations
<1>3. Sent(n, {}, M, M) /\ Forgotten(n, Endpoints) /\ UNCHANGED version
  BY DEF DeregisterAllEndpoints
<1>4. Sends(M)
  <2> HIDE DEF M
  <2> QED
    BY <1>1, <1>2, <1>3, SentSends
<1> QED
  BY <1>3, <1>4, ForgottenUpdates

LEMMA RebootUpdates ==
  ASSUME TwoNodes, SynchronizerInv, SynchronizerInv', UpdateInv,
         NEW n \in Endpoints, Reboot(n)
  PROVE  UpdateInv'
<1>1. Sends({})
  BY DEF Reboot, Remembered, Sends, SynchronizerInv, MessagesInv
<1> QED
  BY <1>1, ForgottenUpdates DEF Reboot

LEMMA RemoveEndpointUpdates ==
  ASSUME TwoNodes, SynchronizerInv, SynchronizerInv', UpdateInv,
         NEW n \in Endpoints, NEW e \in Endpoints \ {n}, RemoveEndpoint(n, e),
         Sends({}), UNCHANGED version
  PROVE  UpdateInv'
<1>1. Endpoints \ {n} \subseteq {e}
  BY DEF TwoNodes
<1> QED
  BY <1>1, ForgottenUpdates DEF RemoveEndpoint

LEMMA OnSendFailedUpdates ==
  ASSUME TwoNodes, SynchronizerInv, SynchronizerInv', UpdateInv,
         NEW m \in active_messages, OnSendFailed(m)
  PROVE  UpdateInv'
<1>1. m.src \in Endpoints /\ m.dst \in Endpoints \ {m.src}
  BY DEF SynchronizerInv, MessagesInv, SentMessage, Message
<1>2. /\ active_messages' = active_messages \ {m}
      /\ arrived' = arrived \ {m}
      /\ UNCHANGED <<packets, sent, version, group_name_hash, restarts>>
      /\ handled' \subseteq handled
      /\ \A x \in active_messages' : x \in handled => x \in handled'
  BY DEF OnSendFailed, Remembered
<1>3. Sends({})
  BY <1>2 DEF Sends, SynchronizerInv, MessagesInv
<1>4. CASE m.type = "sync"
  BY <1>1, <1>2, <1>3, <1>4, RemoveEndpointUpdates DEF OnSendFailed
<1>5. CASE m.type # "sync"
  <2>1. UNCHANGED <<endpoint_to_synchronizables, seen, owed>>
    BY <1>5 DEF OnSendFailed, copy_vars, history_vars
  <2>2. Remembering
    BY <1>2, <2>1, SameIsRemembering DEF Known
  <2>3. \A n, e, name : SameMessages(n, e, name)
    BY <1>2, <1>5 DEF SameMessages, IsSync
  <2> QED
    BY <1>3, <2>1, <2>2, <2>3, QuietUpdates
<1> QED
  BY <1>4, <1>5

--------------------------------------------------------------------------------
(* Steps that send new messages in place of others. *)

(* n sends M: its objects in names to the endpoints in S, and others.      *)
Replaces(n, S, names, M) ==
  /\ {x \in M : x.type = "sync"} = SyncMessages(n, S, names)
  /\ Sends(M)
  /\ active_messages' = (active_messages \ Related(n, names)) \cup M
  /\ \A x \in arrived' : x.type = "sync" => x \in arrived
  /\ \A p \in packets' : p \in packets \/ p = PacketOf(p.message)
  /\ \A x \in handled' : x.type = "sync" => x \in handled
  /\ \A x \in active_messages' : x \in handled => x \in handled'

(* Nothing about these objects is owed to any other endpoint. *)
OwesOnly(n, S, names) ==
  /\ \A k, e \in Endpoints : \A name \in Names :
       k # n \/ name \notin names => owed'[k][e][name] = owed[k][e][name]
  /\ \A e \in Endpoints \ {n} : \A name \in names :
       e \in S \/ owed'[n][e][name] = 0

LEMMA SentUpdates ==
  ASSUME SynchronizerInv, SynchronizerInv', UpdateInv, OwedInv', Remembering,
         UNCHANGED version,
         NEW n \in Endpoints, NEW S, NEW names \in SUBSET Names, NEW M,
         Replaces(n, S, names, M), OwesOnly(n, S, names)
  PROVE  UpdateInv'
<1>0. /\ Sends(M)
      /\ {x \in M : x.type = "sync"} = SyncMessages(n, S, names)
      /\ active_messages' = (active_messages \ Related(n, names)) \cup M
      /\ \A x \in arrived' : x.type = "sync" => x \in arrived
      /\ \A p \in packets' : p \in packets \/ p = PacketOf(p.message)
      /\ \A x \in handled' : x.type = "sync" => x \in handled
      /\ \A x \in active_messages' : x \in handled => x \in handled'
  BY DEF Replaces
<1>1. Numbered'
  BY <1>0, NumberedStep DEF UpdateInv
<1>2. \A x \in M : x.type = "sync" =>
        x.src = n /\ x.dst \in S /\ x.name \in names /\ x.number = sent[n]
  <2>1. \A x \in M : x.type = "sync" => x \in SyncMessages(n, S, names)
    BY <1>0
  <2>2. \A x \in SyncMessages(n, S, names) :
          x.src = n /\ x.dst \in S /\ x.name \in names /\ x.number = sent[n]
    BY DEF SyncMessages
  <2> QED
    BY <2>1, <2>2
<1>3. ASSUME NEW k \in Endpoints, NEW e \in Endpoints, NEW name \in Container, k # e
      PROVE  Kept(k, e, name)'
  <2>0. name \in Names
    BY SynchronizerAssumption
  <2>1. CASE k # n \/ name \notin names
    <3>1. \A x \in M : ~IsSync(x, k, e, name)
      BY <1>2, <2>1 DEF IsSync
    <3>2. SameMessages(k, e, name)
      <4>1. \A x \in Related(n, names) : ~IsSync(x, k, e, name)
        BY <2>1 DEF IsSync, Related
      <4> QED
        BY <1>0, <3>1, <4>1 DEF SameMessages, IsSync
    <3> QED
      BY <1>3, <2>0, <2>1, <3>2, KeptStays DEF OwesOnly
  <2>2. CASE k = n /\ name \in names /\ e \notin S
    BY <1>3, <2>2 DEF Kept, Debt, OwesOnly
  <2>3. CASE k = n /\ name \in names /\ e \in S
    <3> DEFINE new == [type |-> "sync", src |-> n, dst |-> e, name |-> name,
                       number |-> sent[n]]
    <3>1. new \in M /\ IsSync(new, n, e, name)
      BY <1>0, <2>3 DEF SyncMessages, IsSync
    <3>2. ASSUME NEW x \in M, IsSync(x, n, e, name)
          PROVE  /\ x \notin arrived' /\ x \notin handled'
                 /\ \A p \in packets : p.message # x
      <4>1. x \in SentMessage /\ x.number = sent[x.src] /\ x.type = "sync"
        BY <1>0, <3>2 DEF Sends, IsSync
      <4> QED
        BY <1>0, <4>1, Fresh DEF UpdateInv
    <3>3. ASSUME NEW x \in active_messages', IsSync(x, n, e, name)
          PROVE  Says(x, n, e, name)'
      <4>1. x \in M
        BY <1>0, <2>3, <3>3 DEF IsSync, Related
      <4>2. ASSUME NEW p \in packets', p.message = x
            PROVE  p.version >= owed'[n][e][name] /\ p.group = group_name_hash'[n]
        <5>1. p = PacketOf(x)
          BY <1>0, <3>2, <3>3, <4>1, <4>2
        <5>2. p.version = version[n][name] /\ p.group = group_name_hash[n]
          BY <3>3, <5>1 DEF PacketOf, IsSync
        <5>3. /\ owed'[n][e][name] \in Nat /\ version[n][name] \in Nat
              /\ owed'[n][e][name] <= version[n][name]
          BY <2>0, HistoryTypes DEF OwedInv, SynchronizerInv, SettingsType, HistoryType
        <5> QED
          BY <5>2, <5>3 DEF Remembering
      <4> QED
        BY <3>2, <3>3, <4>1, <4>2 DEF Says
    <3>4. Unhandled(n, e, name)'
      BY <1>0, <3>1, <3>2 DEF Unhandled, IsSync
    <3> QED
      BY <2>3, <3>3, <3>4 DEF Kept, NotDropped, IsSync
  <2> QED
    BY <2>1, <2>2, <2>3
<1> QED
  BY <1>1, <1>3 DEF UpdateInv

(* ... as Sent has it. *)
LEMMA SentReplaces ==
  ASSUME SynchronizerInv, NEW n \in Endpoints, NEW S \in SUBSET (Endpoints \ {n}),
         NEW names \in SUBSET Names, NEW R \in SUBSET Requests(n, S),
         NEW M, M = SyncMessages(n, S, names) \cup R,
         Sent(n, Related(n, names), M, M)
  PROVE  Replaces(n, S, names, M)
<1>1. M \subseteq SentMessage
  BY MessagesAreMessages DEF SynchronizerInv
<1>2. \A x \in M : x.src = n /\ x.number = sent[n]
  BY DEF SyncMessages, Requests
<1>3. Sends(M)
  BY <1>1, <1>2, SentSends
<1>4. /\ active_messages' = (active_messages \ Related(n, names)) \cup M
      /\ arrived' \subseteq arrived
      /\ packets' = packets \cup PacketsOf(M)
      /\ handled' \subseteq handled
      /\ \A x \in active_messages' : x \in handled => x \in handled'
  BY DEF Sent, Remembered
<1>5. \A p \in packets' : p \in packets \/ p = PacketOf(p.message)
  BY <1>4 DEF PacketsOf, PacketOf
<1>6. {x \in M : x.type = "sync"} = SyncMessages(n, S, names)
  BY DEF Requests, SyncMessages
<1> QED
  BY <1>3, <1>4, <1>5, <1>6 DEF Replaces

LEMMA SynchronizeUpdates ==
  ASSUME SynchronizerInv, SynchronizerInv', UpdateInv, NEW n \in Endpoints,
         NEW name \in Objects[n], Synchronize(n, name)
  PROVE  UpdateInv'
<1> DEFINE names == {name}
           S == Known(n)
           R == {}
           M == SyncMessages(n, S, names)
<1>1. names \in SUBSET Names /\ S \in SUBSET (Endpoints \ {n})
  BY SynchronizerAssumption, KnownAreOthers DEF SynchronizerInv
<1>2. /\ Sent(n, Related(n, names), M, M)
      /\ UNCHANGED <<endpoint_to_synchronizables, version, seen, group_name_hash,
           restarts>>
  BY DEF Synchronize, KeptBySynchronize, copy_vars, counts
<1>3. Remembering
  BY <1>2, SameIsRemembering DEF Known
<1>4. \A k, e \in Endpoints : \A x \in Names :
        owed'[k][e][x] = IF k = n /\ e \in S /\ x = name
                           THEN version[n][name] ELSE owed[k][e][x]
  BY <1>1 DEF Synchronize, SynchronizerInv, SettingsType, HistoryType
<1>5. Known(n)' = Known(n) /\ \A k \in Endpoints : Known(k)' = Known(k)
  BY <1>2 DEF Known
<1>6. OwedInv'
  BY <1>1, <1>2, <1>4, <1>5, HistoryTypes DEF OwedInv, UpdateInv
<1>7. OwesOnly(n, S, names)
  BY <1>1, <1>4, HistoryTypes DEF OwesOnly, UpdateInv, OwedInv
<1>8. R \in SUBSET Requests(n, S) /\ M = SyncMessages(n, S, names) \cup R
  OBVIOUS
<1> HIDE DEF names, S, R, M
<1>9. Replaces(n, S, names, M)
  BY <1>1, <1>2, <1>8, SentReplaces
<1> QED
  BY <1>1, <1>2, <1>3, <1>6, <1>7, <1>9, SentUpdates

(* The node sends its objects and a request to an endpoint, or either.     *)
LEMMA SentToEndpoint ==
  ASSUME TwoNodes, SynchronizerInv, SynchronizerInv', UpdateInv, Remembering,
         NEW n \in Endpoints, NEW e \in Endpoints \ {n}, NEW names \in SUBSET Names,
         NEW R \in SUBSET Requests(n, {e}),
         NEW M, M = SyncMessages(n, {e}, names) \cup R,
         Sent(n, Related(n, names), M, M), UNCHANGED <<version, owed>>
  PROVE  UpdateInv'
<1> DEFINE S == {e}
<1>1. S \in SUBSET (Endpoints \ {n}) /\ Endpoints \ {n} \subseteq S
  BY DEF TwoNodes
<1>2. OwedInv'
  BY OwedStays DEF UpdateInv
<1>3. Replaces(n, S, names, M)
  BY <1>1, SentReplaces
<1>4. OwesOnly(n, S, names)
  BY <1>1 DEF OwesOnly
<1> HIDE DEF S
<1> QED
  BY <1>2, <1>3, <1>4, SentUpdates

LEMMA CommitScanResultsUpdates ==
  ASSUME TwoNodes, SynchronizerInv, SynchronizerInv', UpdateInv,
         NEW n \in Endpoints, NEW answers \in SUBSET Advertisers(n),
         CommitScanResults(n, answers)
  PROVE  UpdateInv'
<1> DEFINE new == NewEndpoints(n, answers)
           own == own_synchronizables[n]
<1>1. /\ UNCHANGED <<group_name_hash, version, owed, seen, restarts>>
      /\ Remembering
  <2>1. UNCHANGED <<group_name_hash, version, owed, seen, restarts>>
    BY DEF CommitScanResults, counts, history_vars
  <2>2. Known(n) \subseteq DOMAIN WithEndpoints(n, new)
    BY DEF WithEndpoints
  <2>3. AddEndpoints(n, new, WithEndpoints(n, new), answers)
    BY DEF CommitScanResults
  <2> QED
    BY <2>1, <2>2, <2>3, AddEndpointsKnown, SameIsRemembering
<1>2. new \subseteq Endpoints \ {n} /\ own \in SUBSET Names
  BY DEF NewEndpoints, Advertisers, SynchronizerInv, SettingsType
<1>3. CASE new = {}
  <2>1. UNCHANGED message_vars
    BY <1>3 DEF CommitScanResults
  <2> QED
    BY <1>1, <2>1, UntouchedMessages, QuietUpdates
<1>4. CASE new # {}
  <2>1. PICK e \in new :
          Sent(n, Related(n, own), SyncMessages(n, new, own) \cup Requests(n, new),
               SyncMessages(n, {e}, own) \cup Requests(n, new))
    BY <1>4 DEF CommitScanResults
  <2>2. new = {e} /\ e \in Endpoints \ {n}
    BY <1>2 DEF TwoNodes
  <2> DEFINE R == Requests(n, {e})
             M == SyncMessages(n, {e}, own) \cup R
  <2>3. Sent(n, Related(n, own), M, M)
    BY <2>1, <2>2
  <2>4. R \in SUBSET Requests(n, {e}) /\ M = SyncMessages(n, {e}, own) \cup R
    OBVIOUS
  <2> HIDE DEF R, M
  <2> QED
    BY <1>1, <1>2, <2>2, <2>3, <2>4, SentToEndpoint
<1> QED
  BY <1>3, <1>4

LEMMA CallSendUpdates ==
  ASSUME TwoNodes, SynchronizerInv, SynchronizerInv', UpdateInv,
         NEW n \in Endpoints, NEW e \in Endpoints \ {n},
         CallInitialSynchronization(n, e) \/ CallRequest(n, e)
  PROVE  UpdateInv'
<1>1. UNCHANGED <<endpoint_to_synchronizables, group_name_hash, version, owed, seen,
        restarts>>
  BY DEF CallInitialSynchronization, CallRequest, CallSend, Call, copy_vars,
         history_vars
<1>2. Remembering
  BY <1>1, SameIsRemembering DEF Known
<1>3. CASE CallInitialSynchronization(n, e)
  <2> DEFINE own == own_synchronizables[n]
             R == {}
             M == SyncMessages(n, {e}, own)
  <2>1. own \in SUBSET Names
    BY DEF SynchronizerInv, SettingsType
  <2>2. Sent(n, Related(n, own), M, M)
    BY <1>3 DEF CallInitialSynchronization, CallSend
  <2>3. R \in SUBSET Requests(n, {e}) /\ M = SyncMessages(n, {e}, own) \cup R
    OBVIOUS
  <2> HIDE DEF R, M
  <2> QED
    BY <1>1, <1>2, <2>1, <2>2, <2>3, SentToEndpoint
<1>4. CASE CallRequest(n, e)
  <2> DEFINE names == {}
             R == Requests(n, {e})
             M == R
  <2>1. Related(n, names) = {} /\ SyncMessages(n, {e}, names) = {}
    BY DEF Related, SyncMessages
  <2>2. Sent(n, Related(n, names), M, M)
    BY <1>4, <2>1 DEF CallRequest, CallSend
  <2>3. /\ names \in SUBSET Names
        /\ R \in SUBSET Requests(n, {e})
        /\ M = SyncMessages(n, {e}, names) \cup R
    BY <2>1
  <2> HIDE DEF names, R, M
  <2> QED
    BY <1>1, <1>2, <2>2, <2>3, SentToEndpoint
<1> QED
  BY <1>3, <1>4

(* A request is answered with new messages about all of the node's         *)
(* objects, which take the place of those that are active.                 *)
LEMMA HandleRequestUpdates ==
  ASSUME TwoNodes, SynchronizerInv, SynchronizerInv', UpdateInv,
         NEW p \in packets, HandleRequest(p)
  PROVE  UpdateInv'
<1> DEFINE m == p.message
           n == m.dst
           S == {m.src}
           own == own_synchronizables[n]
           M == SyncMessages(n, S, own)
<1>1. /\ n \in Endpoints /\ S \in SUBSET (Endpoints \ {n}) /\ own \in SUBSET Names
      /\ Endpoints \ {n} \subseteq S
  BY DEF TwoNodes, SynchronizerInv, SettingsType, MessagesInv, Packet, SentMessage,
         Message
<1>2. /\ m.type = "req_init_sync"
      /\ packets' = PacketsAfter(p) \cup PacketsOf(M)
      /\ active_messages' = (active_messages \ Related(n, own)) \cup M
      /\ arrived' \subseteq arrived \cup {m}
      /\ handled' \subseteq handled \cup {m}
      /\ \A x \in active_messages' : x \in handled => x \in handled'
      /\ sent' = [sent EXCEPT ![n] = @ + 1]
      /\ UNCHANGED <<endpoint_to_synchronizables, group_name_hash, version, owed,
           seen, restarts>>
  BY DEF HandleRequest, CancelledByInitialSync, copy_vars, counts, history_vars,
         Remembered
<1>3. Remembering
  BY <1>2, SameIsRemembering DEF Known
<1>4. OwedInv'
  BY <1>2, <1>3, OwedStays DEF UpdateInv
<1>5. \A q \in packets' :
        q \in packets \/ (q = PacketOf(q.message) /\ q.message \in M)
  <2>1. \A q \in PacketsOf(M) : q = PacketOf(q.message) /\ q.message \in M
    BY DEF PacketsOf, PacketOf
  <2>2. PacketsAfter(p) \subseteq packets
    BY DEF PacketsAfter
  <2> HIDE DEF M
  <2> QED
    BY <1>2, <2>1, <2>2
<1>6. M \subseteq SentMessage /\ \A x \in M : x.src = n /\ x.number = sent[n]
  BY <1>1, MessagesAreMessages DEF SynchronizerInv, SyncMessages
<1>7. Sends(M)
  <2>1. sent \in [Endpoints -> Nat]
    BY DEF SynchronizerInv, MessagesInv
  <2> HIDE DEF M
  <2> QED
    BY <1>1, <1>2, <1>5, <1>6, <2>1 DEF Sends
<1>8. Replaces(n, S, own, M)
  <2>1. {x \in M : x.type = "sync"} = SyncMessages(n, S, own)
    BY DEF SyncMessages
  <2> QED
    BY <1>2, <1>5, <1>7, <2>1 DEF Replaces
<1>9. OwesOnly(n, S, own)
  BY <1>1, <1>2 DEF OwesOnly
<1>10. UNCHANGED version
  BY <1>2
<1> HIDE DEF m, n, S, own, M
<1> QED
  BY <1>1, <1>3, <1>4, <1>8, <1>9, <1>10, SentUpdates

--------------------------------------------------------------------------------
(* A synchronization message is handled. *)

(* The copy it is about shows its version, if it is from the same group.   *)
LEMMA HandledIsShown ==
  ASSUME SynchronizerInv, NEW p \in packets, HandleSynchronizationMessage(p),
         IsFromSameGroup(p.message.dst, p), p.message.name \in Container
  PROVE  /\ p.message.src \in Known(p.message.dst)'
         /\ seen'[p.message.dst][p.message.src][p.message.name] >= p.version
<1> DEFINE m == p.message
           copies == WithEndpoints(m.dst, {m.src})
           copy == [version |-> p.version, group |-> p.group]
           updated == [copies EXCEPT ![m.src][m.name] = copy]
           old == seen[m.dst][m.src][m.name]
<1>1. m.dst \in Endpoints /\ m.src \in Endpoints /\ m.name \in Names /\ p.version \in Nat
  BY SynchronizerAssumption
     DEF SynchronizerInv, MessagesInv, Packet, SentMessage, Message
<1>2. AddEndpoints(m.dst, {m.src}, updated, {})
  BY DEF HandleSynchronizationMessage
<1>3. DOMAIN updated = Known(m.dst) \cup {m.src}
  BY DEF WithEndpoints
<1>4. m.src \in Known(m.dst)'
  <2> HIDE DEF updated
  <2> QED
    BY <1>1, <1>2, <1>3 DEF AddEndpoints, Known, SynchronizerInv, CopiesInv
<1>5. old \in Nat
  BY <1>1, HistoryTypes
<1>6. seen'[m.dst][m.src][m.name] = IF p.version > old THEN p.version ELSE old
  BY <1>1 DEF HandleSynchronizationMessage, SynchronizerInv, SettingsType, HistoryType
<1>7. seen'[m.dst][m.src][m.name] >= p.version
  BY <1>1, <1>5, <1>6
<1> QED
  BY <1>4, <1>7

LEMMA HandlingIsRemembering ==
  ASSUME SynchronizerInv, NEW p \in packets, HandleSynchronizationMessage(p)
  PROVE  Remembering /\ UNCHANGED owed
<1> DEFINE m == p.message
           copies == WithEndpoints(m.dst, {m.src})
           copy == [version |-> p.version, group |-> p.group]
           updated == IF m.name \in Container
                        THEN [copies EXCEPT ![m.src][m.name] = copy] ELSE copies
           old == seen[m.dst][m.src][m.name]
           newest == IF m.name \in Container /\ p.version > old THEN p.version ELSE old
<1>1. m.dst \in Endpoints /\ m.src \in Endpoints /\ m.name \in Names /\ p.version \in Nat
  BY DEF SynchronizerInv, MessagesInv, Packet, SentMessage, Message,
         HandleSynchronizationMessage
<1>2. UNCHANGED <<owed, version, group_name_hash, restarts>>
  BY DEF HandleSynchronizationMessage, counts
<1>3. CASE ~IsFromSameGroup(m.dst, p)
  <2>1. UNCHANGED <<endpoint_to_synchronizables, seen>>
    BY <1>3 DEF HandleSynchronizationMessage, copy_vars
  <2> QED
    BY <1>2, <2>1, SameIsRemembering DEF Known
<1>4. CASE IsFromSameGroup(m.dst, p)
  <2>1. AddEndpoints(m.dst, {m.src}, updated, {})
    BY <1>4, Zenon DEF HandleSynchronizationMessage
  <2>2. Known(m.dst) \subseteq DOMAIN updated
    BY DEF WithEndpoints
  <2>3. \A k \in Endpoints : Known(k) \subseteq Known(k)'
    <3> HIDE DEF updated, m
    <3> QED
      BY <1>1, <2>1, <2>2, AddEndpointsKnown
  <2>4. seen' = [seen EXCEPT ![m.dst][m.src][m.name] = newest]
    BY <1>4 DEF HandleSynchronizationMessage
  <2>5. old \in Nat /\ newest \in Nat /\ old <= newest
    BY <1>1, HistoryTypes
  <2>6. \A n, e \in Endpoints : \A name \in Names :
          seen[n][e][name] <= seen'[n][e][name]
    <3> HIDE DEF newest, m
    <3>1. ASSUME NEW n \in Endpoints, NEW e \in Endpoints, NEW name \in Names
          PROVE  seen[n][e][name] <= seen'[n][e][name]
      <4>1. CASE n = m.dst /\ e = m.src /\ name = m.name
        BY <1>1, <2>4, <2>5, <4>1 DEF SynchronizerInv, SettingsType, HistoryType
      <4>2. CASE ~(n = m.dst /\ e = m.src /\ name = m.name)
        <5>1. seen'[n][e][name] = seen[n][e][name]
          BY <1>1, <2>4, <4>2 DEF SynchronizerInv, SettingsType, HistoryType
        <5> QED
          BY <5>1, HistoryTypes
      <4> QED
        BY <4>1, <4>2
    <3> QED
      BY <3>1
  <2>7. \A n \in Endpoints : \A name \in Names : version[n][name] <= version'[n][name]
    BY <1>2, HistoryTypes
  <2> QED
    BY <1>2, <2>3, <2>6, <2>7 DEF Remembering
<1> QED
  BY <1>2, <1>3, <1>4

(* The handled message that says what is owed shows it; any other one      *)
(* leaves those about the debt alone.                                      *)
LEMMA HandleSynchronizationMessageUpdates ==
  ASSUME SynchronizerInv, SynchronizerInv', UpdateInv,
         NEW p \in packets, HandleSynchronizationMessage(p)
  PROVE  UpdateInv'
<1> DEFINE m == p.message
<1>1. /\ packets' \subseteq packets
      /\ UNCHANGED <<active_messages, sent>>
      /\ arrived' \subseteq arrived \cup ({m} \cap active_messages)
      /\ handled' \subseteq handled \cup {m}
      /\ \A x \in active_messages : x \in handled \cup {m} => x \in handled'
      /\ Remembering /\ UNCHANGED owed
  BY HandlingIsRemembering DEF HandleSynchronizationMessage, PacketsAfter, Remembered
<1>2. Sends({})
  BY <1>1 DEF Sends, SynchronizerInv, MessagesInv
<1>3. Numbered' /\ OwedInv'
  BY <1>1, <1>2, NumberedStep, OwedStays DEF UpdateInv
<1>4. ASSUME NEW n \in Endpoints, NEW e \in Endpoints, NEW name \in Container,
             n # e, Debt(n, e, name)
      PROVE  Kept(n, e, name)'
  <2>1. CASE ~(m \in active_messages /\ IsSync(m, n, e, name))
    <3>1. SameMessages(n, e, name)
      BY <1>1, <2>1 DEF SameMessages
    <3> QED
      BY <1>1, <1>4, <3>1, KeptStays
  <2>2. CASE m \in active_messages /\ IsSync(m, n, e, name)
    <3>1. \A x \in active_messages' : IsSync(x, n, e, name) => Says(x, n, e, name)'
      BY <1>1, <1>4, SaysStays
    <3>2. ASSUME group_name_hash'[n] = group_name_hash'[e]
          PROVE  Shown(n, e, name)'
      <4>1. p.version >= owed[n][e][name] /\ p.group = group_name_hash[n]
        BY <1>4, <2>2 DEF UpdateInv, Kept, Says
      <4>2. IsFromSameGroup(m.dst, p) /\ m.name \in Container
        BY <1>1, <2>2, <3>2, <4>1 DEF IsFromSameGroup, IsSync, Remembering
      <4>3. n \in Known(e)' /\ seen'[e][n][name] >= p.version
        BY <2>2, <4>2, HandledIsShown DEF IsSync
      <4>4. name \in Names /\ p.version \in Nat
        BY SynchronizerAssumption DEF SynchronizerInv, MessagesInv, Packet
      <4>5. seen'[e][n][name] \in Nat /\ owed[n][e][name] \in Nat
        BY <4>4, HistoryTypes DEF SynchronizerInv, SettingsType, HistoryType
      <4> QED
        BY <1>1, <4>1, <4>3, <4>4, <4>5 DEF Shown, HasShown
    <3> QED
      BY <3>1, <3>2 DEF Kept, NotDropped, IsSync
  <2> QED
    BY <2>1, <2>2
<1>5. \A n, e \in Endpoints : \A name \in Container : n # e => Kept(n, e, name)'
  <2> SUFFICES ASSUME NEW n \in Endpoints, NEW e \in Endpoints, NEW name \in Container,
                      n # e
               PROVE  Kept(n, e, name)'
    OBVIOUS
  <2>1. ~Debt(n, e, name) => Kept(n, e, name)'
    BY <1>1 DEF Kept, Debt, Remembering
  <2> QED
    BY <1>4, <2>1
<1> QED
  BY <1>3, <1>5 DEF UpdateInv

--------------------------------------------------------------------------------
(* Every step. *)

LEMMA UpdateStep ==
  ASSUME TwoNodes, SynchronizerInv, SynchronizerInv', UpdateInv, [Next]_vars
  PROVE  UpdateInv'
<1>1. ASSUME NEW n \in Endpoints, NodeStep(n)
      PROVE  UpdateInv'
  <2>1. ASSUME NEW group, SetGroupName(n, group) PROVE UpdateInv'
    BY <2>1, DeregisterUpdates DEF SetGroupName
  <2>2. ASSUME CallDeregisterAllEndpoints(n) PROVE UpdateInv'
    BY <2>2, DeregisterUpdates DEF CallDeregisterAllEndpoints
  <2>3. ASSUME NEW e \in Endpoints \ {n}, CallRemoveEndpoint(n, e) PROVE UpdateInv'
    <3>1. /\ RemoveEndpoint(n, e)
          /\ UNCHANGED <<version, active_messages, handled, packets, sent>>
      BY <2>3 DEF CallRemoveEndpoint, Call, message_vars
    <3>2. Sends({})
      BY <3>1 DEF Sends, SynchronizerInv, MessagesInv
    <3> QED
      BY <3>1, <3>2, RemoveEndpointUpdates
  <2> QED
    BY <1>1, <2>1, <2>2, <2>3, LocalUpdates, SynchronizeUpdates,
       CommitScanResultsUpdates, SendActiveMessagesUpdates, CallSendUpdates
       DEF NodeStep
<1>2. ASSUME NEW n \in Endpoints, Restart(n)
      PROVE  UpdateInv'
  BY <1>2, RebootUpdates DEF Restart
<1>3. ASSUME NEW p \in packets, RestartWhileReceiving(p)
      PROVE  UpdateInv'
  <2>1. p.message.dst \in Endpoints
    BY DEF SynchronizerInv, MessagesInv, Packet, SentMessage, Message
  <2> QED
    BY <1>3, <2>1, RebootUpdates DEF RestartWhileReceiving
<1>4. ASSUME NEW p \in packets, OnMessageReceived(p)
      PROVE  UpdateInv'
  BY <1>4, HandleSynchronizationMessageUpdates, HandleRequestUpdates
     DEF OnMessageReceived
<1> QED
  BY <1>1, <1>2, <1>3, <1>4, OnSendSucceededUpdates, OnSendFailedUpdates,
     IgnoreUpdates, LoseUpdates, StutterUpdates DEF Next

(* Between two nodes no interleaving of changes, scans, requests, calls,   *)
(* changes of the group, losses, late packets, failures and reboots drops  *)
(* an update: until one of the two forgets the other, the copy has shown   *)
(* it or a message that says it is still repeated.                         *)
THEOREM UpdatesSurvive ==
  ASSUME TwoNodes
  PROVE  Spec => []NoUpdateDropped
<1>1. Init => UpdateInv
  BY InitUpdates
<1>2. SynchronizerInv /\ SynchronizerInv' /\ UpdateInv /\ [Next]_vars => UpdateInv'
  BY UpdateStep
<1>3. SynchronizerInv /\ UpdateInv => NoUpdateDropped
  BY UpdateInvImplies
<1> QED
  BY <1>1, <1>2, <1>3, SynchronizerInvariant, PTL DEF Spec
================================================================================
