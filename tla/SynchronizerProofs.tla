--------------------------- MODULE SynchronizerProofs ---------------------------
(***************************************************************************)
(* Proofs about Synchronizer, for any number of nodes, groups and objects, *)
(* and for networks that lose, delay, repeat and reorder.                  *)
(***************************************************************************)
EXTENDS Synchronizer, TLAPS

(* The inductive invariant, in two parts: what a node keeps, and what is   *)
(* under way.                                                              *)
IsCopies(n, copies) ==
  /\ DOMAIN copies \subseteq Endpoints \ {n}
  /\ copies \in [DOMAIN copies -> [Container -> Copy]]
  /\ \A e \in DOMAIN copies : \A name \in Container :
       copies[e][name].group \in {NoGroup, group_name_hash[n]}

IsInfos(n, infos) ==
  /\ DOMAIN infos \subseteq Endpoints \ {n}
  /\ infos \in [DOMAIN infos -> Info]

CopiesInv ==
  /\ DOMAIN endpoint_to_synchronizables = Endpoints
  /\ \A n \in Endpoints : IsCopies(n, endpoint_to_synchronizables[n])
  /\ DOMAIN endpoint_to_endpoint_info = Endpoints
  /\ \A n \in Endpoints : IsInfos(n, endpoint_to_endpoint_info[n])
  /\ KnownHaveInfo

HistoryType ==
  /\ owed \in [Endpoints -> [Endpoints -> [Names -> 0 .. MaxChanges]]]
  /\ seen \in [Endpoints -> [Endpoints -> [Names -> 0 .. MaxChanges]]]

SettingsType ==
  /\ own_synchronizables \in [Endpoints -> SUBSET Names]
  /\ group_name_hash \in [Endpoints -> Groups]
  /\ scan \in [Endpoints -> Groups \cup {NoScan}]
  /\ version \in [Endpoints -> [Names -> 0 .. MaxChanges]]
  /\ failures \in 0 .. MaxFailures
  /\ calls \in 0 .. MaxCalls
  /\ DOMAIN restarts = Endpoints
  /\ \A n \in Endpoints : restarts[n] \in 0 .. MaxRestarts[n]
  /\ HistoryType

(* Nothing is sent to the node itself. *)
SentMessage ==
  {m \in Message : m.src # m.dst /\ (m.type = "sync" => m.name \in Names)}
Packet ==
  [message : SentMessage, group : Groups \cup {NoGroup},
   version : 0 .. MaxChanges]

MessagesInv ==
  /\ active_messages \subseteq SentMessage
  /\ arrived \subseteq active_messages
  /\ handled \subseteq SentMessage
  /\ packets \subseteq Packet
  /\ sent \in [Endpoints -> Nat]
  /\ OneSyncPerName

SynchronizerInv == CopiesInv /\ SettingsType /\ MessagesInv

LEMMA InvImplies ==
  SynchronizerInv => TypeOK /\ KnownHaveInfo /\ OwnGroupDataOnly /\ OneSyncPerName
<1> SUFFICES ASSUME SynchronizerInv
             PROVE  TypeOK /\ KnownHaveInfo /\ OwnGroupDataOnly /\ OneSyncPerName
  OBVIOUS
<1>1. \A n \in Endpoints :
        /\ Known(n) \subseteq Endpoints \ {n}
        /\ endpoint_to_synchronizables[n] \in [Known(n) -> [Container -> Copy]]
  BY DEF SynchronizerInv, CopiesInv, IsCopies, Known
<1>2. \A p \in packets : /\ p.message \in Message
                         /\ p.group \in Groups \cup {NoGroup}
                         /\ p.version \in 0 .. MaxChanges
  BY DEF SynchronizerInv, MessagesInv, Packet, SentMessage
<1>3. active_messages \subseteq Message /\ handled \subseteq Message
  BY DEF SynchronizerInv, MessagesInv, SentMessage
<1>4. \A n \in Endpoints :
        /\ HasInfo(n) \subseteq Endpoints \ {n}
        /\ endpoint_to_endpoint_info[n] \in [HasInfo(n) -> Info]
  BY DEF SynchronizerInv, CopiesInv, IsInfos, HasInfo
<1>5. TypeOK
  BY <1>1, <1>2, <1>3, <1>4, Zenon
     DEF TypeOK, SynchronizerInv, CopiesInv, SettingsType, HistoryType, MessagesInv
<1>6. OwnGroupDataOnly
  BY DEF OwnGroupDataOnly, SynchronizerInv, CopiesInv, IsCopies, Known
<1> QED
  BY <1>5, <1>6 DEF SynchronizerInv, CopiesInv, MessagesInv

LEMMA NothingType == Nothing \in [Names -> 0 .. MaxChanges]
BY SynchronizerAssumption DEF Nothing

LEMMA ForgottenType ==
  ASSUME HistoryType, NEW n \in Endpoints, NEW S, Forgotten(n, S)
  PROVE  HistoryType'
<1>1. owed' \in [Endpoints -> [Endpoints -> [Names -> 0 .. MaxChanges]]]
  BY NothingType DEF HistoryType, Forgotten
<1>2. seen' \in [Endpoints -> [Endpoints -> [Names -> 0 .. MaxChanges]]]
  <2> DEFINE row == [e \in Endpoints |-> IF e \in S THEN Nothing ELSE seen[n][e]]
  <2>1. row \in [Endpoints -> [Names -> 0 .. MaxChanges]]
    BY NothingType DEF HistoryType
  <2>2. seen' = [seen EXCEPT ![n] = row]
    BY DEF HistoryType, Forgotten
  <2> HIDE DEF row
  <2> QED
    BY <2>1, <2>2 DEF HistoryType
<1> QED
  BY <1>1, <1>2 DEF HistoryType

LEMMA NoCopiesIsCopies ==
  ASSUME NEW n \in Endpoints
  PROVE  IsCopies(n, NoCopies)
BY DEF IsCopies, NoCopies

LEMMA NoInfosIsInfos ==
  ASSUME NEW n \in Endpoints
  PROVE  IsInfos(n, NoInfos)
BY DEF IsInfos, NoInfos

LEMMA InitSynchronizer == Init => SynchronizerInv
<1> SUFFICES ASSUME Init
             PROVE  SynchronizerInv
  OBVIOUS
<1>1. CopiesInv
  <2>1. \A n \in Endpoints : endpoint_to_synchronizables[n] = NoCopies
    BY DEF Init
  <2>2. DOMAIN NoCopies = {}
    BY DEF NoCopies
  <2>3. \A n \in Endpoints : IsCopies(n, endpoint_to_synchronizables[n])
    BY <2>1, <2>2, NoCopiesIsCopies
  <2>4. KnownHaveInfo
    BY <2>1, <2>2 DEF KnownHaveInfo, Known
  <2>5. \A n \in Endpoints : IsInfos(n, endpoint_to_endpoint_info[n])
    BY NoInfosIsInfos DEF Init
  <2> QED
    BY <2>3, <2>4, <2>5 DEF Init, CopiesInv
<1>2. SettingsType
  BY SynchronizerAssumption, NothingType DEF Init, SettingsType, HistoryType
<1>3. MessagesInv
  BY DEF Init, MessagesInv, OneSyncPerName
<1> QED
  BY <1>1, <1>2, <1>3 DEF SynchronizerInv

--------------------------------------------------------------------------------
(* The copies. *)

LEMMA WithEndpointsIsCopies ==
  ASSUME CopiesInv, NEW n \in Endpoints, NEW S \in SUBSET (Endpoints \ {n})
  PROVE  /\ IsCopies(n, WithEndpoints(n, S))
         /\ DOMAIN WithEndpoints(n, S) = Known(n) \cup S
<1> DEFINE copies == WithEndpoints(n, S)
<1>1. DOMAIN copies = Known(n) \cup S
  BY DEF WithEndpoints
<1>2. IsCopies(n, endpoint_to_synchronizables[n])
  BY DEF CopiesInv
<1>3. /\ InitialCopies \in [Container -> Copy]
      /\ \A name \in Container : InitialCopies[name].group = NoGroup
  BY SynchronizerAssumption DEF InitialCopies, Copy
<1>4. ASSUME NEW e \in Known(n) \cup S
      PROVE  /\ copies[e] \in [Container -> Copy]
             /\ \A name \in Container :
                  copies[e][name].group \in {NoGroup, group_name_hash[n]}
  <2>1. CASE e \in Known(n)
    BY <1>2, <2>1 DEF WithEndpoints, IsCopies, Known
  <2>2. CASE e \notin Known(n)
    BY <1>3, <2>2 DEF WithEndpoints
  <2> QED
    BY <2>1, <2>2
<1>5. copies \in [DOMAIN copies -> [Container -> Copy]]
  BY <1>1, <1>4 DEF WithEndpoints
<1>6. DOMAIN copies \subseteq Endpoints \ {n}
  BY <1>1, <1>2 DEF IsCopies, Known
<1> QED
  BY <1>1, <1>4, <1>5, <1>6 DEF IsCopies

(* add_endpoint keeps the two maps together. *)
LEMMA AddEndpointsStep ==
  ASSUME CopiesInv, NEW n \in Endpoints, NEW S \in SUBSET (Endpoints \ {n}),
         NEW copies, IsCopies(n, copies), DOMAIN copies = Known(n) \cup S,
         NEW answers, AddEndpoints(n, S, copies, answers),
         UNCHANGED group_name_hash
  PROVE  CopiesInv'
<1> DEFINE new == S \ Known(n)
           infos == [e \in HasInfo(n) \cup new |->
                       IF e \in Informed(n, answers) THEN "given"
                       ELSE IF e \in new THEN "empty"
                       ELSE endpoint_to_endpoint_info[n][e]]
<1>1. /\ DOMAIN endpoint_to_synchronizables' = Endpoints
      /\ endpoint_to_synchronizables'[n] = copies
      /\ \A k \in Endpoints \ {n} :
           endpoint_to_synchronizables'[k] = endpoint_to_synchronizables[k]
  BY DEF CopiesInv, AddEndpoints
<1>2. /\ DOMAIN endpoint_to_endpoint_info' = Endpoints
      /\ endpoint_to_endpoint_info'[n] = infos
      /\ \A k \in Endpoints \ {n} :
           endpoint_to_endpoint_info'[k] = endpoint_to_endpoint_info[k]
  BY DEF CopiesInv, AddEndpoints
<1>3. \A k \in Endpoints : IsCopies(k, endpoint_to_synchronizables[k])'
  BY <1>1 DEF CopiesInv, IsCopies
<1>4. IsInfos(n, infos) /\ DOMAIN infos = HasInfo(n) \cup new
  BY DEF CopiesInv, IsInfos, HasInfo, Info
<1>5. \A k \in Endpoints : IsInfos(k, endpoint_to_endpoint_info[k])'
  BY <1>2, <1>4 DEF CopiesInv, IsInfos
<1>6. KnownHaveInfo'
  <2> HIDE DEF infos
  <2> QED
    BY <1>1, <1>2, <1>4 DEF CopiesInv, KnownHaveInfo, Known, HasInfo
<1> QED
  BY <1>1, <1>2, <1>3, <1>5, <1>6 DEF CopiesInv

LEMMA RemoveEndpointStep ==
  ASSUME CopiesInv, NEW n \in Endpoints, NEW e \in Endpoints,
         RemoveEndpoint(n, e), UNCHANGED group_name_hash
  PROVE  CopiesInv'
<1> DEFINE before == endpoint_to_synchronizables[n]
           after == [x \in Known(n) \ {e} |-> before[x]]
           infos == [x \in HasInfo(n) \ {e} |-> endpoint_to_endpoint_info[n][x]]
<1>1. /\ DOMAIN endpoint_to_synchronizables' = Endpoints
      /\ endpoint_to_synchronizables'[n] = after
      /\ \A k \in Endpoints \ {n} :
           endpoint_to_synchronizables'[k] = endpoint_to_synchronizables[k]
  BY DEF CopiesInv, RemoveEndpoint, KnownAfterRemoval
<1>2. /\ DOMAIN endpoint_to_endpoint_info' = Endpoints
      /\ endpoint_to_endpoint_info'[n] = infos
      /\ \A k \in Endpoints \ {n} :
           endpoint_to_endpoint_info'[k] = endpoint_to_endpoint_info[k]
  BY DEF CopiesInv, RemoveEndpoint
<1>3. IsCopies(n, before)
  BY DEF CopiesInv
<1>4. IsCopies(n, after)
  BY <1>3 DEF IsCopies, Known
<1>5. \A k \in Endpoints : IsCopies(k, endpoint_to_synchronizables[k])'
  BY <1>1, <1>4 DEF CopiesInv, IsCopies
<1>6. KnownHaveInfo'
  <2>1. DOMAIN after = Known(n) \ {e} /\ DOMAIN infos = HasInfo(n) \ {e}
    OBVIOUS
  <2> HIDE DEF after, infos
  <2> QED
    BY <1>1, <1>2, <2>1 DEF CopiesInv, KnownHaveInfo, Known, HasInfo
<1>7. IsInfos(n, infos)
  BY DEF CopiesInv, IsInfos, HasInfo
<1>8. \A k \in Endpoints : IsInfos(k, endpoint_to_endpoint_info[k])'
  BY <1>2, <1>7 DEF CopiesInv, IsInfos
<1> QED
  BY <1>1, <1>2, <1>5, <1>6, <1>8 DEF CopiesInv

(* The copies of one node are cleared, with or without its infos, as its   *)
(* group changes or not.                                                   *)
LEMMA ClearedStep ==
  ASSUME CopiesInv, NEW n \in Endpoints,
         endpoint_to_synchronizables' =
           [endpoint_to_synchronizables EXCEPT ![n] = NoCopies],
         \/ UNCHANGED endpoint_to_endpoint_info
         \/ endpoint_to_endpoint_info' =
              [endpoint_to_endpoint_info EXCEPT ![n] = NoInfos],
         \A k \in Endpoints \ {n} : group_name_hash'[k] = group_name_hash[k]
  PROVE  CopiesInv'
<1>1. /\ DOMAIN endpoint_to_synchronizables' = Endpoints
      /\ endpoint_to_synchronizables'[n] = NoCopies
      /\ \A k \in Endpoints \ {n} :
           endpoint_to_synchronizables'[k] = endpoint_to_synchronizables[k]
  BY DEF CopiesInv
<1>2. DOMAIN NoCopies = {}
  BY DEF NoCopies
<1>3. IsCopies(n, endpoint_to_synchronizables[n])'
  BY <1>1, <1>2 DEF IsCopies, NoCopies
<1>4. \A k \in Endpoints : IsCopies(k, endpoint_to_synchronizables[k])'
  BY <1>1, <1>3 DEF CopiesInv, IsCopies
<1>5. /\ DOMAIN endpoint_to_endpoint_info' = Endpoints
      /\ endpoint_to_endpoint_info'[n] \in {endpoint_to_endpoint_info[n], NoInfos}
      /\ \A k \in Endpoints \ {n} :
           endpoint_to_endpoint_info'[k] = endpoint_to_endpoint_info[k]
  BY DEF CopiesInv
<1>6. \A k \in Endpoints : IsInfos(k, endpoint_to_endpoint_info[k])'
  BY <1>5, NoInfosIsInfos DEF CopiesInv, IsInfos
<1>7. KnownHaveInfo'
  BY <1>1, <1>2, <1>5 DEF CopiesInv, KnownHaveInfo, Known, HasInfo
<1> QED
  BY <1>1, <1>4, <1>5, <1>6, <1>7 DEF CopiesInv

(* Steps that change neither the copies nor the group. *)
LEMMA SameCopies ==
  ASSUME CopiesInv, UNCHANGED <<copy_vars, group_name_hash>>
  PROVE  CopiesInv'
BY DEF CopiesInv, copy_vars, IsCopies, IsInfos, KnownHaveInfo, Known, HasInfo

(* set_endpoint_info *)
LEMMA CallSetEndpointInfoCopies ==
  ASSUME CopiesInv, NEW n \in Endpoints, NEW e, CallSetEndpointInfo(n, e)
  PROVE  CopiesInv'
<1> DEFINE infos == [endpoint_to_endpoint_info[n] EXCEPT ![e] = "given"]
<1>1. /\ DOMAIN endpoint_to_endpoint_info' = Endpoints
      /\ endpoint_to_endpoint_info'[n] = infos
      /\ \A k \in Endpoints \ {n} :
           endpoint_to_endpoint_info'[k] = endpoint_to_endpoint_info[k]
  BY DEF CopiesInv, CallSetEndpointInfo
<1>2. IsInfos(n, infos) /\ DOMAIN infos = HasInfo(n)
  BY DEF CopiesInv, IsInfos, HasInfo, Info
<1>3. \A k \in Endpoints : IsInfos(k, endpoint_to_endpoint_info[k])'
  BY <1>1, <1>2 DEF CopiesInv, IsInfos
<1>4. UNCHANGED <<endpoint_to_synchronizables, group_name_hash>>
  BY DEF CallSetEndpointInfo, Call
<1>5. KnownHaveInfo'
  <2> HIDE DEF infos
  <2> QED
    BY <1>1, <1>2, <1>4 DEF CopiesInv, KnownHaveInfo, Known, HasInfo
<1> QED
  BY <1>1, <1>3, <1>4, <1>5 DEF CopiesInv, IsCopies

(* set_group_name leaves nothing that was sent to the old group.           *)
LEMMA SetGroupNameCopies ==
  ASSUME CopiesInv, SettingsType, NEW n \in Endpoints, NEW group,
         SetGroupName(n, group)
  PROVE  CopiesInv'
<1>1. \A k \in Endpoints \ {n} : group_name_hash'[k] = group_name_hash[k]
  BY DEF SettingsType, SetGroupName
<1> QED
  BY <1>1, ClearedStep
     DEF SetGroupName, DeregisterAllEndpoints, CopiesAfterDeregistration

(* A synchronization message is applied only if it was sent to the group   *)
(* the node is in now.                                                     *)
LEMMA HandleSynchronizationMessageCopies ==
  ASSUME CopiesInv, NEW p \in Packet, HandleSynchronizationMessage(p)
  PROVE  CopiesInv'
<1> DEFINE m == p.message
           n == m.dst
           copies == WithEndpoints(n, {m.src})
           copy == [version |-> p.version, group |-> p.group]
           updated == [copies EXCEPT ![m.src][m.name] = copy]
<1>1. n \in Endpoints /\ m.src \in Endpoints \ {n}
  BY DEF Packet, SentMessage, Message
<1>2. group_name_hash' = group_name_hash
  BY DEF HandleSynchronizationMessage
<1>3. CASE ~IsFromSameGroup(n, p)
  BY <1>2, <1>3, SameCopies DEF HandleSynchronizationMessage
<1>4. CASE IsFromSameGroup(n, p)
  <2>1. IsCopies(n, copies) /\ DOMAIN copies = Known(n) \cup {m.src}
    BY <1>1, WithEndpointsIsCopies
  <2>2. AddEndpoints(n, {m.src}, IF m.name \in Container THEN updated ELSE copies, {})
    BY <1>4, Zenon DEF HandleSynchronizationMessage
  <2>3. CASE m.name \in Container
    <3>1. copy \in Copy /\ copy.group = group_name_hash[n]
      BY <1>4 DEF Packet, Copy, IsFromSameGroup
    <3>2. DOMAIN updated = Known(n) \cup {m.src}
      BY <2>1
    <3>3. ASSUME NEW e \in DOMAIN updated
          PROVE  /\ updated[e] \in [Container -> Copy]
                 /\ \A name \in Container :
                      updated[e][name].group \in {NoGroup, group_name_hash[n]}
      <4>1. e \in DOMAIN copies /\ copies[e] \in [Container -> Copy]
        BY <2>1 DEF IsCopies
      <4>2. CASE e = m.src
        <5>1. updated[e] = [copies[e] EXCEPT ![m.name] = copy]
          BY <4>1, <4>2
        <5> QED
          BY <2>1, <2>3, <3>1, <4>1, <5>1 DEF IsCopies
      <4>3. CASE e # m.src
        <5>1. updated[e] = copies[e]
          BY <4>1, <4>3
        <5> QED
          BY <2>1, <4>1, <5>1 DEF IsCopies
      <4> QED
        BY <4>2, <4>3
    <3>4. IsCopies(n, updated)
      BY <2>1, <3>2, <3>3 DEF IsCopies
    <3> QED
      BY <1>1, <1>2, <2>2, <2>3, <3>2, <3>4, AddEndpointsStep
  <2>4. CASE m.name \notin Container
    BY <1>1, <1>2, <2>1, <2>2, <2>4, AddEndpointsStep
  <2> QED
    BY <2>3, <2>4
<1> QED
  BY <1>3, <1>4

--------------------------------------------------------------------------------
(* The messages. *)

LEMMA MessagesAreMessages ==
  ASSUME SettingsType, MessagesInv, NEW n \in Endpoints,
         NEW S \in SUBSET (Endpoints \ {n}), NEW names \in SUBSET Names
  PROVE  /\ SyncMessages(n, S, names) \subseteq SentMessage
         /\ Requests(n, S) \subseteq SentMessage
         /\ Deregistrations(n, S) \subseteq SentMessage
<1>1. sent[n] \in Nat
  BY DEF MessagesInv
<1>2. SyncMessages(n, S, names) \subseteq SentMessage
  BY <1>1 DEF SyncMessages, SentMessage, Message
<1>3. Requests(n, S) \subseteq SentMessage
  BY <1>1 DEF Requests, SentMessage, Message
<1>4. Deregistrations(n, S) \subseteq SentMessage
  BY <1>1 DEF Deregistrations, SentMessage, Message
<1> QED
  BY <1>2, <1>3, <1>4

LEMMA PacketsArePackets ==
  ASSUME SettingsType, NEW M \in SUBSET SentMessage
  PROVE  PacketsOf(M) \subseteq Packet
<1> SUFFICES ASSUME NEW m \in SentMessage
             PROVE  PacketOf(m) \in Packet
  BY DEF PacketsOf
<1>1. m.src \in Endpoints /\ (m.type = "sync" => m.name \in Names)
  BY DEF SentMessage, Message
<1>2. group_name_hash[m.src] \in Groups /\ 0 \in 0 .. MaxChanges
  BY <1>1, SynchronizerAssumption DEF SettingsType
<1>3. m.type = "sync" => version[m.src][m.name] \in 0 .. MaxChanges
  BY <1>1 DEF SettingsType
<1> QED
  BY <1>2, <1>3 DEF PacketOf, Packet
(* M replaces the cancelled messages: at most one message per object and   *)
(* endpoint is kept, and the ones it replaces are cancelled.               *)
LEMMA ReplacedMessages ==
  ASSUME MessagesInv,
         NEW cancelled \in SUBSET active_messages,
         NEW kept \in SUBSET SentMessage,
         \A m1, m2 \in kept :
           m1.type = "sync" /\ m2.type = "sync" /\ m1.src = m2.src
             /\ m1.dst = m2.dst /\ m1.name = m2.name => m1 = m2,
         \A m1 \in kept : \A m2 \in active_messages :
           m1.type = "sync" /\ m2.type = "sync" /\ m1.src = m2.src
             /\ m1.name = m2.name => m2 \in cancelled,
         active_messages' = (active_messages \ cancelled) \cup kept
  PROVE  /\ active_messages' \subseteq SentMessage
         /\ OneSyncPerName'
<1>1. active_messages' \subseteq SentMessage
  BY DEF MessagesInv
<1>2. ASSUME NEW m1 \in active_messages', NEW m2 \in active_messages',
             m1.type = "sync", m2.type = "sync", m1.src = m2.src,
             m1.dst = m2.dst, m1.name = m2.name
      PROVE  m1 = m2
  <2>1. CASE m1 \in kept /\ m2 \in kept
    BY <1>2, <2>1
  <2>2. CASE m1 \in kept /\ m2 \notin kept
    BY <1>2, <2>2
  <2>3. CASE m1 \notin kept /\ m2 \in kept
    BY <1>2, <2>3
  <2>4. CASE m1 \notin kept /\ m2 \notin kept
    BY <1>2, <2>4 DEF MessagesInv, OneSyncPerName
  <2> QED
    BY <2>1, <2>2, <2>3, <2>4
<1> QED
  BY <1>1, <1>2 DEF OneSyncPerName

LEMMA SentStep ==
  ASSUME SettingsType, MessagesInv, NEW n \in Endpoints,
         NEW cancelled \in SUBSET active_messages,
         NEW M \in SUBSET SentMessage, NEW kept \in SUBSET M,
         \A m1, m2 \in kept :
           m1.type = "sync" /\ m2.type = "sync" /\ m1.src = m2.src
             /\ m1.dst = m2.dst /\ m1.name = m2.name => m1 = m2,
         \A m1 \in kept : \A m2 \in active_messages :
           m1.type = "sync" /\ m2.type = "sync" /\ m1.src = m2.src
             /\ m1.name = m2.name => m2 \in cancelled,
         Sent(n, cancelled, M, kept)
  PROVE  MessagesInv'
<1>1. active_messages' \subseteq SentMessage /\ OneSyncPerName'
  BY ReplacedMessages DEF Sent
<1>2. PacketsOf(M) \subseteq Packet
  BY PacketsArePackets
<1>3. packets' \subseteq Packet
  BY <1>2 DEF Sent, MessagesInv
<1>4. arrived' \subseteq active_messages'
  BY DEF Sent, MessagesInv
<1>5. sent' \in [Endpoints -> Nat]
  BY DEF Sent, MessagesInv
<1>6. handled' \subseteq SentMessage
  BY DEF Sent, Remembered, MessagesInv
<1> QED
  BY <1>1, <1>3, <1>4, <1>5, <1>6 DEF MessagesInv, Packet, SentMessage, Message

(* Messages are acknowledged or given up. *)
LEMMA FewerMessages ==
  ASSUME MessagesInv, active_messages' \subseteq active_messages,
         arrived' \subseteq active_messages', handled' \subseteq SentMessage,
         packets' \subseteq Packet, UNCHANGED sent
  PROVE  MessagesInv'
BY DEF MessagesInv, OneSyncPerName, Packet, SentMessage, Message

LEMMA KnownAreOthers ==
  ASSUME CopiesInv, NEW n \in Endpoints
  PROVE  Known(n) \subseteq Endpoints \ {n}
BY DEF CopiesInv, IsCopies, Known

LEMMA SynchronizeMessages ==
  ASSUME SynchronizerInv, NEW n \in Endpoints, NEW name \in Objects[n],
         Synchronize(n, name)
  PROVE  MessagesInv'
<1> DEFINE M == SyncMessages(n, Known(n), {name})
<1>1. CopiesInv /\ SettingsType /\ MessagesInv /\ name \in Names
  BY SynchronizerAssumption DEF SynchronizerInv
<1>2. M \subseteq SentMessage
  BY <1>1, KnownAreOthers, MessagesAreMessages
<1>3. Related(n, {name}) \subseteq active_messages
  BY DEF Related
<1>4. \A m1, m2 \in M : m1.dst = m2.dst => m1 = m2
  BY DEF SyncMessages
<1>5. \A m1 \in M : \A m2 \in active_messages :
        m2.type = "sync" /\ m1.src = m2.src /\ m1.name = m2.name
          => m2 \in Related(n, {name})
  BY DEF SyncMessages, Related
<1>6. Sent(n, Related(n, {name}), M, M)
  BY DEF Synchronize, KeptBySynchronize
<1> QED
  BY <1>1, <1>2, <1>3, <1>4, <1>5, <1>6, SentStep

LEMMA DeregisterMessages ==
  ASSUME SynchronizerInv, NEW n \in Endpoints, DeregisterAllEndpoints(n)
  PROVE  MessagesInv'
<1> DEFINE M == Deregistrations(n, Known(n))
<1>1. CopiesInv /\ SettingsType /\ MessagesInv
  BY DEF SynchronizerInv
<1>2. M \subseteq SentMessage
  BY <1>1, KnownAreOthers, MessagesAreMessages
<1>3. \A m \in M : m.type # "sync"
  BY DEF Deregistrations
<1>4. Sent(n, {}, M, M)
  BY DEF DeregisterAllEndpoints
<1> QED
  BY <1>1, <1>2, <1>3, <1>4, SentStep

LEMMA CommitScanResultsMessages ==
  ASSUME SynchronizerInv, NEW n \in Endpoints,
         NEW answers \in SUBSET Advertisers(n), CommitScanResults(n, answers)
  PROVE  MessagesInv'
<1> DEFINE new == NewEndpoints(n, answers)
           own == own_synchronizables[n]
           M == SyncMessages(n, new, own) \cup Requests(n, new)
<1>1. CopiesInv /\ SettingsType /\ MessagesInv
  BY DEF SynchronizerInv
<1>2. new \subseteq Endpoints \ {n} /\ own \subseteq Names
  BY <1>1 DEF NewEndpoints, Advertisers, SettingsType
<1>3. CASE new = {}
  BY <1>1, <1>3, FewerMessages
     DEF CommitScanResults, message_vars, MessagesInv
<1>4. CASE new # {}
  <2>1. PICK last \in new :
          Sent(n, Related(n, own), M, SyncMessages(n, {last}, own) \cup Requests(n, new))
    BY <1>4 DEF CommitScanResults
  <2> DEFINE kept == SyncMessages(n, {last}, own) \cup Requests(n, new)
  <2>2. M \subseteq SentMessage
    BY <1>1, <1>2, MessagesAreMessages
  <2>3. kept \subseteq M
    BY DEF SyncMessages
  <2>4. Related(n, own) \subseteq active_messages
    BY DEF Related
  <2>5. \A m1, m2 \in kept :
          m1.type = "sync" /\ m2.type = "sync" /\ m1.name = m2.name => m1 = m2
    BY DEF SyncMessages, Requests
  <2>6. \A m1 \in kept : \A m2 \in active_messages :
          m1.type = "sync" /\ m2.type = "sync" /\ m1.src = m2.src
            /\ m1.name = m2.name => m2 \in Related(n, own)
    BY DEF SyncMessages, Requests, Related
  <2>7. Sent(n, Related(n, own), M, kept)
    BY <2>1
  <2> HIDE DEF kept, M
  <2> QED
    BY <1>1, <2>2, <2>3, <2>4, <2>5, <2>6, <2>7, SentStep
<1> QED
  BY <1>3, <1>4
LEMMA SendActiveMessagesMessages ==
  ASSUME SynchronizerInv, NEW n \in Endpoints, SendActiveMessages(n)
  PROVE  MessagesInv'
<1> DEFINE M == {m \in active_messages \ handled : m.src = n}
<1>1. SettingsType /\ MessagesInv /\ M \subseteq SentMessage
  BY DEF SynchronizerInv, MessagesInv
<1>2. PacketsOf(M) \subseteq Packet
  BY <1>1, PacketsArePackets
<1>3. packets' \subseteq Packet
  BY <1>1, <1>2 DEF SendActiveMessages, MessagesInv
<1> QED
  BY <1>1, <1>3, FewerMessages DEF SendActiveMessages, MessagesInv

LEMMA IgnoreMessages ==
  ASSUME SynchronizerInv, NEW p \in packets, Ignore(p)
  PROVE  MessagesInv'
BY FewerMessages
   DEF SynchronizerInv, MessagesInv, Ignore, PacketsAfter, Remembered, Packet

LEMMA AcceptedStep ==
  ASSUME SynchronizerInv, NEW p \in packets, HandleSynchronizationMessage(p)
  PROVE  MessagesInv'
BY FewerMessages
   DEF SynchronizerInv, MessagesInv, HandleSynchronizationMessage, PacketsAfter,
       Remembered, Packet

(* The answer to a request: the messages about the node's objects go to    *)
(* the endpoint that asked, and to nobody else any more.                   *)
LEMMA HandleRequestMessages ==
  ASSUME SynchronizerInv, NEW p \in packets, HandleRequest(p)
  PROVE  MessagesInv'
<1> DEFINE m == p.message
           n == m.dst
           own == own_synchronizables[n]
           cancelled == Related(n, own)
           M == SyncMessages(n, {m.src}, own)
<1>1. SettingsType /\ MessagesInv
  BY DEF SynchronizerInv
<1>2. n \in Endpoints /\ m.src \in Endpoints \ {n} /\ m \in SentMessage
  BY <1>1 DEF MessagesInv, Packet, SentMessage, Message
<1>3. own \subseteq Names
  BY <1>1, <1>2 DEF SettingsType
<1>4. M \subseteq SentMessage
  BY <1>1, <1>2, <1>3, MessagesAreMessages
<1>5. cancelled \subseteq active_messages
  BY DEF Related
<1>6. \A m1, m2 \in M :
        m1.type = "sync" /\ m2.type = "sync" /\ m1.src = m2.src
          /\ m1.dst = m2.dst /\ m1.name = m2.name => m1 = m2
  BY DEF SyncMessages
<1>7. \A m1 \in M : \A m2 \in active_messages :
        m1.type = "sync" /\ m2.type = "sync" /\ m1.src = m2.src
          /\ m1.name = m2.name => m2 \in cancelled
  BY DEF SyncMessages, Related
<1>8. /\ active_messages' = (active_messages \ cancelled) \cup M
      /\ arrived' = (arrived \ cancelled) \cup ({m} \cap active_messages)
      /\ packets' = PacketsAfter(p) \cup PacketsOf(M)
      /\ sent' = [sent EXCEPT ![n] = @ + 1]
  BY DEF HandleRequest, CancelledByInitialSync
<1>9. active_messages' \subseteq SentMessage /\ OneSyncPerName'
  <2> HIDE DEF M, cancelled
  <2> QED
    BY <1>1, <1>4, <1>5, <1>6, <1>7, <1>8, ReplacedMessages
<1>10. arrived' \subseteq active_messages'
  <2>1. m \notin cancelled
    BY DEF HandleRequest, Related
  <2> QED
    BY <1>1, <1>8, <2>1 DEF MessagesInv
<1>11. packets' \subseteq Packet
  <2>1. PacketsOf(M) \subseteq Packet
    BY <1>1, <1>4, PacketsArePackets
  <2>2. Packet' = Packet
    BY DEF Packet, SentMessage, Message
  <2> QED
    BY <1>1, <1>8, <2>1 DEF MessagesInv, PacketsAfter
<1>12. sent' \in [Endpoints -> Nat]
  BY <1>1, <1>2, <1>8 DEF MessagesInv
<1>13. handled' \subseteq SentMessage
  BY <1>1, <1>2 DEF HandleRequest, Remembered, MessagesInv
<1> QED
  BY <1>9, <1>10, <1>11, <1>12, <1>13
     DEF MessagesInv, Packet, SentMessage, Message

(* perform_initial_synchronization called by the application: the same     *)
(* messages, also to an endpoint that is not known.                        *)
LEMMA CallInitialSynchronizationMessages ==
  ASSUME SynchronizerInv, NEW n \in Endpoints, NEW e \in Endpoints \ {n},
         CallInitialSynchronization(n, e)
  PROVE  MessagesInv'
<1> DEFINE own == own_synchronizables[n]
           M == SyncMessages(n, {e}, own)
<1>1. SettingsType /\ MessagesInv /\ own \subseteq Names
  BY DEF SynchronizerInv, SettingsType
<1>2. M \subseteq SentMessage
  BY <1>1, MessagesAreMessages
<1>3. Related(n, own) \subseteq active_messages
  BY DEF Related
<1>4. \A m1, m2 \in M : m1.name = m2.name => m1 = m2
  BY DEF SyncMessages
<1>5. \A m1 \in M : \A m2 \in active_messages :
        m2.type = "sync" /\ m1.src = m2.src /\ m1.name = m2.name
          => m2 \in Related(n, own)
  BY DEF SyncMessages, Related
<1>6. Sent(n, Related(n, own), M, M)
  BY DEF CallInitialSynchronization, CallSend
<1> HIDE DEF M
<1> QED
  BY <1>1, <1>2, <1>3, <1>4, <1>5, <1>6, SentStep

LEMMA CallRequestMessages ==
  ASSUME SynchronizerInv, NEW n \in Endpoints, NEW e \in Endpoints \ {n},
         CallRequest(n, e)
  PROVE  MessagesInv'
<1> DEFINE M == Requests(n, {e})
<1>1. SettingsType /\ MessagesInv
  BY DEF SynchronizerInv
<1>2. M \subseteq SentMessage
  BY <1>1, MessagesAreMessages
<1>3. \A m \in M : m.type # "sync"
  BY DEF Requests
<1>4. Sent(n, {}, M, M)
  BY DEF CallRequest, CallSend
<1> HIDE DEF M
<1> QED
  BY <1>1, <1>2, <1>3, <1>4, SentStep

--------------------------------------------------------------------------------
(* The settings. *)

(* owed takes its values from version, or is set back to 0. *)
LEMMA SynchronizeSettings ==
  ASSUME SettingsType, NEW n \in Endpoints, NEW name \in Names,
         Synchronize(n, name)
  PROVE  SettingsType'
<1>1. own_synchronizables' \in [Endpoints -> SUBSET Names]
  BY DEF SettingsType, Synchronize
<1>2. owed' \in [Endpoints -> [Endpoints -> [Names -> 0 .. MaxChanges]]]
  <2> DEFINE row == [e \in Endpoints |->
                       IF e \in Known(n)
                         THEN [owed[n][e] EXCEPT ![name] = version[n][name]]
                         ELSE owed[n][e]]
  <2>1. version[n][name] \in 0 .. MaxChanges
    BY DEF SettingsType
  <2>2. ASSUME NEW e \in Endpoints
        PROVE  row[e] \in [Names -> 0 .. MaxChanges]
    BY <2>1 DEF SettingsType, HistoryType
  <2>3. row \in [Endpoints -> [Names -> 0 .. MaxChanges]]
    BY <2>2
  <2>4. owed' = [owed EXCEPT ![n] = row]
    BY DEF Synchronize, SettingsType, HistoryType
  <2> HIDE DEF row
  <2> QED
    BY <2>3, <2>4 DEF SettingsType, HistoryType
<1> QED
  BY <1>1, <1>2 DEF SettingsType, HistoryType, Synchronize, counts

LEMMA SetGroupNameStep ==
  ASSUME SynchronizerInv, NEW n \in Endpoints, NEW group \in Groups,
         SetGroupName(n, group)
  PROVE  SynchronizerInv'
<1>1. CopiesInv /\ SettingsType /\ DeregisterAllEndpoints(n)
  BY DEF SynchronizerInv, SetGroupName
<1>2. group_name_hash' \in [Endpoints -> Groups]
  BY <1>1 DEF SettingsType, SetGroupName
<1>3. SettingsType'
  BY <1>1, <1>2, ForgottenType
     DEF SetGroupName, DeregisterAllEndpoints, SettingsType, counts
<1> QED
  BY <1>1, <1>3, SetGroupNameCopies, DeregisterMessages DEF SynchronizerInv

(* The application's calls. *)
LEMMA CallSettings ==
  ASSUME SettingsType, Call, HistoryType'
  PROVE  SettingsType'
<1>1. calls' \in 0 .. MaxCalls
  BY SynchronizerAssumption DEF Call, SettingsType
<1> QED
  BY <1>1 DEF Call, SettingsType

LEMMA CallStep ==
  ASSUME SynchronizerInv, NEW n \in Endpoints, NEW e \in Endpoints \ {n},
         \/ CallAddEndpoint(n, e) \/ CallRemoveEndpoint(n, e)
         \/ CallSetEndpointInfo(n, e)
         \/ CallInitialSynchronization(n, e) \/ CallRequest(n, e)
  PROVE  SynchronizerInv'
<1>1. CopiesInv /\ SettingsType /\ MessagesInv
  BY DEF SynchronizerInv
<1>2. UNCHANGED history_vars => HistoryType'
  BY <1>1 DEF SettingsType, HistoryType, history_vars
<1>3. CASE CallAddEndpoint(n, e)
  <2>1. /\ Call
        /\ AddEndpoints(n, {e}, WithEndpoints(n, {e}), {})
        /\ UNCHANGED <<message_vars, history_vars>>
    BY <1>3 DEF CallAddEndpoint
  <2>2. UNCHANGED group_name_hash
    BY <2>1 DEF Call
  <2>3. CopiesInv'
    BY <1>1, <2>1, <2>2, WithEndpointsIsCopies, AddEndpointsStep
  <2>4. MessagesInv'
    BY <1>1, <2>1, FewerMessages DEF message_vars, MessagesInv
  <2> QED
    BY <1>1, <1>2, <2>1, <2>3, <2>4, CallSettings DEF SynchronizerInv
<1>4. CASE CallRemoveEndpoint(n, e)
  <2>1. Call /\ RemoveEndpoint(n, e) /\ UNCHANGED message_vars
    BY <1>4 DEF CallRemoveEndpoint
  <2>2. UNCHANGED group_name_hash
    BY <2>1 DEF Call
  <2>3. CopiesInv'
    BY <1>1, <2>1, <2>2, RemoveEndpointStep
  <2>4. MessagesInv'
    BY <1>1, <2>1, FewerMessages DEF message_vars, MessagesInv
  <2> QED
    BY <1>1, <2>1, <2>3, <2>4, ForgottenType, CallSettings
       DEF SynchronizerInv, SettingsType, RemoveEndpoint
<1>5. CASE CallSetEndpointInfo(n, e)
  <2>1. Call /\ UNCHANGED <<message_vars, history_vars>>
    BY <1>5 DEF CallSetEndpointInfo
  <2>2. MessagesInv'
    BY <1>1, <2>1, FewerMessages DEF message_vars, MessagesInv
  <2> QED
    BY <1>1, <1>2, <1>5, <2>1, <2>2, CallSetEndpointInfoCopies, CallSettings
       DEF SynchronizerInv
<1>6. CASE CallInitialSynchronization(n, e) \/ CallRequest(n, e)
  <2>1. Call /\ UNCHANGED <<copy_vars, history_vars>>
    BY <1>6 DEF CallInitialSynchronization, CallRequest, CallSend
  <2>2. UNCHANGED group_name_hash
    BY <2>1 DEF Call
  <2>3. CopiesInv'
    BY <1>1, <2>1, <2>2, SameCopies
  <2> QED
    BY <1>1, <1>2, <1>6, <2>1, <2>3, CallInitialSynchronizationMessages,
       CallRequestMessages, CallSettings DEF SynchronizerInv
<1> QED
  BY <1>3, <1>4, <1>5, <1>6

LEMMA CallDeregisterStep ==
  ASSUME SynchronizerInv, NEW n \in Endpoints, CallDeregisterAllEndpoints(n)
  PROVE  SynchronizerInv'
<1>1. CopiesInv /\ SettingsType /\ Call /\ DeregisterAllEndpoints(n)
  BY DEF SynchronizerInv, CallDeregisterAllEndpoints
<1>2. CopiesInv'
  BY <1>1, ClearedStep
     DEF Call, DeregisterAllEndpoints, CopiesAfterDeregistration
<1> QED
  BY <1>1, <1>2, ForgottenType, CallSettings, DeregisterMessages
     DEF SynchronizerInv, SettingsType, DeregisterAllEndpoints

(* A reboot leaves only what others keep and what is under way. *)
LEMMA RebootStep ==
  ASSUME SynchronizerInv, NEW n \in Endpoints, Reboot(n),
         arrived' \subseteq active_messages'
  PROVE  SynchronizerInv'
<1>1. CopiesInv /\ SettingsType /\ MessagesInv
  BY DEF SynchronizerInv
<1>2. CopiesInv'
  <2>1. \A k \in Endpoints \ {n} : group_name_hash'[k] = group_name_hash[k]
    BY <1>1 DEF SettingsType, Reboot
  <2> QED
    BY <1>1, <2>1, ClearedStep DEF Reboot
<1>3. MessagesInv'
  BY <1>1, FewerMessages DEF Reboot, Remembered, MessagesInv
<1>4. SettingsType'
  <2>1. /\ own_synchronizables' \in [Endpoints -> SUBSET Names]
        /\ group_name_hash' \in [Endpoints -> Groups]
        /\ scan' \in [Endpoints -> Groups \cup {NoScan}]
    BY <1>1, SynchronizerAssumption DEF Reboot, SettingsType
  <2>2. HistoryType'
    BY <1>1, ForgottenType DEF Reboot, SettingsType
  <2>3. /\ DOMAIN restarts' = Endpoints
        /\ \A k \in Endpoints : restarts'[k] \in 0 .. MaxRestarts[k]
    BY <1>1, SynchronizerAssumption DEF Reboot, SettingsType
  <2> QED
    BY <1>1, <2>1, <2>2, <2>3 DEF Reboot, SettingsType
<1> QED
  BY <1>2, <1>3, <1>4 DEF SynchronizerInv

LEMMA RestartStep ==
  ASSUME SynchronizerInv, NEW n \in Endpoints, Restart(n)
  PROVE  SynchronizerInv'
<1>1. arrived' \subseteq active_messages'
  BY DEF SynchronizerInv, MessagesInv, Restart, Reboot
<1> QED
  BY <1>1, RebootStep DEF Restart

LEMMA RestartWhileReceivingStep ==
  ASSUME SynchronizerInv, NEW p \in packets, RestartWhileReceiving(p)
  PROVE  SynchronizerInv'
<1>1. p.message.dst \in Endpoints
  BY DEF SynchronizerInv, MessagesInv, Packet, SentMessage, Message
<1>2. Reboot(p.message.dst)
  BY DEF RestartWhileReceiving
<1>3. arrived' \subseteq active_messages'
  BY <1>2 DEF SynchronizerInv, MessagesInv, RestartWhileReceiving, Reboot
<1> QED
  BY <1>1, <1>2, <1>3, RebootStep

LEMMA OnSendFailedStep ==
  ASSUME SynchronizerInv, NEW m \in active_messages, OnSendFailed(m)
  PROVE  SynchronizerInv'
<1>1. CopiesInv /\ SettingsType /\ MessagesInv
  BY DEF SynchronizerInv
<1>2. m.src \in Endpoints /\ m.dst \in Endpoints
  BY <1>1 DEF MessagesInv, SentMessage, Message
<1>3. MessagesInv'
  BY <1>1, FewerMessages DEF OnSendFailed, Remembered, MessagesInv
<1>4. UNCHANGED <<own_synchronizables, group_name_hash, scan, version, calls,
        restarts>>
  BY DEF OnSendFailed
<1>5. failures' \in 0 .. MaxFailures
  BY <1>1, SynchronizerAssumption DEF OnSendFailed, SettingsType
<1>6. CASE m.type = "sync"
  <2>1. RemoveEndpoint(m.src, m.dst)
    BY <1>6 DEF OnSendFailed
  <2>2. CopiesInv'
    BY <1>1, <1>2, <1>4, <2>1, RemoveEndpointStep
  <2>3. HistoryType'
    BY <1>1, <1>2, <2>1, ForgottenType DEF SettingsType, RemoveEndpoint
  <2> QED
    BY <1>1, <1>3, <1>4, <1>5, <2>2, <2>3 DEF SynchronizerInv, SettingsType
<1>7. CASE m.type # "sync"
  <2>1. UNCHANGED <<copy_vars, history_vars>>
    BY <1>7 DEF OnSendFailed
  <2>2. CopiesInv'
    BY <1>1, <1>4, <2>1, SameCopies
  <2> QED
    BY <1>1, <1>3, <1>4, <1>5, <2>1, <2>2
       DEF SynchronizerInv, SettingsType, HistoryType, history_vars
<1> QED
  BY <1>6, <1>7

LEMMA CommitScanResultsStep ==
  ASSUME SynchronizerInv, NEW n \in Endpoints,
         NEW answers \in SUBSET Advertisers(n), CommitScanResults(n, answers)
  PROVE  SynchronizerInv'
<1> DEFINE new == NewEndpoints(n, answers)
<1>1. CopiesInv /\ SettingsType
  BY DEF SynchronizerInv
<1>2. new \subseteq Endpoints \ {n}
  BY DEF NewEndpoints, Advertisers
<1>3. AddEndpoints(n, new, WithEndpoints(n, new), answers)
  BY DEF CommitScanResults
<1>4. UNCHANGED <<own_synchronizables, group_name_hash, version, counts, history_vars>>
  BY DEF CommitScanResults
<1>5. CopiesInv'
  BY <1>1, <1>2, <1>3, <1>4, WithEndpointsIsCopies, AddEndpointsStep
<1>6. SettingsType'
  BY <1>1, <1>4
     DEF CommitScanResults, SettingsType, HistoryType, counts, history_vars
<1> QED
  BY <1>5, <1>6, CommitScanResultsMessages DEF SynchronizerInv

--------------------------------------------------------------------------------
(* Every step. *)

(* What a copy has shown is a version that was sent. *)
LEMMA HandleSynchronizationMessageHistory ==
  ASSUME SettingsType, NEW p \in Packet, HandleSynchronizationMessage(p)
  PROVE  HistoryType'
<1> DEFINE m == p.message
           old == seen[m.dst][m.src][m.name]
           new == IF m.name \in Container /\ p.version > old THEN p.version ELSE old
<1>1. HistoryType /\ m.dst \in Endpoints /\ m.src \in Endpoints /\ m.name \in Names
      /\ p.version \in 0 .. MaxChanges
  BY DEF SettingsType, Packet, SentMessage, Message, HandleSynchronizationMessage
<1>2. owed' = owed
  BY DEF HandleSynchronizationMessage
<1>3. seen' = seen \/ seen' = [seen EXCEPT ![m.dst][m.src][m.name] = new]
  BY <1>1 DEF HandleSynchronizationMessage, HistoryType
<1>4. new \in 0 .. MaxChanges
  BY <1>1 DEF HistoryType
<1>5. seen' \in [Endpoints -> [Endpoints -> [Names -> 0 .. MaxChanges]]]
  <2> DEFINE row == [seen[m.dst][m.src] EXCEPT ![m.name] = new]
             rows == [seen[m.dst] EXCEPT ![m.src] = row]
  <2>1. row \in [Names -> 0 .. MaxChanges]
    <3> HIDE DEF new
    <3> QED
      BY <1>1, <1>4 DEF HistoryType
  <2>2. rows \in [Endpoints -> [Names -> 0 .. MaxChanges]]
    <3> HIDE DEF row
    <3> QED
      BY <1>1, <2>1 DEF HistoryType
  <2>3. seen' = seen \/ seen' = [seen EXCEPT ![m.dst] = rows]
    BY <1>3
  <2> HIDE DEF rows
  <2> QED
    BY <1>1, <2>2, <2>3 DEF HistoryType
<1> QED
  BY <1>1, <1>2, <1>5 DEF HistoryType

LEMMA OnMessageReceivedStep ==
  ASSUME SynchronizerInv, NEW p \in packets, OnMessageReceived(p)
  PROVE  SynchronizerInv'
<1>1. CopiesInv /\ SettingsType /\ p \in Packet
  BY DEF SynchronizerInv, MessagesInv
<1>2. CASE HandleSynchronizationMessage(p)
  <2>1. CopiesInv'
    BY <1>1, <1>2, HandleSynchronizationMessageCopies
  <2>2. SettingsType'
    BY <1>1, <1>2, HandleSynchronizationMessageHistory
       DEF HandleSynchronizationMessage, SettingsType, counts
  <2> QED
    BY <1>2, <2>1, <2>2, AcceptedStep DEF SynchronizerInv
<1>3. CASE HandleRequest(p)
  <2>1. CopiesInv'
    BY <1>1, <1>3, SameCopies DEF HandleRequest
  <2>2. SettingsType'
    BY <1>1, <1>3
       DEF HandleRequest, SettingsType, HistoryType, counts, history_vars
  <2> QED
    BY <1>3, <2>1, <2>2, HandleRequestMessages DEF SynchronizerInv
<1> QED
  BY <1>2, <1>3 DEF OnMessageReceived

LEMMA SynchronizerStep ==
  ASSUME SynchronizerInv, [Next]_vars
  PROVE  SynchronizerInv'
<1>1. CopiesInv /\ SettingsType /\ MessagesInv
  BY DEF SynchronizerInv
<1>2. ASSUME NEW n \in Endpoints, NEW name \in Objects[n], Change(n, name)
      PROVE  SynchronizerInv'
  <2>1. name \in Names
    BY SynchronizerAssumption
  <2>2. version' \in [Endpoints -> [Names -> 0 .. MaxChanges]]
    BY <1>1, <1>2, <2>1, SynchronizerAssumption DEF Change, SettingsType
  <2>3. CopiesInv' /\ MessagesInv'
    BY <1>1, <1>2, SameCopies, FewerMessages DEF Change, message_vars, MessagesInv
  <2> QED
    BY <1>1, <1>2, <2>2, <2>3
       DEF Change, SynchronizerInv, SettingsType, HistoryType, counts, history_vars
<1>3. ASSUME NEW n \in Endpoints, NEW name \in Objects[n], Synchronize(n, name)
      PROVE  SynchronizerInv'
  <2>1. name \in Names
    BY SynchronizerAssumption
  <2>2. CopiesInv'
    BY <1>1, <1>3, SameCopies DEF Synchronize
  <2> QED
    BY <1>1, <1>3, <2>1, <2>2, SynchronizeSettings, SynchronizeMessages
       DEF SynchronizerInv
<1>4. ASSUME NEW n \in Endpoints, NEW group \in GroupChoices[n],
             SetGroupName(n, group)
      PROVE  SynchronizerInv'
  <2>1. group \in Groups
    BY SynchronizerAssumption
  <2> QED
    BY <1>4, <2>1, SetGroupNameStep
<1>5. ASSUME NEW n \in Endpoints, StartScan(n)
      PROVE  SynchronizerInv'
  <2>1. CopiesInv' /\ MessagesInv'
    BY <1>1, <1>5, SameCopies, FewerMessages
       DEF StartScan, message_vars, MessagesInv
  <2> QED
    BY <1>1, <1>5, <2>1
       DEF StartScan, SynchronizerInv, SettingsType, HistoryType, counts, history_vars
<1>6. ASSUME NEW n \in Endpoints, SendActiveMessages(n)
      PROVE  SynchronizerInv'
  BY <1>1, <1>6, SameCopies, SendActiveMessagesMessages
     DEF SendActiveMessages, SynchronizerInv, SettingsType, HistoryType, counts,
         history_vars
<1>7. ASSUME NEW m \in active_messages, OnSendSucceeded(m)
      PROVE  SynchronizerInv'
  <2>1. CopiesInv' /\ MessagesInv'
    BY <1>1, <1>7, SameCopies, FewerMessages
       DEF OnSendSucceeded, Remembered, MessagesInv
  <2> QED
    BY <1>1, <1>7, <2>1
       DEF OnSendSucceeded, SynchronizerInv, SettingsType, HistoryType, counts, history_vars
<1>8. ASSUME NEW p \in packets, Lose(p)
      PROVE  SynchronizerInv'
  <2>1. CopiesInv' /\ MessagesInv'
    BY <1>1, <1>8, SameCopies, FewerMessages DEF Lose, Remembered, MessagesInv
  <2> QED
    BY <1>1, <1>8, <2>1
       DEF Lose, SynchronizerInv, SettingsType, HistoryType, counts, history_vars
<1>9. CASE UNCHANGED vars
  <2>1. CopiesInv' /\ MessagesInv'
    BY <1>1, <1>9, SameCopies, FewerMessages DEF vars, message_vars, MessagesInv
  <2> QED
    BY <1>1, <1>9, <2>1
       DEF vars, SynchronizerInv, SettingsType, HistoryType, counts, history_vars
<1>10. ASSUME NEW p \in packets, Ignore(p)
       PROVE  SynchronizerInv'
  <2>1. CopiesInv' /\ MessagesInv'
    BY <1>1, <1>10, SameCopies, IgnoreMessages DEF Ignore
  <2> QED
    BY <1>1, <1>10, <2>1
       DEF Ignore, SynchronizerInv, SettingsType, HistoryType, counts, history_vars
<1> QED
  BY <1>2, <1>3, <1>4, <1>5, <1>6, <1>7, <1>8, <1>9, <1>10,
     CommitScanResultsStep, OnSendFailedStep, OnMessageReceivedStep, CallStep,
     CallDeregisterStep, RestartStep, RestartWhileReceivingStep DEF Next, NodeStep

LEMMA SynchronizerInvariant == Spec => []SynchronizerInv
BY InitSynchronizer, SynchronizerStep, PTL DEF Spec

(* Every copy, message and packet is of the form the code gives it, and    *)
(* no node ever keeps copies of itself.                                    *)
THEOREM TypeCorrect == Spec => []TypeOK
BY SynchronizerInvariant, InvImplies, PTL

(* The copies and the infos of the endpoints stay together, through every  *)
(* interleaving of scans, messages, failures and changes of the group.     *)
THEOREM MapsStayTogether == Spec => []KnownHaveInfo
BY SynchronizerInvariant, InvImplies, PTL

(* Changing the group leaves no data of the old one behind, and none gets  *)
(* in later, however long its packets were under way.                      *)
THEOREM NoForeignData == Spec => []OwnGroupDataOnly
BY SynchronizerInvariant, InvImplies, PTL

(* No sequence of updates, requests, scans and failures leaves two         *)
(* messages repeating the same object to the same endpoint.                *)
THEOREM OneMessagePerObject == Spec => []OneSyncPerName
BY SynchronizerInvariant, InvImplies, PTL
================================================================================
