------------------------------ MODULE Synchronizer ------------------------------
(***************************************************************************)
(* The Synchronizers of a set of nodes: each keeps a copy of the           *)
(* synchronizable objects of every endpoint it knows, sends its own        *)
(* objects to them, and finds endpoints by scanning for its group.         *)
(*                                                                         *)
(* Messages are exchanged as Transport promises: delivered at most once,   *)
(* at any time after they were sent, even after the sender has given up.   *)
(* What a message says is read when it is put on the wire, again for each  *)
(* repetition.  Of a group only the CRC-32 of its name is ever used, here  *)
(* and in the name of the mDNS service.  A node has been set up (create,   *)
(* set_group_name, set_delegate, the interfaces, init) from the start, and *)
(* again after a reboot.                                                   *)
(***************************************************************************)
EXTENDS Integers

CONSTANTS
  Endpoints,
  Groups,            \* hashes of group names
  GroupChoices,      \* those each node's application calls set_group_name with
  InitialGroup,      \* the group a node had when init advertised its service
  Names,             \* names of synchronizables
  Objects,           \* those each node's application has
  Container,         \* those in create_initial_synchronizables_container
  Lossy,             \* whether packets are lost, and not only very late
  MaxChanges,        \* bound on the changes of each object
  MaxSends,          \* bound on the steps in which the application sends
  MaxFailures,       \* bound on on_send_failed
  MaxCalls,          \* bound on the application's calls about endpoints
  MaxRestarts        \* bounds on the reboots of each node

ASSUME SynchronizerAssumption ==
  /\ InitialGroup \in [Endpoints -> Groups]
  /\ GroupChoices \in [Endpoints -> SUBSET Groups]
  /\ Objects \in [Endpoints -> SUBSET Names]
  /\ Container \subseteq Names
  /\ Lossy \in BOOLEAN
  /\ {MaxChanges, MaxSends, MaxFailures, MaxCalls} \subseteq Nat
  /\ MaxRestarts \in [Endpoints -> Nat]

VARIABLES
  endpoint_to_synchronizables,  \* known endpoints -> names -> the copy
  endpoint_to_endpoint_info,    \* endpoints -> whether the info is empty
  own_synchronizables,          \* names passed to synchronize so far
  group_name_hash,
  (* the MDNSHandler *)
  scan,                         \* the group a query is installed for
  (* the application's objects *)
  version,                      \* how often each was changed
  (* the NetworkHandlers and the network between them *)
  active_messages,
  arrived,                      \* active messages whose receiver has seen them
  handled,                      \* messages their receiver remembers
  packets,                      \* packets that may still be accepted
  sent,                         \* numbers the steps in which a node may send
  failures, calls, restarts,
  (* history *)
  owed,                         \* the version synchronize sent to an endpoint
  seen                          \* the newest version the copy there has shown,
                                \* both since one of the two forgot the other

copy_vars == <<endpoint_to_synchronizables, endpoint_to_endpoint_info>>
message_vars == <<active_messages, arrived, handled, packets, sent>>
counts == <<failures, calls, restarts>>
history_vars == <<owed, seen>>
vars == <<copy_vars, own_synchronizables, group_name_hash, scan, version,
          message_vars, counts, history_vars>>

NoScan == "no scan"
NoName == "no name"
NoGroup == "no group"

Message ==
  [type : {"sync", "req_init_sync", "dereg"}, src : Endpoints, dst : Endpoints,
   name : Names \cup {NoName}, number : Nat]
Copy == [version : 0 .. MaxChanges, group : Groups \cup {NoGroup}]

InitialCopies == [name \in Container |-> [version |-> 0, group |-> NoGroup]]
NoCopies == [e \in {} |-> InitialCopies]
Known(n) == DOMAIN endpoint_to_synchronizables[n]
Info == {"empty", "given"}
NoInfos == [e \in {} |-> "empty"]
HasInfo(n) == DOMAIN endpoint_to_endpoint_info[n]
Nothing == [name \in Names |-> 0]

Init ==
  /\ endpoint_to_synchronizables = [n \in Endpoints |-> NoCopies]
  /\ endpoint_to_endpoint_info = [n \in Endpoints |-> NoInfos]
  /\ own_synchronizables = [n \in Endpoints |-> {}]
  /\ group_name_hash = InitialGroup
  /\ scan = [n \in Endpoints |-> NoScan]
  /\ version = [n \in Endpoints |-> [name \in Names |-> 0]]
  /\ active_messages = {}
  /\ arrived = {}
  /\ handled = {}
  /\ packets = {}
  /\ sent = [n \in Endpoints |-> 0]
  /\ failures = 0
  /\ calls = 0
  /\ restarts = [n \in Endpoints |-> 0]
  /\ owed = [n \in Endpoints |-> [e \in Endpoints |-> Nothing]]
  /\ seen = [n \in Endpoints |-> [e \in Endpoints |-> Nothing]]

--------------------------------------------------------------------------------
(* Messages. *)

SyncMessages(n, S, names) ==
  [type : {"sync"}, src : {n}, dst : S, name : names, number : {sent[n]}]
Requests(n, S) ==
  [type : {"req_init_sync"}, src : {n}, dst : S, name : {NoName},
   number : {sent[n]}]
Deregistrations(n, S) ==
  [type : {"dereg"}, src : {n}, dst : S, name : {NoName}, number : {sent[n]}]

(* to_data_object: the group and the value at the time of a transmission.  *)
PacketOf(m) ==
  [message |-> m,
   group |-> IF m.type = "sync" THEN group_name_hash[m.src] ELSE NoGroup,
   version |-> IF m.type = "sync" THEN version[m.src][m.name] ELSE 0]

(* handle_decoded_message of the NetworkHandler drops "dereg" packets.     *)
PacketsOf(M) == {PacketOf(m) : m \in {x \in M : x.type # "dereg"}}

(* A receiver remembers the messages in M.  Those matter that may come     *)
(* again, because they are repeated or under way.                          *)
Remembered(M) ==
  handled' = {m \in M : m \in active_messages' \/ \E p \in packets' : p.message = m}

(* Sent(n, cancelled, M, kept): n cancels messages, then sends M, of which *)
(* it has cancelled all but those in kept by the end of the step.          *)
Sent(n, cancelled, M, kept) ==
  /\ active_messages' = (active_messages \ cancelled) \cup kept
  /\ arrived' = arrived \ cancelled
  /\ packets' = packets \cup PacketsOf(M)
  /\ Remembered(handled)
  /\ sent' = [sent EXCEPT ![n] = @ + 1]

(* is_message_related_to_synchronizable, the filter of the cancellations:  *)
(* it does not look at the endpoint.                                       *)
Related(n, names) ==
  {m \in active_messages : m.src = n /\ m.type = "sync" /\ m.name \in names}

(* n forgets the endpoints in S.                                           *)
Forgotten(n, S) ==
  /\ owed' = [k \in Endpoints |->
       [e \in Endpoints |->
          IF (k = n /\ e \in S) \/ (e = n /\ k \in S) THEN Nothing ELSE owed[k][e]]]
  /\ seen' = [seen EXCEPT
       ![n] = [e \in Endpoints |-> IF e \in S THEN Nothing ELSE @[e]]]

--------------------------------------------------------------------------------
(* The application. *)

(* It changes one of its objects; this alone sends nothing. *)
Change(n, name) ==
  /\ version[n][name] < MaxChanges
  /\ version' = [version EXCEPT ![n][name] = @ + 1]
  /\ UNCHANGED <<copy_vars, own_synchronizables, group_name_hash, scan,
       message_vars, counts, history_vars>>

KeepsNothing(M) == {}                                               \* mutant
KeptBySynchronize(M) == M

Synchronize(n, name) ==
  LET M == SyncMessages(n, Known(n), {name}) IN
  /\ sent[n] < MaxSends
  /\ Sent(n, Related(n, {name}), M, KeptBySynchronize(M))
  /\ own_synchronizables' = [own_synchronizables EXCEPT ![n] = @ \cup {name}]
  /\ owed' = [owed EXCEPT ![n] =
       [e \in Endpoints |->
          IF e \in Known(n) THEN [@[e] EXCEPT ![name] = version[n][name]]
                            ELSE @[e]]]
  /\ UNCHANGED <<copy_vars, group_name_hash, scan, version, counts, seen>>

(* deregister_all_endpoints clears the copies but not the infos.           *)
KeepsCopies(n) == endpoint_to_synchronizables[n]                    \* mutant
CopiesAfterDeregistration(n) == NoCopies

DeregisterAllEndpoints(n) ==
  LET M == Deregistrations(n, Known(n)) IN
  /\ sent[n] < MaxSends
  /\ Sent(n, {}, M, M)
  /\ endpoint_to_synchronizables' =
       [endpoint_to_synchronizables EXCEPT ![n] = CopiesAfterDeregistration(n)]
  /\ Forgotten(n, Endpoints)
  /\ UNCHANGED <<endpoint_to_endpoint_info, own_synchronizables, scan, version>>

(* set_group_name with another hash. *)
SetGroupName(n, group) ==
  /\ group # group_name_hash[n]
  /\ group_name_hash' = [group_name_hash EXCEPT ![n] = group]
  /\ DeregisterAllEndpoints(n)
  /\ UNCHANGED counts

--------------------------------------------------------------------------------
(* Endpoints. *)

(* add_endpoint for the endpoints in S, and the copies afterwards. *)
WithEndpoints(n, S) ==
  [e \in Known(n) \cup S |->
     IF e \in Known(n) THEN endpoint_to_synchronizables[n][e]
                       ELSE InitialCopies]

(* ... and the infos.  An info is set for every answer of a scan, also if  *)
(* its endpoint was known before.                                          *)
InformedIfNew(n, answers) == answers \ Known(n)                     \* mutant
Informed(n, answers) == answers

AddEndpoints(n, S, copies, answers) ==
  LET new == S \ Known(n) IN
  /\ endpoint_to_synchronizables' =
       [endpoint_to_synchronizables EXCEPT ![n] = copies]
  /\ endpoint_to_endpoint_info' =
       [endpoint_to_endpoint_info EXCEPT ![n] =
          [e \in HasInfo(n) \cup new |->
             IF e \in Informed(n, answers) THEN "given"
             ELSE IF e \in new THEN "empty" ELSE @[e]]]

(* remove_endpoint *)
KeepsTheCopies(n, e) == Known(n)                                    \* mutant
KnownAfterRemoval(n, e) == Known(n) \ {e}

RemoveEndpoint(n, e) ==
  /\ endpoint_to_synchronizables' =
       [endpoint_to_synchronizables EXCEPT
          ![n] = [x \in KnownAfterRemoval(n, e) |-> @[x]]]
  /\ endpoint_to_endpoint_info' =
       [endpoint_to_endpoint_info EXCEPT ![n] = [x \in HasInfo(n) \ {e} |-> @[x]]]
  /\ Forgotten(n, {e})

(* The application's own calls, never about the node's own endpoint.  Of   *)
(* set_endpoint_info it matters whether there is an info to replace.       *)
Call ==
  /\ calls < MaxCalls
  /\ calls' = calls + 1
  /\ UNCHANGED <<own_synchronizables, group_name_hash, scan, version, failures,
       restarts>>

CallAddEndpoint(n, e) ==
  /\ Call
  /\ AddEndpoints(n, {e}, WithEndpoints(n, {e}), {})
  /\ UNCHANGED <<message_vars, history_vars>>

CallRemoveEndpoint(n, e) ==
  /\ Call
  /\ RemoveEndpoint(n, e)
  /\ UNCHANGED message_vars

CallSetEndpointInfo(n, e) ==
  /\ Call
  /\ e \in HasInfo(n)
  /\ endpoint_to_endpoint_info' =
       [endpoint_to_endpoint_info EXCEPT ![n][e] = "given"]
  /\ UNCHANGED <<endpoint_to_synchronizables, message_vars, history_vars>>

CallDeregisterAllEndpoints(n) == Call /\ DeregisterAllEndpoints(n)

(* perform_initial_synchronization, and                                    *)
(* request_initial_synchronization_from_endpoint                           *)
CallSend(n, cancelled, M) ==
  /\ Call
  /\ sent[n] < MaxSends
  /\ Sent(n, cancelled, M, M)
  /\ UNCHANGED <<copy_vars, history_vars>>

CallInitialSynchronization(n, e) ==
  CallSend(n, Related(n, own_synchronizables[n]),
           SyncMessages(n, {e}, own_synchronizables[n]))

CallRequest(n, e) == CallSend(n, {}, Requests(n, {e}))

--------------------------------------------------------------------------------
(* Scanning. *)

StartScan(n) ==
  /\ scan[n] = NoScan
  /\ scan' = [scan EXCEPT ![n] = group_name_hash[n]]
  /\ UNCHANGED <<copy_vars, own_synchronizables, group_name_hash, version,
       message_vars, counts, history_vars>>

(* Who answers: set_group_name does not advertise the new group, so a node *)
(* answers for the group it had when it was initialised.                   *)
FindsItself(n) == {e \in Endpoints : InitialGroup[e] = scan[n]}      \* mutant
Advertisers(n) == {e \in Endpoints \ {n} : InitialGroup[e] = scan[n]}

(* The answers of endpoints that are not known yet. *)
WithoutInfo(n, answers) == answers \ HasInfo(n)                     \* mutant
NewEndpoints(n, answers) == answers \ Known(n)

(* commit_scan_results and stop_scan.  For one new endpoint after the      *)
(* other, perform_initial_synchronization cancels the synchronization      *)
(* messages of all endpoints and sends new ones to this endpoint, so that  *)
(* only those to the last one stay active; and it is asked for its data.   *)
CommitScanResults(n, answers) ==
  LET new == NewEndpoints(n, answers)
      own == own_synchronizables[n]
  IN
  /\ scan[n] # NoScan
  /\ scan' = [scan EXCEPT ![n] = NoScan]
  /\ AddEndpoints(n, new, WithEndpoints(n, new), answers)
  /\ IF new = {}
       THEN UNCHANGED message_vars
       ELSE \E last \in new :
              Sent(n, Related(n, own),
                   SyncMessages(n, new, own) \cup Requests(n, new),
                   SyncMessages(n, {last}, own) \cup Requests(n, new))
  /\ UNCHANGED <<own_synchronizables, group_name_hash, version, counts, history_vars>>

--------------------------------------------------------------------------------
(* The NetworkHandlers. *)

(* on_100_ms_passed: every active message is sent again. *)
SendActiveMessages(n) ==
  /\ packets' =
       packets \cup PacketsOf({m \in active_messages \ handled : m.src = n})
  /\ UNCHANGED <<copy_vars, own_synchronizables, group_name_hash, scan, version,
       active_messages, arrived, handled, sent, counts, history_vars>>

(* After a reboot a node numbers its messages from 0 again: a message may  *)
(* be mistaken for one of its earlier life, which the receiver handled and *)
(* of which an acknowledgement may still be under way.                     *)
TakesAnyId(m) == TRUE                                               \* mutant
Mistakable(m) == restarts[m.src] > 0

OnSendSucceeded(m) ==
  /\ m \in arrived \/ Mistakable(m)
  /\ active_messages' = active_messages \ {m}
  /\ arrived' = arrived \ {m}
  /\ UNCHANGED packets
  /\ Remembered(handled)
  /\ UNCHANGED <<copy_vars, own_synchronizables, group_name_hash, scan, version,
       sent, counts, history_vars>>

(* Only a SynchronizationMessage cares; its endpoint is removed whether or *)
(* not the message has arrived.                                            *)
OnSendFailed(m) ==
  /\ failures < MaxFailures
  /\ failures' = failures + 1
  /\ active_messages' = active_messages \ {m}
  /\ arrived' = arrived \ {m}
  /\ UNCHANGED packets
  /\ Remembered(handled)
  /\ IF m.type = "sync" THEN RemoveEndpoint(m.src, m.dst)
                        ELSE UNCHANGED <<copy_vars, history_vars>>
  /\ UNCHANGED <<own_synchronizables, group_name_hash, scan, version, sent, calls,
       restarts>>

(* What is left of the packets once p is accepted: other packets of the    *)
(* same message matter only if the receiver may forget it.                 *)
RecordsNoId(p) ==                                                   \* mutant
  {q \in packets : q.message.src # p.message.src \/ q.message.dst # p.message.dst}
PacketsAfter(p) ==
  {q \in packets :
     q.message # p.message \/ restarts[q.message.dst] < MaxRestarts[q.message.dst]}

(* on_message_received for a "sync" message: handle_synchronization_message. *)
AnyGroup(n, p) == TRUE                                              \* mutant
IsFromSameGroup(n, p) == p.group = group_name_hash[n]

HandleSynchronizationMessage(p) ==
  LET m == p.message
      n == m.dst
      copies == WithEndpoints(n, {m.src})
  IN
  /\ m.type = "sync"
  /\ m \notin handled
  /\ IF ~IsFromSameGroup(n, p)
       THEN UNCHANGED <<copy_vars, seen>>
       ELSE /\ AddEndpoints(n, {m.src},
                 IF m.name \in Container
                   THEN [copies EXCEPT ![m.src][m.name] =
                           [version |-> p.version, group |-> p.group]]
                   ELSE copies,
                 {})
            /\ seen' = [seen EXCEPT ![n][m.src][m.name] =
                          IF m.name \in Container /\ p.version > @
                            THEN p.version ELSE @]
  /\ packets' = PacketsAfter(p)
  /\ arrived' = arrived \cup ({m} \cap active_messages)
  /\ UNCHANGED active_messages
  /\ Remembered(handled \cup {m})
  /\ UNCHANGED <<own_synchronizables, group_name_hash, scan, version, sent, counts,
       owed>>

(* on_message_received for a "req_init_sync" message:                      *)
(* perform_initial_synchronization, whether or not the endpoint is known.  *)
NothingCancelled(n, names) == {}                                    \* mutant
CancelledByInitialSync(n, names) == Related(n, names)

HandleRequest(p) ==
  LET m == p.message
      n == m.dst
      own == own_synchronizables[n]
      cancelled == CancelledByInitialSync(n, own)
      M == SyncMessages(n, {m.src}, own)
  IN
  /\ m.type = "req_init_sync"
  /\ m \notin handled
  /\ packets' = PacketsAfter(p) \cup PacketsOf(M)
  /\ active_messages' = (active_messages \ cancelled) \cup M
  /\ arrived' = (arrived \ cancelled) \cup ({m} \cap active_messages)
  /\ Remembered(handled \cup {m})
  /\ sent' = [sent EXCEPT ![n] = @ + 1]
  /\ UNCHANGED <<copy_vars, own_synchronizables, group_name_hash, scan, version,
       counts, history_vars>>

OnMessageReceived(p) == HandleSynchronizationMessage(p) \/ HandleRequest(p)

(* The NetworkHandler acknowledges it, and takes it for handled. *)
Ignore(p) ==
  /\ Mistakable(p.message)
  /\ packets' = PacketsAfter(p)
  /\ arrived' = arrived \cup ({p.message} \cap active_messages)
  /\ UNCHANGED active_messages
  /\ Remembered(handled \cup {p.message})
  /\ UNCHANGED <<copy_vars, own_synchronizables, group_name_hash, scan, version,
       sent, counts, history_vars>>

(* The network loses a packet.  (Without this action a packet may still    *)
(* never arrive, but then it can arrive until the end of time.)            *)
Lose(p) ==
  /\ Lossy
  /\ packets' = packets \ {p}
  /\ UNCHANGED <<active_messages, arrived, sent>>
  /\ Remembered(handled)
  /\ UNCHANGED <<copy_vars, own_synchronizables, group_name_hash, scan, version,
       counts, history_vars>>

(* A node reboots and is set up as at first.  What it had in memory is     *)
(* gone; its application still has its objects, and packets stay under way.*)
Reboot(n) ==
  /\ restarts[n] < MaxRestarts[n]
  /\ restarts' = [restarts EXCEPT ![n] = @ + 1]
  /\ endpoint_to_synchronizables' =
       [endpoint_to_synchronizables EXCEPT ![n] = NoCopies]
  /\ endpoint_to_endpoint_info' = [endpoint_to_endpoint_info EXCEPT ![n] = NoInfos]
  /\ own_synchronizables' = [own_synchronizables EXCEPT ![n] = {}]
  /\ group_name_hash' = [group_name_hash EXCEPT ![n] = InitialGroup[n]]
  /\ scan' = [scan EXCEPT ![n] = NoScan]
  /\ active_messages' = {m \in active_messages : m.src # n}
  /\ UNCHANGED packets
  /\ Remembered({m \in handled : m.dst # n})
  /\ Forgotten(n, Endpoints)
  /\ UNCHANGED <<version, sent, failures, calls>>

Restart(n) == Reboot(n) /\ arrived' = {m \in arrived : m.src # n}

(* ... or it does so while it receives a message, after the NetworkHandler *)
(* acknowledged it and before on_message_received.                         *)
RestartWhileReceiving(p) ==
  LET m == p.message IN
  /\ m \notin handled
  /\ Reboot(m.dst)
  /\ arrived' =
       {x \in arrived \cup ({m} \cap active_messages) : x.src # m.dst}

(* The steps of a node's application and of its own main loop.             *)
NodeStep(n) ==
  \/ \E name \in Objects[n] : Change(n, name) \/ Synchronize(n, name)
  \/ \E group \in GroupChoices[n] : SetGroupName(n, group)
  \/ StartScan(n)
  \/ \E answers \in SUBSET Advertisers(n) : CommitScanResults(n, answers)
  \/ SendActiveMessages(n)
  \/ \E e \in Endpoints \ {n} :
       \/ CallAddEndpoint(n, e) \/ CallRemoveEndpoint(n, e)
       \/ CallSetEndpointInfo(n, e)
       \/ CallInitialSynchronization(n, e) \/ CallRequest(n, e)
  \/ CallDeregisterAllEndpoints(n)

Next ==
  \/ \E n \in Endpoints : NodeStep(n) \/ Restart(n)
  \/ \E m \in active_messages : OnSendSucceeded(m) \/ OnSendFailed(m)
  \/ \E p \in packets : OnMessageReceived(p) \/ Ignore(p) \/ Lose(p)
                       \/ RestartWhileReceiving(p)

Spec == Init /\ [][Next]_vars

(* The main loop ticks for ever, so that scans follow each other and       *)
(* messages are repeated; neither the answers to a query nor the packets   *)
(* of one kind between two nodes are lost every time.                      *)
Received(type, src, dst) ==
  \E p \in packets :
    /\ p.message.type = type /\ p.message.src = src /\ p.message.dst = dst
    /\ OnMessageReceived(p)

Scanning ==
  \A n \in Endpoints : /\ WF_vars(StartScan(n))
                       /\ SF_vars(CommitScanResults(n, Advertisers(n)))
Transmission ==
  /\ \A n \in Endpoints : WF_vars(SendActiveMessages(n))
  /\ \A n \in Endpoints : \A e \in Endpoints \ {n} :
       SF_vars(Received("sync", n, e)) /\ SF_vars(Received("req_init_sync", n, e))

ScanningSpec == Spec /\ Scanning
TransmissionSpec == Spec /\ Transmission
FairSpec == ScanningSpec /\ Transmission
--------------------------------------------------------------------------------
(* Properties. *)

(* No node knows itself, or has more copies than its container.            *)
TypeOK ==
  /\ \A n \in Endpoints :
       /\ Known(n) \subseteq Endpoints \ {n}
       /\ endpoint_to_synchronizables[n] \in [Known(n) -> [Container -> Copy]]
  /\ \A n \in Endpoints :
       /\ HasInfo(n) \subseteq Endpoints \ {n}
       /\ endpoint_to_endpoint_info[n] \in [HasInfo(n) -> Info]
  /\ own_synchronizables \in [Endpoints -> SUBSET Names]
  /\ group_name_hash \in [Endpoints -> Groups]
  /\ scan \in [Endpoints -> Groups \cup {NoScan}]
  /\ version \in [Endpoints -> [Names -> 0 .. MaxChanges]]
  /\ active_messages \subseteq Message
  /\ arrived \subseteq active_messages
  /\ handled \subseteq Message
  /\ \A p \in packets : /\ p.message \in Message
                        /\ p.group \in Groups \cup {NoGroup}
                        /\ p.version \in 0 .. MaxChanges
  /\ sent \in [Endpoints -> Nat]
  /\ failures \in 0 .. MaxFailures
  /\ calls \in 0 .. MaxCalls
  /\ \A n \in Endpoints : restarts[n] \in 0 .. MaxRestarts[n]
  /\ owed \in [Endpoints -> [Endpoints -> [Names -> 0 .. MaxChanges]]]
  /\ seen \in [Endpoints -> [Endpoints -> [Names -> 0 .. MaxChanges]]]

(* The two maps are kept together: a known endpoint has an info, so that   *)
(* set_endpoint_info of a scan's answer never fails.                       *)
KnownHaveInfo ==
  \A n \in Endpoints : Known(n) \subseteq HasInfo(n)

(* A node holds no data that was sent to another group than its own, also  *)
(* when nodes change their groups while messages are repeated, delayed and *)
(* read the sender's group again for each repetition.                      *)
OwnGroupDataOnly ==
  \A n \in Endpoints : \A e \in Known(n) : \A name \in Container :
    endpoint_to_synchronizables[n][e][name].group
      \in {NoGroup, group_name_hash[n]}

(* However updates, requests and scans interleave, at most one message     *)
(* repeats an object to an endpoint: the active messages are bounded by    *)
(* what there is to synchronize.                                           *)
OneSyncPerName ==
  \A m1, m2 \in active_messages :
    m1.type = "sync" /\ m2.type = "sync" /\ m1.src = m2.src
      /\ m1.dst = m2.dst /\ m1.name = m2.name => m1 = m2

(* The copy that e keeps of the object of n has shown version v.           *)
HasShown(e, n, name, v) == n \in Known(e) /\ seen[e][n][name] >= v

(* An update synchronized to an endpoint of the same group is not dropped  *)
(* on the way, however messages are cancelled, lost and reordered: until   *)
(* one of the two forgets the other, the endpoint has had it, or a message *)
(* that will be repeated with this version or a later one is yet to be     *)
(* handled there.  (Not so between three nodes, nor for a node that        *)
(* rebooted, whose messages may be mistaken for earlier ones.)             *)
NoUpdateDropped ==
  \A n, e \in Endpoints : \A name \in Container :
    /\ owed[n][e][name] > 0
    /\ restarts[n] = 0
    /\ group_name_hash[n] = group_name_hash[e]
    => \/ HasShown(e, n, name, owed[n][e][name])
       \/ \E m \in active_messages \ handled :
            m.type = "sync" /\ m.src = n /\ m.dst = e /\ m.name = name

(* The endpoint has had it in the end, unless one forgets the other.       *)
UpdatesAreSeen ==
  \A n, e \in Endpoints : \A name \in Objects[n] \cap Container :
  \A v \in 1 .. MaxChanges :
    (owed[n][e][name] >= v /\ restarts[n] = 0)
      ~> \/ owed[n][e][name] < v
         \/ HasShown(e, n, name, v)
         \/ group_name_hash[n] # group_name_hash[e]

(* A node finds the endpoints that answer for its group, and learns about  *)
(* them what they announce: also those it removed because a message to     *)
(* them failed, those it knew from their messages, and all of them after a *)
(* reboot.                                                                 *)
EveryoneIsFound ==
  \A n \in Endpoints : \A e \in Endpoints \ {n} :
    (group_name_hash[n] = InitialGroup[e])
      ~> \/ e \in Known(n) /\ endpoint_to_endpoint_info[n][e] = "given"
         \/ group_name_hash[n] # InitialGroup[e]
================================================================================
