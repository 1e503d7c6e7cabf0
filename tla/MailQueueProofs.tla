--------------------------- MODULE MailQueueProofs ---------------------------
(***************************************************************************)
(* Proofs about MailQueue: its type invariant, that the transmitter's      *)
(* lists mirror the sending queue, that no wakeup is lost, that no message *)
(* is lost, and that no voided message is sent, for all users, unique Ids, *)
(* receivers, faults and bounds.                                           *)
(***************************************************************************)
EXTENDS MailQueue, ListLemmas

-----------------------------------------------------------------------------
(* The inductive invariant. *)

\* Where the threads are when they queue a message, and where they can be at all
Queueing == {"map", "move", "post"}
ServerAt == {"idle", "request", "runqueue", "cleanup", "cleanup2", "cleanup3",
             "stopped", "startup"} \cup Queueing
TransmitterAt == {"wait", "fetch", "ended"} \cup Working

\* What a message consists of
Messages == [uid : Uids \cup {""}, to : SUBSET (Users \cup {"mail"}), fresh : BOOLEAN]

\* Threads are at positions of theirs; the server stops once it asked the transmitter to.
Placed ==
    /\ pc \in [Threads -> ServerAt \cup TransmitterAt]
    /\ pc["server"] \in ServerAt /\ pc["transmitter"] \in TransmitterAt
    /\ m_stopRequest <=> pc["server"] = "stopped"
    /\ msg \in [Threads -> 0..lastId]
    /\ who \in [Threads -> Uids \cup {"", "mail"}]

\* The variables that TypeOK says nothing of; the transmitter works on a message.
Positions ==
    /\ Placed
    /\ missed \in Nat
    /\ drafts \subseteq Ids /\ void \subseteq Ids
    /\ stale \subseteq (Uids \cup {""}) \X Ids
    /\ promised \subseteq Ids \X (Users \cup {"mail"}) \X (Uids \cup {""})
    /\ pc["transmitter"] \in Working => mid \in Ids

\* A message is prepared by one thread only.  The transmitter prepares confirmation
\* requests only, and they are no drafts.
OneQueues ==
    /\ \A t \in Threads : pc[t] \in {"map", "move"} => msg[t] \in preparing
    /\ \A t \in Threads : pc[t] = "request" => who[t] \in Users
    /\ pc["transmitter"] \in Queueing =>
         /\ msg["transmitter"] \in Ids \ drafts
         /\ data[msg["transmitter"]].uid \in Users
         /\ who["transmitter"] \in Users
         /\ pc["server"] \in Queueing => msg["server"] # msg["transmitter"]

\* While the server cleans up, the unique Ids that clients gave name what they named
\* when it began; it removes one only if its message is neither prepared nor sent.
Cleaning ==
    /\ pc["server"] \in {"cleanup", "cleanup2", "cleanup3"} =>
         \A e \in stale : e[1] \in Uids /\ (e[1] \notin Users => uniqueIdMap[e[1]] = e[2])
    /\ pc["server"] \in {"cleanup2", "cleanup3"} =>
         /\ <<who["server"], msg["server"]>> \in stale
         /\ msg["server"] \notin preparing
    /\ pc["server"] = "cleanup3" => msg["server"] \notin sending

\* Message m is about to be put on the work queue.
IsDue(m) ==
    \/ \E t \in Threads : pc[t] = "post" /\ msg[t] = m
    \/ pc["server"] = "startup" /\ \E e \in stale : e[2] = m

\* The queues are lists of different messages.
Queues ==
    /\ m_workQueue \in Seq(Ids) /\ IsInjective(m_workQueue)
    /\ m_postponedMessages \in Seq(Ids) /\ IsInjective(m_postponedMessages)
    /\ ToSet(m_workQueue) \cap ToSet(m_postponedMessages) = {}

\* The messages to send are those in memory and those that are due; a message
\* being removed has left the former first.  What is due is due once.
Matching ==
    /\ InMemory \cap preparing = {}
    /\ \A m \in InMemory : m \notin sending => m = mid /\ pc["transmitter"] = "unqueue"
    /\ \A m \in sending : m \notin InMemory => IsDue(m)
    /\ \A m : IsDue(m) => m \in sending \ InMemory
    /\ pc["server"] = "startup" =>
         \A e \in stale : /\ e[1] = ""
                          /\ pc["transmitter"] = "post" => e[2] # msg["transmitter"]
    /\ pc["transmitter"] = "unqueue" => mid \notin sending

\* The transmitter works on the first message of its queue.
AtHead == pc["transmitter"] \in Working => m_workQueue # <<>> /\ Head(m_workQueue) = mid

\* A promise about the message worked on is for a receiver still to be served; the
\* one just served has none, and a message that is removed has none.
Serving(p) ==
    p[1] = mid =>
        /\ pc["transmitter"] \in Delivering /\ ~keep => p[2] \in left
        /\ pc["transmitter"] = "drop" => p[2] # who["transmitter"]
        /\ pc["transmitter"] \notin {"erase", "unlist"}

\* All promises are kept so far, and can be kept.
Owing ==
    /\ NothingLost
    /\ \A p \in promised : p[3] \notin Users => data[p[1]].uid = p[3] /\ Serving(p)

\* A voided message is not active any more, so the transmitter does not begin with it.
Voids ==
    /\ \A o \in void : ~Active(o)
    /\ VoidNotSent

IInv ==
    /\ TypeOK /\ Positions /\ OneQueues /\ Cleaning
    /\ Queues /\ Matching /\ AtHead /\ WakeAccounted
    /\ Owing /\ Voids

-----------------------------------------------------------------------------
(* What a message consists of, and how that changes. *)

\* The data of the messages, from the type invariant
LEMMA DataFacts ==
    ASSUME TypeOK
    PROVE  /\ lastId \in Nat /\ DOMAIN data = Ids /\ Len(data) = lastId /\ data \in Seq(Messages)
           /\ \A m \in Ids : /\ data[m] \in Messages /\ data[m].uid \in Uids \cup {""}
                             /\ data[m].to \subseteq Users \cup {"mail"} /\ data[m].fresh \in BOOLEAN
                             /\ m \in Nat \ {0}
           /\ \A m : m \in 0..lastId /\ m # 0 => m \in Ids
           /\ 0 \notin Ids
<1>1. lastId \in Nat /\ Len(data) = lastId /\ data \in Seq(Messages)
  BY DEF TypeOK, Messages
<1>2. DOMAIN data = Ids
  BY <1>1 DEF Ids
<1>3. \A m \in Ids : data[m] \in Messages
  BY <1>1, <1>2
<1>4. \A d \in Messages :
         d.uid \in Uids \cup {""} /\ d.to \subseteq Users \cup {"mail"} /\ d.fresh \in BOOLEAN
  BY DEF Messages
<1>5. 0 \notin Ids /\ \A m \in Ids : m \in Nat \ {0}
  BY <1>1 DEF Ids
<1>6. \A m : m \in 0..lastId /\ m # 0 => m \in Ids
  BY <1>1 DEF Ids
<1>. QED
  BY <1>1, <1>2, <1>3, <1>4, <1>5, <1>6

\* A message is added.
LEMMA AddFacts ==
    ASSUME TypeOK, NEW new \in Messages, lastId' = lastId + 1, data' = Append(data, new)
    PROVE  /\ lastId' \in Nat /\ Ids' = Ids \cup {lastId'} /\ lastId' \notin Ids
           /\ 0..lastId \subseteq 0..lastId' /\ lastId' \in 0..lastId'
           /\ data' \in Seq(Messages) /\ Len(data') = lastId'
           /\ \A m \in Ids : data'[m] = data[m]
           /\ data'[lastId'] = new
<1>1. lastId \in Nat /\ Len(data) = lastId /\ data \in Seq(Messages)
  BY DataFacts
<1>2. /\ data' \in Seq(Messages) /\ Len(data') = Len(data) + 1
      /\ (\A m \in 1..Len(data) : data'[m] = data[m]) /\ data'[Len(data) + 1] = new
  BY <1>1, AppendOne
<1>3. /\ lastId' \in Nat /\ Ids' = Ids \cup {lastId'} /\ lastId' \notin Ids
      /\ 0..lastId \subseteq 0..lastId' /\ lastId' \in 0..lastId'
  BY <1>1 DEF Ids
<1>4. \A m \in Ids : data'[m] = data[m]
  BY <1>1, <1>2 DEF Ids
<1>. QED
  BY <1>1, <1>2, <1>3, <1>4

\* A new message: the others stay.
LEMMA AllocateFacts ==
    ASSUME TypeOK, NEW uid \in Uids \cup {""}, NEW to \in SUBSET (Users \cup {"mail"}), Allocate(uid, to)
    PROVE  /\ lastId' \in Nat /\ Ids' = Ids \cup {lastId'} /\ lastId' \notin Ids
           /\ lastId' = lastId + 1 /\ 0..lastId \subseteq 0..lastId' /\ lastId' \in 0..lastId'
           /\ data' \in Seq(Messages) /\ Len(data') = lastId'
           /\ \A m \in Ids : data'[m] = data[m]
           /\ data'[lastId'].uid = uid /\ data'[lastId'].to = to
           /\ preparing' = preparing \cup {lastId'}
<1> DEFINE new == [uid |-> uid, to |-> to, fresh |-> TRUE]
<1>1. lastId' = lastId + 1 /\ preparing' = preparing \cup {lastId'} /\ data' = Append(data, new)
  BY DEF Allocate
<1>2. new \in Messages /\ new.uid = uid /\ new.to = to
  BY DEF Messages
<1> HIDE DEF new
<1>3. /\ lastId' \in Nat /\ Ids' = Ids \cup {lastId'} /\ lastId' \notin Ids
      /\ 0..lastId \subseteq 0..lastId' /\ lastId' \in 0..lastId'
      /\ data' \in Seq(Messages) /\ Len(data') = lastId'
      /\ \A m \in Ids : data'[m] = data[m]
      /\ data'[lastId'] = new
  BY <1>1, <1>2, AddFacts
<1>. QED
  BY <1>1, <1>2, <1>3

\* The data of one message are replaced.
LEMMA ReplaceFacts ==
    ASSUME TypeOK, NEW d \in Ids, NEW new \in Messages, data' = [data EXCEPT ![d] = new]
    PROVE  /\ data' \in Seq(Messages) /\ Len(data') = lastId
           /\ \A m \in Ids : m # d => data'[m] = data[m]
           /\ data'[d] = new
<1>1. lastId \in Nat /\ Len(data) = lastId /\ data \in Seq(Messages) /\ DOMAIN data = Ids
  BY DataFacts
<1>2. d \in 1..Len(data)
  BY <1>1 DEF Ids
<1>3. data' \in Seq(Messages) /\ Len(data') = Len(data)
  BY <1>1, <1>2
<1>4. \A m \in Ids : data'[m] = IF m = d THEN new ELSE data[m]
  BY <1>1
<1>. QED
  BY <1>1, <1>3, <1>4

\* The receivers of a message change.
LEMMA ReceiversFacts ==
    ASSUME TypeOK, NEW d \in Ids, NEW to \in SUBSET (Users \cup {"mail"}),
           data' = [data EXCEPT ![d].to = to]
    PROVE  /\ data' \in Seq(Messages) /\ Len(data') = lastId
           /\ \A m \in Ids : m # d => data'[m] = data[m]
           /\ \A m \in Ids : data'[m].uid = data[m].uid /\ data'[m].fresh = data[m].fresh
           /\ data'[d].to = to
<1> DEFINE new == [data[d] EXCEPT !.to = to]
<1>1. data[d] \in Messages
  BY DataFacts
<1>2. /\ new \in Messages /\ new.to = to
      /\ new.uid = data[d].uid /\ new.fresh = data[d].fresh
  BY <1>1 DEF Messages
<1>3. data' = [data EXCEPT ![d] = new]
  OBVIOUS
<1> HIDE DEF new
<1>4. /\ data' \in Seq(Messages) /\ Len(data') = lastId
      /\ \A m \in Ids : m # d => data'[m] = data[m]
      /\ data'[d] = new
  BY <1>2, <1>3, ReplaceFacts
<1>. QED
  BY <1>2, <1>4

\* The time of a message passes.
LEMMA ExpireFacts ==
    ASSUME TypeOK, NEW d \in Ids, data' = [data EXCEPT ![d].fresh = FALSE]
    PROVE  /\ data' \in Seq(Messages) /\ Len(data') = lastId
           /\ \A m \in Ids : m # d => data'[m] = data[m]
           /\ \A m \in Ids : data'[m].uid = data[m].uid /\ data'[m].to = data[m].to
           /\ data'[d].fresh = FALSE
<1> DEFINE new == [data[d] EXCEPT !.fresh = FALSE]
<1>1. data[d] \in Messages
  BY DataFacts
<1>2. /\ new \in Messages /\ new.fresh = FALSE
      /\ new.uid = data[d].uid /\ new.to = data[d].to
  BY <1>1 DEF Messages
<1>3. data' = [data EXCEPT ![d] = new]
  OBVIOUS
<1> HIDE DEF new
<1>4. /\ data' \in Seq(Messages) /\ Len(data') = lastId
      /\ \A m \in Ids : m # d => data'[m] = data[m]
      /\ data'[d] = new
  BY <1>2, <1>3, ReplaceFacts
<1>. QED
  BY <1>2, <1>4

\* A message is removed, and does not count as active.
LEMMA EraseFacts ==
    ASSUME TypeOK, NEW d \in Ids, data' = [data EXCEPT ![d] = NoData]
    PROVE  /\ data' \in Seq(Messages) /\ Len(data') = lastId
           /\ \A m \in Ids : m # d => data'[m] = data[m]
           /\ data'[d].fresh = FALSE
<1>1. NoData \in Messages /\ NoData.fresh = FALSE
  <2>1. "" \in Uids \cup {""} /\ {} \in SUBSET (Users \cup {"mail"}) /\ FALSE \in BOOLEAN
    BY Zenon
  <2>. QED
    BY <2>1 DEF NoData, Messages
<1>. QED
  BY <1>1, ReplaceFacts

\* A restart removes the messages in preparation.
LEMMA RestartFacts ==
    ASSUME TypeOK, data' = [m \in Ids |-> IF m \in preparing THEN NoData ELSE data[m]]
    PROVE  /\ data' \in Seq(Messages) /\ Len(data') = lastId
           /\ \A m \in Ids \ preparing : data'[m] = data[m]
           /\ \A m \in preparing : data'[m].fresh = FALSE
<1>1. NoData \in Messages /\ NoData.fresh = FALSE
  <2>1. "" \in Uids \cup {""} /\ {} \in SUBSET (Users \cup {"mail"}) /\ FALSE \in BOOLEAN
    BY Zenon
  <2>. QED
    BY <2>1 DEF NoData, Messages
<1>2. lastId \in Nat /\ \A m \in Ids : data[m] \in Messages
  BY DataFacts
<1>3. preparing \subseteq Ids
  BY DEF TypeOK
<1>4. data' \in [1..lastId -> Messages]
  BY <1>1, <1>2 DEF Ids
<1>5. data' \in Seq(Messages) /\ Len(data') = lastId
  BY <1>2, <1>4
<1>6. \A m \in Ids : data'[m] = IF m \in preparing THEN NoData ELSE data[m]
  OBVIOUS
<1>. QED
  BY <1>1, <1>3, <1>5, <1>6

-----------------------------------------------------------------------------
(* Steps. *)

\* A step is one of these, or changes nothing.
LEMMA NextCases ==
    ASSUME [Next]_vars
    PROVE  \/ \E t \in Threads : RequestConfirmation(t) \/ SendMap(t) \/ SendMove(t) \/ SendPost(t)
           \/ \E e \in stale : CleanupPreparing(e) \/ StartupSend(e)
           \/ CleanupSending \/ CleanupRemove \/ MovePendingToWork \/ StartupEnd
           \/ \E uid \in ClientIds : StartMessage(uid)
           \/ \E m \in drafts, to \in Receivers : Send(m, to)
           \/ \E uid \in ClientIds \ {""} : CancelMessage(uid)
           \/ \E u \in Users : RequestAddress(u) \/ ConfirmAddress(u) \/ ExpireRequest(u)
           \/ RunQueue \/ Stop \/ Wait \/ GetNextWork \/ CheckActive
           \/ \E r \in left : SendMessage(r) \/ AwaitConfirmation(r) \/ AskConfirmation(r)
           \/ RemoveReceiver \/ Postprocess \/ Erase \/ Unlist \/ RemoveFromWork
           \/ \E m \in Ids : ExpireMessage(m)
           \/ CommandFails \/ ConfirmationFails \/ WorkFails \/ Restart \/ UNCHANGED vars
  BY DEF Next, Server, Command, Transmitter, Expiration, Failure, Queue, Cleanup, Startup, Threads

\* What the names are assumed to be
LEMMA NameFacts ==
    /\ Users \subseteq Uids /\ "" \notin Users /\ "" \notin Uids /\ "mail" \notin Users
    /\ \A uid \in ClientIds : uid \in Uids \cup {""} /\ uid \notin Users
    /\ "server" \in Threads /\ "transmitter" \in Threads
    /\ \A t \in Threads : t = "server" \/ t = "transmitter"
  BY NamesAssumption DEF Uids, Threads

\* What thread t is doing
Local(t) == <<pc[t], msg[t], who[t]>>

\* The transmitter's steps, other than those that queue a message
Transmits ==
    \/ Wait \/ GetNextWork \/ CheckActive
    \/ \E r \in left : SendMessage(r) \/ AwaitConfirmation(r) \/ AskConfirmation(r)
    \/ RemoveReceiver \/ Postprocess \/ Erase \/ Unlist \/ RemoveFromWork
    \/ ConfirmationFails \/ WorkFails

\* The server's
Serves ==
    \/ \E e \in stale : CleanupPreparing(e) \/ StartupSend(e)
    \/ CleanupSending \/ CleanupRemove \/ MovePendingToWork \/ StartupEnd
    \/ \E uid \in ClientIds : StartMessage(uid)
    \/ \E m \in drafts, to \in Receivers : Send(m, to)
    \/ \E uid \in ClientIds \ {""} : CancelMessage(uid)
    \/ \E u \in Users : RequestAddress(u) \/ ConfirmAddress(u)
    \/ RunQueue \/ Stop \/ CommandFails

\* No thread's
Expires == (\E m \in Ids : ExpireMessage(m)) \/ (\E u \in Users : ExpireRequest(u)) \/ UNCHANGED vars

\* The transmitter does not change what the server is doing.
LEMMA ServerRests ==
    ASSUME Placed, Transmits
    PROVE  UNCHANGED Local("server") /\ (pc["transmitter"] # "post")
<1>1. UNCHANGED Local("server")
  <2>1. pc'["server"] = pc["server"]
    <3>1. UNCHANGED pc \/ \E l : Goto("transmitter", l)
      BY DEF Transmits, Wait, GetNextWork, CheckActive, SendMessage, AwaitConfirmation,
             AskConfirmation, RemoveReceiver, Postprocess, Erase, Unlist, RemoveFromWork,
             ConfirmationFails, WorkFails, Rest, Settle, Fail, Postpone
    <3>. QED
      BY <3>1, NameFacts DEF Placed, Goto
  <2>2. msg'["server"] = msg["server"]
    BY NameFacts
       DEF Transmits, Wait, GetNextWork, CheckActive, SendMessage, AwaitConfirmation,
           AskConfirmation, RemoveReceiver, Postprocess, Erase, Unlist, RemoveFromWork,
           ConfirmationFails, WorkFails, Placed, Rest, Settle, Fail, Postpone
  <2>3. who'["server"] = who["server"]
    BY NameFacts
       DEF Transmits, Wait, GetNextWork, CheckActive, SendMessage, AwaitConfirmation,
           AskConfirmation, RemoveReceiver, Postprocess, Erase, Unlist, RemoveFromWork,
           ConfirmationFails, WorkFails, Placed, Rest, Settle, Fail, Postpone
  <2>. QED
    BY <2>1, <2>2, <2>3 DEF Local
<1>2. pc["transmitter"] # "post"
  BY DEF Transmits, Wait, GetNextWork, CheckActive, SendMessage, AwaitConfirmation, AskConfirmation,
         RemoveReceiver, Postprocess, Erase, Unlist, RemoveFromWork, ConfirmationFails, WorkFails
<1>. QED
  BY <1>1, <1>2

\* The server does not change what the transmitter is doing.
LEMMA TransmitterRests ==
    ASSUME Placed, Serves
    PROVE  UNCHANGED <<Local("transmitter"), work>> /\ pc["server"] # "post"
<1>1. UNCHANGED work
  BY DEF Serves, CleanupPreparing, StartupSend, CleanupSending, CleanupRemove, MovePendingToWork,
         StartupEnd, StartMessage, Send, CancelMessage, RequestAddress, ConfirmAddress, RunQueue, Stop,
         CommandFails,
         Rest, work
<1>2. UNCHANGED pc["transmitter"]
  BY NameFacts
     DEF Serves, CleanupPreparing, StartupSend, CleanupSending, CleanupRemove, MovePendingToWork,
         StartupEnd, StartMessage, Send, CancelMessage, RequestAddress, ConfirmAddress, RunQueue, Stop,
         CommandFails,
         Placed, Goto, Rest
<1>3. UNCHANGED msg["transmitter"]
  BY NameFacts
     DEF Serves, CleanupPreparing, StartupSend, CleanupSending, CleanupRemove, MovePendingToWork,
         StartupEnd, StartMessage, Send, CancelMessage, RequestAddress, ConfirmAddress, RunQueue, Stop,
         CommandFails,
         Placed, Goto, Rest
<1>4. UNCHANGED who["transmitter"]
  BY NameFacts
     DEF Serves, CleanupPreparing, StartupSend, CleanupSending, CleanupRemove, MovePendingToWork,
         StartupEnd, StartMessage, Send, CancelMessage, RequestAddress, ConfirmAddress, RunQueue, Stop,
         CommandFails,
         Placed, Goto, Rest
<1>5. pc["server"] # "post"
  BY DEF Serves, CleanupPreparing, StartupSend, CleanupSending, CleanupRemove, MovePendingToWork,
         StartupEnd, StartMessage, Send, CancelMessage, RequestAddress, ConfirmAddress, RunQueue, Stop,
         CommandFails
<1>. QED
  BY <1>1, <1>2, <1>3, <1>4, <1>5 DEF Local

\* While a message is queued, the other thread goes on as it was.
LEMMA OtherRests ==
    ASSUME Placed, NEW t \in Threads, NEW x \in Threads \ {t},
           RequestConfirmation(t) \/ SendMap(t) \/ SendMove(t) \/ SendPost(t)
    PROVE  UNCHANGED Local(x)
  BY DEF RequestConfirmation, SendMap, SendMove, SendPost, Rest, Goto, Local, Placed, work

\* The passage of time changes no thread.
LEMMA BothRest ==
    ASSUME Expires
    PROVE  UNCHANGED <<pc, msg, who, work>>
  BY DEF Expires, ExpireMessage, ExpireRequest, vars, work

\* The steps by their actors
LEMMA ActorCases ==
    ASSUME [Next]_vars
    PROVE  \/ \E t \in Threads : RequestConfirmation(t) \/ SendMap(t) \/ SendMove(t) \/ SendPost(t)
           \/ Serves \/ Transmits \/ Expires \/ Restart
  BY NextCases DEF Serves, Transmits, Expires

\* The messages stay messages; none is forgotten.
DataKept ==
    /\ lastId' \in Nat /\ Len(data') = lastId' /\ data' \in Seq(Messages)
    /\ Ids \subseteq Ids' /\ 0..lastId \subseteq 0..lastId'
    /\ UNCHANGED lastId => Ids' = Ids

\* Steps keep them.
LEMMA DataStep ==
    ASSUME IInv, [Next]_vars
    PROVE  DataKept
<1>1. TypeOK /\ Positions /\ OneQueues
  BY DEF IInv
<1>2. /\ lastId \in Nat /\ data \in Seq(Messages) /\ Len(data) = lastId
      /\ UNCHANGED lastId => Ids' = Ids
  BY <1>1, DataFacts DEF Ids
<1>3. ASSUME NEW t \in Threads, RequestConfirmation(t) PROVE DataKept
  <2>1. who[t] \in Uids \cup {""} /\ {"mail"} \in SUBSET (Users \cup {"mail"})
    BY <1>1, <1>3, NameFacts DEF RequestConfirmation, OneQueues
  <2>2. Allocate(who[t], {"mail"})
    BY <1>3 DEF RequestConfirmation
  <2>3. lastId' # lastId
    BY <1>2, <2>2 DEF Allocate
  <2>. QED
    BY <1>1, <2>1, <2>2, <2>3, AllocateFacts DEF DataKept
<1>4. ASSUME NEW uid \in ClientIds, StartMessage(uid) PROVE DataKept
  <2>1. uid \in Uids \cup {""} /\ {} \in SUBSET (Users \cup {"mail"})
    BY NameFacts
  <2>2. Allocate(uid, {})
    BY <1>4 DEF StartMessage
  <2>3. lastId' # lastId
    BY <1>2, <2>2 DEF Allocate
  <2>. QED
    BY <1>1, <2>1, <2>2, <2>3, AllocateFacts DEF DataKept
<1>5. ASSUME NEW m \in drafts, NEW to \in Receivers, Send(m, to) PROVE DataKept
  <2>1. m \in Ids /\ data[m].to \cup to \in SUBSET (Users \cup {"mail"})
    BY <1>1, DataFacts, ReceiversAssumption DEF Positions
  <2>2. data' = [data EXCEPT ![m].to = data[m].to \cup to] /\ UNCHANGED lastId
    BY <1>1, <1>5 DEF Send
  <2>. QED
    BY <1>1, <1>2, <2>1, <2>2, ReceiversFacts DEF DataKept
<1>6. CASE RemoveReceiver
  <2>1. mid \in Ids
    BY <1>1, <1>6 DEF RemoveReceiver, Positions, Working, Delivering
  <2>2. data[mid].to \ {who["transmitter"]} \in SUBSET (Users \cup {"mail"})
    BY <1>1, <2>1, DataFacts
  <2>3. data' = [data EXCEPT ![mid].to = data[mid].to \ {who["transmitter"]}] /\ UNCHANGED lastId
    BY <1>1, <1>6 DEF RemoveReceiver
  <2>. QED
    BY <1>1, <1>2, <2>1, <2>2, <2>3, ReceiversFacts DEF DataKept
<1>7. CASE Erase
  <2>1. mid \in Ids
    BY <1>1, <1>7 DEF Erase, Positions, Working
  <2>2. data' = [data EXCEPT ![mid] = NoData] /\ UNCHANGED lastId
    BY <1>7 DEF Erase
  <2>. QED
    BY <1>1, <1>2, <2>1, <2>2, EraseFacts DEF DataKept
<1>8. ASSUME NEW m \in Ids, ExpireMessage(m) PROVE DataKept
  <2>1. data' = [data EXCEPT ![m].fresh = FALSE] /\ UNCHANGED lastId
    BY <1>8 DEF ExpireMessage
  <2>. QED
    BY <1>1, <1>2, <2>1, ExpireFacts DEF DataKept
<1>9. CASE Restart
  <2>1. data' = [m \in Ids |-> IF m \in preparing THEN NoData ELSE data[m]] /\ UNCHANGED lastId
    BY <1>9 DEF Restart
  <2>. QED
    BY <1>1, <1>2, <2>1, RestartFacts DEF DataKept
<1>10. CASE (\E t \in Threads : SendMap(t)) \/ (\E t \in Threads : SendMove(t))
          \/ (\E t \in Threads : SendPost(t)) \/ (\E e \in stale : CleanupPreparing(e))
          \/ CleanupSending \/ CleanupRemove \/ MovePendingToWork \/ (\E e \in stale : StartupSend(e))
          \/ StartupEnd \/ (\E uid \in ClientIds \ {""} : CancelMessage(uid))
          \/ (\E u \in Users : RequestAddress(u)) \/ (\E u \in Users : ConfirmAddress(u)) \/ RunQueue
          \/ Stop \/ Wait \/ GetNextWork \/ CheckActive \/ (\E r \in left : SendMessage(r))
          \/ (\E r \in left : AwaitConfirmation(r)) \/ (\E r \in left : AskConfirmation(r))
          \/ Postprocess \/ Unlist \/ RemoveFromWork \/ (\E u \in Users : ExpireRequest(u))
          \/ CommandFails \/ ConfirmationFails \/ WorkFails \/ UNCHANGED vars
  <2>1. UNCHANGED <<lastId, data>>
    BY <1>10
       DEF SendMap, SendMove, SendPost, CleanupPreparing, CleanupSending, CleanupRemove,
          MovePendingToWork, StartupSend, StartupEnd, CancelMessage, RequestAddress, ConfirmAddress,
          RunQueue, Stop, Wait, GetNextWork, CheckActive, SendMessage, AwaitConfirmation,
          AskConfirmation, Postprocess, Unlist, RemoveFromWork, ExpireRequest, CommandFails,
          ConfirmationFails, WorkFails, vars, db, ram, work, history, Goto, Rest
  <2>. QED
    BY <1>2, <2>1 DEF DataKept
<1>. QED
  BY <1>3, <1>4, <1>5, <1>6, <1>7, <1>8, <1>9, <1>10, NextCases

\* What a thread's next step does to the positions of both
LEMMA GotoFacts ==
    ASSUME Placed, NEW t \in Threads, NEW l, Goto(t, l),
           t = "server" => l \in ServerAt, t = "transmitter" => l \in TransmitterAt
    PROVE  /\ pc' \in [Threads -> ServerAt \cup TransmitterAt]
           /\ pc'["server"] \in ServerAt /\ pc'["transmitter"] \in TransmitterAt
<1>1. l \in ServerAt \cup TransmitterAt
  BY NameFacts
<1>. QED
  BY <1>1, NameFacts DEF Placed, Goto

\* The threads stay at positions of theirs.
LEMMA ThreadsStep ==
    ASSUME IInv, [Next]_vars
    PROVE  Placed'
<1>1. TypeOK /\ Positions /\ OneQueues /\ Placed
  BY DEF IInv, Positions
<1>2. lastId \in Nat /\ 0..lastId \subseteq 0..lastId' /\ 0 \in 0..lastId'
  <2>1. lastId \in Nat /\ lastId' \in Nat /\ 0..lastId \subseteq 0..lastId'
    BY <1>1, DataFacts, DataStep DEF DataKept
  <2>. QED
    BY <2>1
<1>3. /\ Ids \subseteq 0..lastId /\ left \subseteq Users \cup {"mail"} /\ drafts \subseteq Ids
      /\ \A e \in stale : e[1] \in Uids \cup {""} /\ e[2] \in Ids
  <2>1. Ids \subseteq 0..lastId
    BY <1>2 DEF Ids
  <2>2. left \subseteq Users \cup {"mail"}
    BY <1>1 DEF TypeOK
  <2>3. drafts \subseteq Ids /\ \A e \in stale : e[1] \in Uids \cup {""} /\ e[2] \in Ids
    BY <1>1 DEF Positions
  <2>. QED
    BY <2>1, <2>2, <2>3
<1>4. ASSUME NEW t \in Threads, RequestConfirmation(t) PROVE Placed'
  <2>1. lastId + 1 \in 0..lastId'
    BY <1>2, <1>4 DEF RequestConfirmation, Allocate
  <2>. QED
    BY <1>1, <1>2, NameFacts, <2>1, <1>4
       DEF RequestConfirmation, Placed, Goto, Rest, ServerAt, TransmitterAt, Working, Delivering,
          Queueing, ram
<1>5. ASSUME NEW t \in Threads, SendMap(t) PROVE Placed'
  BY <1>1, <1>2, NameFacts, <1>5
     DEF SendMap, Placed, Goto, Rest, ServerAt, TransmitterAt, Working, Delivering, Queueing, ram
<1>6. ASSUME NEW t \in Threads, SendMove(t) PROVE Placed'
  BY <1>1, <1>2, NameFacts, <1>6
     DEF SendMove, Placed, Goto, Rest, ServerAt, TransmitterAt, Working, Delivering, Queueing, ram
<1>7. ASSUME NEW t \in Threads, SendPost(t) PROVE Placed'
  <2>1. /\ pc' \in [Threads -> ServerAt \cup TransmitterAt]
        /\ pc'["server"] \in ServerAt /\ pc'["transmitter"] \in TransmitterAt
    <3>1. PICK l : Goto(t, l) /\ l = IF t = "server" THEN "idle" ELSE "deliver"
      <4>1. CASE t = "server"
        <5>1. Goto(t, IF t = "server" THEN "idle" ELSE "wait")
          BY <1>7, <4>1 DEF SendPost, Rest
        <5>. QED
          BY <4>1, <5>1
      <4>2. CASE t = "transmitter"
        BY <1>7, <4>2 DEF SendPost
      <4>. QED
        BY <4>1, <4>2, NameFacts
    <3>2. "idle" \in ServerAt /\ "deliver" \in TransmitterAt
      BY DEF ServerAt, TransmitterAt, Working, Delivering
    <3>. QED
      BY <1>1, <3>1, <3>2, NameFacts, GotoFacts
  <2>2. m_stopRequest' <=> pc'["server"] = "stopped"
    BY <1>1, <1>2, NameFacts, <1>7
       DEF SendPost, Placed, Goto, Rest, ram
  <2>5. msg' = [msg EXCEPT ![t] = 0] /\ who' = [who EXCEPT ![t] = ""]
    BY <1>7 DEF SendPost, Rest
  <2>3. msg' \in [Threads -> 0..lastId']
    BY <1>1, <1>2, <2>5 DEF Placed
  <2>4. who' \in [Threads -> Uids \cup {"", "mail"}]
    BY <1>1, <2>5 DEF Placed
  <2>. QED
    BY <2>1, <2>2, <2>3, <2>4 DEF Placed
<1>8. ASSUME NEW e \in stale, CleanupPreparing(e) PROVE Placed'
  <2>1. \/ UNCHANGED <<pc, msg, who>>
        \/ /\ Goto("server", "cleanup2")
           /\ msg' = [msg EXCEPT !["server"] = e[2]]
           /\ who' = [who EXCEPT !["server"] = e[1]]
    BY <1>8 DEF CleanupPreparing
  <2>2. m_stopRequest' = m_stopRequest /\ pc["server"] = "cleanup"
    BY <1>8 DEF CleanupPreparing, ram
  <2>3. CASE UNCHANGED <<pc, msg, who>>
    BY <1>1, <1>2, <2>2, <2>3 DEF Placed
  <2>4. CASE Goto("server", "cleanup2")
    <3>1. /\ pc' \in [Threads -> ServerAt \cup TransmitterAt]
          /\ pc'["server"] \in ServerAt /\ pc'["transmitter"] \in TransmitterAt
      BY <1>1, <2>4, NameFacts, GotoFacts DEF ServerAt
    <3>2. m_stopRequest' <=> pc'["server"] = "stopped"
      BY <1>1, <2>2, <2>4, NameFacts DEF Placed, Goto
    <3>3. msg' \in [Threads -> 0..lastId'] /\ who' \in [Threads -> Uids \cup {"", "mail"}]
      BY <1>1, <1>2, <1>3, <2>1 DEF Placed
    <3>. QED
      BY <3>1, <3>2, <3>3 DEF Placed
  <2>. QED
    BY <2>1, <2>3, <2>4
<1>9. CASE CleanupSending
  <2>1. PICK l \in {"cleanup", "cleanup3"} : Goto("server", l)
    BY <1>9 DEF CleanupSending
  <2>2. /\ pc' \in [Threads -> ServerAt \cup TransmitterAt]
        /\ pc'["server"] \in ServerAt /\ pc'["transmitter"] \in TransmitterAt
    BY <1>1, <2>1, NameFacts, GotoFacts DEF ServerAt
  <2>3. m_stopRequest' = m_stopRequest /\ pc["server"] = "cleanup2" /\ msg' = msg /\ who' = who
    BY <1>9 DEF CleanupSending, ram
  <2>4. pc'["server"] = l
    BY <1>1, <2>1, NameFacts DEF Placed, Goto
  <2>. QED
    BY <1>1, <1>2, <2>1, <2>2, <2>3, <2>4 DEF Placed
<1>10. CASE CleanupRemove
  BY <1>1, <1>2, NameFacts, <1>10
     DEF CleanupRemove, Placed, Goto, Rest, ServerAt, TransmitterAt, Working, Delivering, Queueing, ram
<1>11. CASE MovePendingToWork
  BY <1>1, <1>2, NameFacts, <1>11
     DEF MovePendingToWork, Placed, Goto, Rest, ServerAt, TransmitterAt, Working, Delivering, Queueing,
        ram
<1>12. ASSUME NEW e \in stale, StartupSend(e) PROVE Placed'
  BY <1>1, <1>2, NameFacts, <1>12
     DEF StartupSend, Placed, Goto, Rest, ServerAt, TransmitterAt, Working, Delivering, Queueing, ram
<1>13. CASE StartupEnd
  BY <1>1, <1>2, NameFacts, <1>13
     DEF StartupEnd, Placed, Goto, Rest, ServerAt, TransmitterAt, Working, Delivering, Queueing, ram
<1>14. ASSUME NEW uid \in ClientIds, StartMessage(uid) PROVE Placed'
  BY <1>1, <1>2, NameFacts, <1>14
     DEF StartMessage, Placed, Goto, Rest, ServerAt, TransmitterAt, Working, Delivering, Queueing, ram
<1>15. ASSUME NEW m \in drafts, NEW to \in Receivers, Send(m, to) PROVE Placed'
  BY <1>1, <1>2, NameFacts, <1>3, <1>15
     DEF Send, Placed, Goto, Rest, ServerAt, TransmitterAt, Working, Delivering, Queueing, ram
<1>16. ASSUME NEW uid \in ClientIds \ {""}, CancelMessage(uid) PROVE Placed'
  BY <1>1, <1>2, NameFacts, <1>16
     DEF CancelMessage, Placed, Goto, Rest, ServerAt, TransmitterAt, Working, Delivering, Queueing, ram
<1>17. ASSUME NEW u \in Users, RequestAddress(u) PROVE Placed'
  BY <1>1, <1>2, NameFacts, <1>17
     DEF RequestAddress, Placed, Goto, Rest, ServerAt, TransmitterAt, Working, Delivering, Queueing, ram
<1>18. ASSUME NEW u \in Users, ConfirmAddress(u) PROVE Placed'
  BY <1>1, <1>2, NameFacts, <1>18
     DEF ConfirmAddress, Placed, Goto, Rest, ServerAt, TransmitterAt, Working, Delivering, Queueing, ram
<1>19. CASE RunQueue
  BY <1>1, <1>2, NameFacts, <1>19
     DEF RunQueue, Placed, Goto, Rest, ServerAt, TransmitterAt, Working, Delivering, Queueing, ram
<1>20. CASE Stop
  BY <1>1, <1>2, NameFacts, <1>20
     DEF Stop, Placed, Goto, Rest, ServerAt, TransmitterAt, Working, Delivering, Queueing, ram
<1>21. CASE Wait
  BY <1>1, <1>2, NameFacts, <1>21
     DEF Wait, Placed, Goto, Rest, ServerAt, TransmitterAt, Working, Delivering, Queueing, ram
<1>22. CASE GetNextWork
  BY <1>1, <1>2, NameFacts, <1>22
     DEF GetNextWork, Placed, Goto, Rest, ServerAt, TransmitterAt, Working, Delivering, Queueing, ram
<1>23. CASE CheckActive
  <2>1. /\ pc' \in [Threads -> ServerAt \cup TransmitterAt]
        /\ pc'["server"] \in ServerAt /\ pc'["transmitter"] \in TransmitterAt
    <3>1. PICK l \in {"deliver", "erase"} : Goto("transmitter", l)
      BY <1>23 DEF CheckActive
    <3>2. l \in TransmitterAt
      BY DEF TransmitterAt, Working, Delivering
    <3>. QED
      BY <1>1, <3>1, <3>2, NameFacts, GotoFacts
  <2>2. m_stopRequest' <=> pc'["server"] = "stopped"
    BY <1>1, <1>2, NameFacts, <1>23
       DEF CheckActive, Placed, Goto, Rest, ram
  <2>3. msg' \in [Threads -> 0..lastId']
    BY <1>1, <1>2, NameFacts, <1>23
       DEF CheckActive, Placed, Rest
  <2>4. who' \in [Threads -> Uids \cup {"", "mail"}]
    BY <1>1, <1>2, NameFacts, <1>23
       DEF CheckActive, Placed, Rest
  <2>. QED
    BY <2>1, <2>2, <2>3, <2>4 DEF Placed
<1>24. ASSUME NEW r \in left, SendMessage(r) PROVE Placed'
  <2>1. /\ pc' \in [Threads -> ServerAt \cup TransmitterAt]
        /\ pc'["server"] \in ServerAt /\ pc'["transmitter"] \in TransmitterAt
    <3>1. PICK l \in {"deliver", "drop"} : Goto("transmitter", l)
      BY <1>24 DEF SendMessage, Settle, Fail, Postpone
    <3>2. l \in TransmitterAt
      BY DEF TransmitterAt, Working, Delivering
    <3>. QED
      BY <1>1, <3>1, <3>2, NameFacts, GotoFacts
  <2>2. m_stopRequest' <=> pc'["server"] = "stopped"
    BY <1>1, <1>2, NameFacts, <1>3, <1>24
       DEF SendMessage, Settle, Fail, Postpone, Placed, Goto, Rest, ram
  <2>3. msg' \in [Threads -> 0..lastId']
    BY <1>1, <1>2, NameFacts, <1>3, <1>24
       DEF SendMessage, Settle, Fail, Postpone, Placed, Rest
  <2>4. who' \in [Threads -> Uids \cup {"", "mail"}]
    BY <1>1, <1>2, NameFacts, <1>3, <1>24
       DEF SendMessage, Settle, Fail, Postpone, Placed, Rest
  <2>. QED
    BY <2>1, <2>2, <2>3, <2>4 DEF Placed
<1>25. ASSUME NEW r \in left, AwaitConfirmation(r) PROVE Placed'
  BY <1>1, <1>2, NameFacts, <1>3, <1>25
     DEF AwaitConfirmation, Settle, Fail, Postpone, Placed, Goto, Rest, ServerAt, TransmitterAt,
        Working, Delivering, Queueing, ram
<1>26. ASSUME NEW r \in left, AskConfirmation(r) PROVE Placed'
  BY <1>1, <1>2, NameFacts, <1>26
     DEF AskConfirmation, Placed, Goto, Rest, ServerAt, TransmitterAt, Working, Delivering, Queueing,
        ram
<1>27. CASE RemoveReceiver
  BY <1>1, <1>2, NameFacts, <1>27
     DEF RemoveReceiver, Placed, Goto, Rest, ServerAt, TransmitterAt, Working, Delivering, Queueing, ram
<1>28. CASE Postprocess
  <2>1. /\ pc' \in [Threads -> ServerAt \cup TransmitterAt]
        /\ pc'["server"] \in ServerAt /\ pc'["transmitter"] \in TransmitterAt
    <3>1. PICK l \in {"wait", "erase"} : Goto("transmitter", l)
      BY <1>28 DEF Postprocess, Rest
    <3>2. l \in TransmitterAt
      BY DEF TransmitterAt, Working, Delivering
    <3>. QED
      BY <1>1, <3>1, <3>2, NameFacts, GotoFacts
  <2>2. m_stopRequest' <=> pc'["server"] = "stopped"
    BY <1>1, <1>2, NameFacts, <1>28
       DEF Postprocess, Placed, Goto, Rest, ram
  <2>5. /\ msg' = msg \/ msg' = [msg EXCEPT !["transmitter"] = 0]
        /\ who' = who \/ who' = [who EXCEPT !["transmitter"] = ""]
    BY <1>28 DEF Postprocess, Rest
  <2>3. msg' \in [Threads -> 0..lastId']
    BY <1>1, <1>2, <2>5 DEF Placed
  <2>4. who' \in [Threads -> Uids \cup {"", "mail"}]
    BY <1>1, <2>5 DEF Placed
  <2>. QED
    BY <2>1, <2>2, <2>3, <2>4 DEF Placed
<1>29. CASE Erase
  BY <1>1, <1>2, NameFacts, <1>29
     DEF Erase, Placed, Goto, Rest, ServerAt, TransmitterAt, Working, Delivering, Queueing, ram
<1>30. CASE Unlist
  BY <1>1, <1>2, NameFacts, <1>30
     DEF Unlist, Placed, Goto, Rest, ServerAt, TransmitterAt, Working, Delivering, Queueing, ram
<1>31. CASE RemoveFromWork
  BY <1>1, <1>2, NameFacts, <1>31
     DEF RemoveFromWork, Placed, Goto, Rest, ServerAt, TransmitterAt, Working, Delivering, Queueing, ram
<1>32. ASSUME NEW m \in Ids, ExpireMessage(m) PROVE Placed'
  BY <1>1, <1>2, NameFacts, <1>32
     DEF ExpireMessage, Placed, Goto, Rest, ServerAt, TransmitterAt, Working, Delivering, Queueing, ram
<1>33. ASSUME NEW u \in Users, ExpireRequest(u) PROVE Placed'
  BY <1>1, <1>2, NameFacts, <1>33
     DEF ExpireRequest, Placed, Goto, Rest, ServerAt, TransmitterAt, Working, Delivering, Queueing, ram
<1>34. CASE CommandFails
  BY <1>1, <1>2, NameFacts, <1>34
     DEF CommandFails, Placed, Goto, Rest, ServerAt, TransmitterAt, Working, Delivering, Queueing, ram
<1>35. CASE ConfirmationFails
  <2>1. /\ pc' \in [Threads -> ServerAt \cup TransmitterAt]
        /\ pc'["server"] \in ServerAt /\ pc'["transmitter"] \in TransmitterAt
    <3>1. PICK l \in {"deliver", "drop"} : Goto("transmitter", l)
      BY <1>35 DEF ConfirmationFails, Settle, Fail, Postpone
    <3>2. l \in TransmitterAt
      BY DEF TransmitterAt, Working, Delivering
    <3>. QED
      BY <1>1, <3>1, <3>2, NameFacts, GotoFacts
  <2>2. m_stopRequest' <=> pc'["server"] = "stopped"
    BY <1>1, <1>2, NameFacts, <1>3, <1>35
       DEF ConfirmationFails, Settle, Fail, Postpone, Placed, Goto, Rest, ram
  <2>3. msg' \in [Threads -> 0..lastId']
    BY <1>1, <1>2, NameFacts, <1>3, <1>35
       DEF ConfirmationFails, Settle, Fail, Postpone, Placed, Rest
  <2>4. who' \in [Threads -> Uids \cup {"", "mail"}]
    BY <1>1, <1>2, NameFacts, <1>3, <1>35
       DEF ConfirmationFails, Settle, Fail, Postpone, Placed, Rest
  <2>. QED
    BY <2>1, <2>2, <2>3, <2>4 DEF Placed
<1>36. CASE WorkFails
  BY <1>1, <1>2, NameFacts, <1>36
     DEF WorkFails, Placed, Goto, Rest, ServerAt, TransmitterAt, Working, Delivering, Queueing, ram
<1>37. CASE Restart
  BY <1>1, <1>2, NameFacts, <1>37
     DEF Restart, Placed, Goto, Rest, ServerAt, TransmitterAt, Working, Delivering, Queueing, ram
<1>38. CASE UNCHANGED vars
  BY <1>1, <1>2, NameFacts, <1>38
     DEF vars, ram, db, Placed
<1>. QED
  BY <1>4, <1>5, <1>6, <1>7, <1>8, <1>9, <1>10, <1>11, <1>12, <1>13, <1>14, <1>15, <1>16, <1>17, <1>18,
     <1>19, <1>20, <1>21, <1>22, <1>23, <1>24, <1>25, <1>26, <1>27, <1>28, <1>29, <1>30, <1>31, <1>32,
     <1>33, <1>34, <1>35, <1>36, <1>37, <1>38, NextCases

\* What is recorded of messages is about existing ones.
Recorded ==
    /\ missed \in Nat /\ drafts \subseteq Ids /\ void \subseteq Ids
    /\ stale \subseteq (Uids \cup {""}) \X Ids
    /\ promised \subseteq Ids \X (Users \cup {"mail"}) \X (Uids \cup {""})

\* Steps keep that.
LEMMA RecordedStep ==
    ASSUME IInv, [Next]_vars
    PROVE  Recorded'
<1>1. TypeOK /\ Positions /\ OneQueues /\ Placed'
  BY ThreadsStep DEF IInv
<1>2. /\ Ids \subseteq Ids' /\ lastId \in Nat /\ preparing \subseteq Ids /\ sending \subseteq Ids
      /\ left \subseteq Users \cup {"mail"} /\ mid \in 0..lastId
      /\ \A m \in Ids : data[m].uid \in Uids \cup {""} /\ data[m].to \subseteq Users \cup {"mail"}
  BY <1>1, DataStep, DataFacts DEF DataKept, TypeOK
<1>3. /\ missed \in Nat /\ drafts \subseteq Ids' /\ void \subseteq Ids'
      /\ stale \subseteq (Uids \cup {""}) \X Ids'
      /\ promised \subseteq Ids' \X (Users \cup {"mail"}) \X (Uids \cup {""})
      /\ pc["transmitter"] \in Working => mid \in Ids
  BY <1>1, <1>2 DEF Positions
<1>4. ASSUME NEW t \in Threads, SendMap(t) PROVE Recorded'
  <2>1. /\ UNCHANGED <<drafts, stale>>
        /\ UNCHANGED history \/ Void(data[msg[t]].uid, msg[t])
    BY <1>4 DEF SendMap, ram
  <2>2. /\ promised' \subseteq promised /\ void' \subseteq void \cup Ids /\ UNCHANGED missed
    BY <2>1 DEF Void, Voided, history
  <2>. QED
    BY <1>2, <1>3, <2>1, <2>2 DEF Recorded
<1>5. ASSUME NEW t \in Threads, SendMove(t) PROVE Recorded'
  BY <1>1, <1>2, <1>3, NameFacts, <1>5
     DEF SendMove, Recorded, Owed, OneQueues, ram
<1>6. ASSUME NEW t \in Threads, SendPost(t) PROVE Recorded'
  BY <1>1, <1>2, <1>3, NameFacts, <1>6
     DEF SendPost, Recorded, history, ram, db
<1>7. ASSUME NEW e \in stale, CleanupPreparing(e) PROVE Recorded'
  <2>1. stale' \subseteq stale /\ UNCHANGED <<missed, drafts, void, promised>>
    BY <1>7 DEF CleanupPreparing, history, ram
  <2>. QED
    BY <1>3, <2>1 DEF Recorded
<1>8. CASE CleanupSending
  <2>1. stale' \subseteq stale /\ UNCHANGED <<missed, drafts, void, promised>>
    BY <1>8 DEF CleanupSending, history, ram
  <2>. QED
    BY <1>3, <2>1 DEF Recorded
<1>9. CASE CleanupRemove
  BY <1>1, <1>2, <1>3, NameFacts, <1>9
     DEF CleanupRemove, Recorded, history, ram, db
<1>10. ASSUME NEW e \in stale, StartupSend(e) PROVE Recorded'
  BY <1>1, <1>2, <1>3, NameFacts, <1>10
     DEF StartupSend, Recorded, history, ram, db
<1>11. ASSUME NEW uid \in ClientIds, StartMessage(uid) PROVE Recorded'
  <2>1. uid \in Uids \cup {""} /\ {} \in SUBSET (Users \cup {"mail"})
    BY NameFacts
  <2>2. lastId + 1 \in Ids'
    BY <1>1, <1>11, <2>1, AllocateFacts DEF StartMessage
  <2>. QED
    BY <1>2, <1>3, <1>11, <2>2 DEF StartMessage, Recorded, history
<1>12. ASSUME NEW uid \in ClientIds \ {""}, CancelMessage(uid) PROVE Recorded'
  <2>1. Void(uid, 0) /\ UNCHANGED <<drafts, stale>>
    BY <1>12 DEF CancelMessage, ram
  <2>. QED
    BY <1>2, <1>3, <2>1 DEF Recorded, Void, Voided
<1>13. CASE RunQueue
  BY <1>1, <1>2, <1>3, NameFacts, <1>13
     DEF RunQueue, Recorded, history, ram, db
<1>14. ASSUME NEW r \in left, SendMessage(r) PROVE Recorded'
  <2>1. /\ promised' \subseteq promised /\ UNCHANGED <<missed, drafts, void, stale>>
    BY <1>14 DEF SendMessage, Settle, Fail, Postpone, history, ram
  <2>. QED
    BY <1>3, <2>1 DEF Recorded
<1>15. ASSUME NEW r \in left, AwaitConfirmation(r) PROVE Recorded'
  <2>1. /\ promised' \subseteq promised /\ UNCHANGED <<missed, drafts, void, stale>>
    BY <1>15 DEF AwaitConfirmation, Settle, Fail, Postpone, history, ram
  <2>. QED
    BY <1>3, <2>1 DEF Recorded
<1>16. CASE Unlist
  BY <1>1, <1>2, <1>3, NameFacts, <1>16
     DEF Unlist, Recorded, history, ram, db
<1>17. ASSUME NEW m \in Ids, ExpireMessage(m) PROVE Recorded'
  BY <1>1, <1>2, <1>3, NameFacts, <1>17
     DEF ExpireMessage, Recorded, history, ram, db
<1>18. CASE CommandFails
  BY <1>1, <1>2, <1>3, NameFacts, <1>18
     DEF CommandFails, Recorded, history, ram, db
<1>19. CASE ConfirmationFails
  <2>1. /\ promised' \subseteq promised /\ UNCHANGED <<missed, drafts, void, stale>>
    BY <1>19 DEF ConfirmationFails, Settle, Fail, Postpone, history, ram
  <2>. QED
    BY <1>3, <2>1 DEF Recorded
<1>20. CASE WorkFails
  <2>1. missed' = missed + 1 /\ UNCHANGED <<promised, drafts, void, stale>>
    BY <1>20 DEF WorkFails, ram
  <2>2. missed \in Nat
    BY <1>3
  <2>3. missed' \in Nat
    BY <2>1, <2>2
  <2>. QED
    BY <1>3, <2>1, <2>3 DEF Recorded
<1>21. CASE Restart
  BY <1>1, <1>2, <1>3, NameFacts, <1>21
     DEF Restart, Recorded, history, ram, db
<1>22. CASE (\E t \in Threads : RequestConfirmation(t)) \/ MovePendingToWork \/ StartupEnd
          \/ (\E m \in drafts, to \in Receivers : Send(m, to)) \/ (\E u \in Users : RequestAddress(u))
          \/ (\E u \in Users : ConfirmAddress(u)) \/ Stop \/ Wait \/ GetNextWork \/ CheckActive
          \/ (\E r \in left : AskConfirmation(r)) \/ RemoveReceiver \/ Postprocess \/ Erase
          \/ RemoveFromWork \/ (\E u \in Users : ExpireRequest(u)) \/ UNCHANGED vars
  <2>1. UNCHANGED <<missed, drafts, void, stale, promised>>
    BY <1>22
       DEF RequestConfirmation, MovePendingToWork, StartupEnd, Send, RequestAddress, ConfirmAddress,
          Stop, Wait, GetNextWork, CheckActive, AskConfirmation, RemoveReceiver, Postprocess, Erase,
          RemoveFromWork, ExpireRequest, vars, ram, history, db, work, Rest, Goto
  <2>. QED
    BY <1>2, <1>3, <2>1 DEF Recorded
<1>. QED
  BY <1>4, <1>5, <1>6, <1>7, <1>8, <1>9, <1>10, <1>11, <1>12, <1>13, <1>14, <1>15, <1>16, <1>17, <1>18,
     <1>19, <1>20, <1>21, <1>22, NextCases

\* The database has its type.
DatabaseTyped ==
    /\ preparing \subseteq Ids /\ sending \subseteq Ids /\ preparing \cap sending = {}
    /\ uniqueIdMap \in [Uids -> 0..lastId]
    /\ status \in [Users -> {"u", "r", "c"}]

\* Steps keep that.
LEMMA DatabaseStep ==
    ASSUME IInv, [Next]_vars
    PROVE  DatabaseTyped'
<1>1. TypeOK /\ Positions /\ OneQueues
  BY DEF IInv
<1>2. /\ Ids \subseteq Ids' /\ lastId \in Nat /\ 0..lastId \subseteq 0..lastId' /\ 0 \in 0..lastId'
  <2>1. Ids \subseteq Ids' /\ lastId \in Nat /\ 0..lastId \subseteq 0..lastId' /\ lastId' \in Nat
    BY <1>1, DataStep, DataFacts DEF DataKept
  <2>. QED
    BY <2>1
<1>3. /\ preparing \subseteq Ids' /\ sending \subseteq Ids' /\ preparing \cap sending = {}
      /\ uniqueIdMap \in [Uids -> 0..lastId'] /\ status \in [Users -> {"u", "r", "c"}]
  <2>1. uniqueIdMap \in [Uids -> 0..lastId']
    BY <1>1, <1>2 DEF TypeOK
  <2>. QED
    BY <1>1, <1>2, <2>1 DEF TypeOK
<1>4. ASSUME NEW t \in Threads, RequestConfirmation(t) PROVE DatabaseTyped'
  <2>1. who[t] \in Users /\ who[t] \in Uids \cup {""} /\ {"mail"} \in SUBSET (Users \cup {"mail"})
    BY <1>1, <1>4, NameFacts DEF RequestConfirmation, OneQueues
  <2>2. /\ Allocate(who[t], {"mail"}) /\ status' = [status EXCEPT ![who[t]] = "r"]
        /\ UNCHANGED <<sending, uniqueIdMap>>
    BY <1>4 DEF RequestConfirmation
  <2>3. preparing' = preparing \cup {lastId'} /\ lastId' \in Ids' /\ lastId' \notin sending
    BY <1>1, <2>1, <2>2, AllocateFacts DEF TypeOK
  <2>4. status' \in [Users -> {"u", "r", "c"}]
    BY <1>3, <2>2
  <2>. QED
    BY <1>3, <2>2, <2>3, <2>4 DEF DatabaseTyped
<1>5. ASSUME NEW t \in Threads, SendMap(t) PROVE DatabaseTyped'
  <2>1. msg[t] \in 0..lastId'
    BY <1>1, <1>2 DEF Positions, Placed
  <2>2. /\ UNCHANGED <<preparing, sending, status>>
        /\ uniqueIdMap' = uniqueIdMap \/ uniqueIdMap' = [uniqueIdMap EXCEPT ![data[msg[t]].uid] = msg[t]]
    BY <1>5 DEF SendMap
  <2>. QED
    BY <1>3, <2>1, <2>2 DEF DatabaseTyped
<1>6. ASSUME NEW t \in Threads, SendMove(t) PROVE DatabaseTyped'
  <2>1. msg[t] \in preparing
    BY <1>1, <1>6 DEF SendMove, OneQueues
  <2>. QED
    BY <1>3, <1>6, <2>1 DEF SendMove, DatabaseTyped
<1>7. CASE CleanupRemove
  BY <1>2, <1>3, <1>7 DEF CleanupRemove, DatabaseTyped
<1>8. ASSUME NEW uid \in ClientIds, StartMessage(uid) PROVE DatabaseTyped'
  <2>1. uid \in Uids \cup {""} /\ {} \in SUBSET (Users \cup {"mail"})
    BY NameFacts
  <2>2. Allocate(uid, {}) /\ UNCHANGED <<status, sending, uniqueIdMap>>
    BY <1>8 DEF StartMessage
  <2>3. preparing' = preparing \cup {lastId'} /\ lastId' \in Ids' /\ lastId' \notin sending
    BY <1>1, <2>1, <2>2, AllocateFacts DEF TypeOK
  <2>. QED
    BY <1>3, <2>2, <2>3 DEF DatabaseTyped
<1>9. ASSUME NEW uid \in ClientIds \ {""}, CancelMessage(uid) PROVE DatabaseTyped'
  BY <1>2, <1>3, <1>9 DEF CancelMessage, DatabaseTyped
<1>10. ASSUME NEW u \in Users, ConfirmAddress(u) PROVE DatabaseTyped'
  BY <1>3, <1>10
     DEF ConfirmAddress, DatabaseTyped
<1>11. CASE Unlist
  BY <1>3, <1>11
     DEF Unlist, DatabaseTyped
<1>12. ASSUME NEW u \in Users, ExpireRequest(u) PROVE DatabaseTyped'
  BY <1>3, <1>12
     DEF ExpireRequest, DatabaseTyped
<1>13. CASE Restart
  BY <1>3, <1>13
     DEF Restart, DatabaseTyped
<1>14. CASE (\E t \in Threads : SendPost(t)) \/ (\E e \in stale : CleanupPreparing(e))
          \/ CleanupSending \/ MovePendingToWork \/ (\E e \in stale : StartupSend(e)) \/ StartupEnd
          \/ (\E m \in drafts, to \in Receivers : Send(m, to)) \/ (\E u \in Users : RequestAddress(u))
          \/ RunQueue \/ Stop \/ Wait \/ GetNextWork \/ CheckActive \/ (\E r \in left : SendMessage(r))
          \/ (\E r \in left : AwaitConfirmation(r)) \/ (\E r \in left : AskConfirmation(r))
          \/ RemoveReceiver \/ Postprocess \/ Erase \/ RemoveFromWork
          \/ (\E m \in Ids : ExpireMessage(m)) \/ CommandFails \/ ConfirmationFails \/ WorkFails
          \/ UNCHANGED vars
  <2>1. UNCHANGED <<preparing, sending, uniqueIdMap, status>>
    BY <1>14
       DEF SendPost, CleanupPreparing, CleanupSending, MovePendingToWork, StartupSend, StartupEnd,
          Send, RequestAddress, RunQueue, Stop, Wait, GetNextWork, CheckActive, SendMessage,
          AwaitConfirmation, AskConfirmation, RemoveReceiver, Postprocess, Erase, RemoveFromWork,
          ExpireMessage, CommandFails, ConfirmationFails, WorkFails, vars, db
  <2>. QED
    BY <1>3, <2>1 DEF DatabaseTyped
<1>. QED
  BY <1>4, <1>5, <1>6, <1>7, <1>8, <1>9, <1>10, <1>11, <1>12, <1>13, <1>14, NextCases

\* What the transmitter works on has its type.
WorkTyped ==
    /\ mid \in 0..lastId /\ left \subseteq Users \cup {"mail"} /\ keep \in BOOLEAN
    /\ pc["transmitter"] \in Working => mid \in Ids

\* Steps keep that.
LEMMA WorkStep ==
    ASSUME IInv, [Next]_vars
    PROVE  WorkTyped'
<1>1. TypeOK /\ Positions /\ OneQueues /\ Matching
  BY DEF IInv
<1>2. /\ Placed /\ Ids \subseteq Ids' /\ Ids \subseteq 0..lastId
      /\ 0..lastId \subseteq 0..lastId' /\ 0 \in 0..lastId'
  <2>1. Placed /\ Ids \subseteq Ids' /\ 0..lastId \subseteq 0..lastId' /\ lastId \in Nat
    BY <1>1, DataStep, DataFacts DEF DataKept, Positions
  <2>2. 0 \in 0..lastId /\ Ids \subseteq 0..lastId
    BY <2>1 DEF Ids
  <2>. QED
    BY <2>1, <2>2
<1>3. /\ mid \in 0..lastId' /\ left \subseteq Users \cup {"mail"} /\ keep \in BOOLEAN
      /\ pc["transmitter"] \in Working => mid \in Ids'
  BY <1>1, <1>2 DEF TypeOK, Positions
<1>4. "transmitter" \in Threads /\ pc \in [Threads -> ServerAt \cup TransmitterAt]
  BY <1>1, NameFacts DEF Positions, Placed
<1>5. CASE Serves \/ Expires
  <2>1. UNCHANGED <<pc["transmitter"], work>>
    BY <1>2, <1>5, TransmitterRests, BothRest DEF Local
  <2>. QED
    BY <1>3, <2>1 DEF WorkTyped, work
<1>6. ASSUME NEW t \in Threads, RequestConfirmation(t) \/ SendMap(t) \/ SendMove(t) \/ SendPost(t)
      PROVE  WorkTyped'
  <2>1. CASE t = "server"
    <3>1. UNCHANGED <<pc["transmitter"], work>>
      <4>1. UNCHANGED pc["transmitter"]
        BY <1>2, <1>6, <2>1, NameFacts, OtherRests DEF Local
      <4>2. UNCHANGED work
        BY <1>6, <2>1 DEF RequestConfirmation, SendMap, SendMove, SendPost, Rest, work
      <4>. QED
        BY <4>1, <4>2
    <3>. QED
      BY <1>3, <3>1 DEF WorkTyped, work
  <2>2. CASE t = "transmitter"
    <3>1. mid' = mid /\ left' \subseteq left /\ keep' \in {keep, TRUE}
      BY <1>6, <2>2 DEF RequestConfirmation, SendMap, SendMove, SendPost, work
    <3>2. pc["transmitter"] \in Working
      BY <1>6, <2>2 DEF RequestConfirmation, SendMap, SendMove, SendPost, Working, Delivering
    <3>. QED
      BY <1>3, <3>1, <3>2 DEF WorkTyped
  <2>. QED
    BY <1>6, <2>1, <2>2, NameFacts
<1>7. CASE Restart
  BY <1>2, <1>7, NameFacts DEF Restart, WorkTyped, Working, Delivering
<1>8. CASE GetNextWork
  <2>1. m_workQueue # <<>> => Head(m_workQueue) \in Ids
    <3>1. m_workQueue \in Seq(Ids)
      BY <1>1 DEF TypeOK
    <3>. QED
      BY <3>1
  <2>2. CASE UNCHANGED work
    <3>1. pc'["transmitter"] \in {"ended", "wait"} \/ mid' \in Ids
      BY <1>4, <1>8, <2>1 DEF GetNextWork, Goto
    <3>. QED
      BY <1>2, <1>3, <2>2, <3>1 DEF WorkTyped, work, Working, Delivering
  <2>3. CASE m_workQueue # <<>> /\ mid' = Head(m_workQueue) /\ UNCHANGED <<left, keep>>
    BY <1>2, <1>3, <2>1, <2>3 DEF WorkTyped
  <2>. QED
    BY <1>8, <2>2, <2>3 DEF GetNextWork
<1>9. CASE Wait
  BY <1>3, <1>4, <1>9 DEF Wait, WorkTyped, Goto, work, Working, Delivering
<1>10. CASE CheckActive
  <2>1. mid \in Ids
    BY <1>1, <1>10 DEF CheckActive, Positions, Working
  <2>2. data[mid].to \subseteq Users \cup {"mail"}
    BY <1>1, <2>1, DataFacts
  <2>. QED
    BY <1>2, <1>3, <1>10, <2>1, <2>2 DEF CheckActive, WorkTyped
<1>11. CASE \/ \E r \in left : SendMessage(r) \/ AwaitConfirmation(r) \/ AskConfirmation(r)
            \/ RemoveReceiver \/ Erase \/ Unlist \/ ConfirmationFails
  <2>1. mid' = mid /\ left' \subseteq left /\ keep' \in {keep, TRUE}
    BY <1>11 DEF SendMessage, AwaitConfirmation, AskConfirmation, RemoveReceiver, Erase, Unlist,
                 ConfirmationFails, Settle, Fail, Postpone, work
  <2>2. pc["transmitter"] \in Working
    BY <1>11 DEF SendMessage, AwaitConfirmation, AskConfirmation, RemoveReceiver, Erase, Unlist,
                 ConfirmationFails, Working, Delivering
  <2>. QED
    BY <1>3, <2>1, <2>2 DEF WorkTyped
<1>12. CASE Postprocess \/ RemoveFromWork \/ WorkFails
  <2>1. \/ mid' = 0 /\ left' = {} /\ keep' = FALSE /\ pc'["transmitter"] = "wait"
        \/ UNCHANGED work /\ pc["transmitter"] \in Working
    BY <1>4, <1>12 DEF Postprocess, RemoveFromWork, WorkFails, Rest, Goto, Working, Delivering
  <2>. QED
    BY <1>2, <1>3, <2>1 DEF WorkTyped, work, Working, Delivering
<1>. QED
  BY <1>5, <1>6, <1>7, <1>8, <1>9, <1>10, <1>11, <1>12, ActorCases DEF Transmits

\* The semaphore and the request to stop have their types.
SemaphoreTyped == m_wake \in Nat /\ m_stopRequest \in BOOLEAN

\* Steps keep that.
LEMMA SemaphoreStep ==
    ASSUME IInv, [Next]_vars
    PROVE  SemaphoreTyped'
<1>1. m_wake \in Nat /\ m_stopRequest \in BOOLEAN
  BY DEF IInv, TypeOK
<1>2. Len(m_postponedMessages) \in Nat
  <2>1. m_postponedMessages \in Seq(Ids)
    BY DEF IInv, TypeOK
  <2>. QED
    BY <2>1
<1>3. ASSUME NEW t \in Threads, SendPost(t) PROVE SemaphoreTyped'
  <2>1. m_wake' = m_wake + 1 /\ UNCHANGED m_stopRequest
    BY <1>3 DEF SendPost
  <2>. QED
    BY <1>1, <2>1 DEF SemaphoreTyped
<1>4. CASE MovePendingToWork
  <2>1. m_wake' = m_wake + Len(m_postponedMessages) /\ UNCHANGED m_stopRequest
    BY <1>4 DEF MovePendingToWork
  <2>. QED
    BY <1>1, <1>2, <2>1 DEF SemaphoreTyped
<1>5. ASSUME NEW e \in stale, StartupSend(e) PROVE SemaphoreTyped'
  BY <1>1, <1>5
     DEF StartupSend, SemaphoreTyped
<1>6. CASE Stop
  BY <1>1, <1>6
     DEF Stop, SemaphoreTyped
<1>7. CASE Wait
  BY <1>1, <1>7
     DEF Wait, SemaphoreTyped
<1>8. CASE Restart
  BY <1>1, <1>8
     DEF Restart, SemaphoreTyped
<1>9. CASE (\E t \in Threads : RequestConfirmation(t)) \/ (\E t \in Threads : SendMap(t))
          \/ (\E t \in Threads : SendMove(t)) \/ (\E e \in stale : CleanupPreparing(e))
          \/ CleanupSending \/ CleanupRemove \/ StartupEnd
          \/ (\E uid \in ClientIds : StartMessage(uid))
          \/ (\E m \in drafts, to \in Receivers : Send(m, to))
          \/ (\E uid \in ClientIds \ {""} : CancelMessage(uid)) \/ (\E u \in Users : RequestAddress(u))
          \/ (\E u \in Users : ConfirmAddress(u)) \/ RunQueue \/ GetNextWork \/ CheckActive
          \/ (\E r \in left : SendMessage(r)) \/ (\E r \in left : AwaitConfirmation(r))
          \/ (\E r \in left : AskConfirmation(r)) \/ RemoveReceiver \/ Postprocess \/ Erase \/ Unlist
          \/ RemoveFromWork \/ (\E m \in Ids : ExpireMessage(m)) \/ (\E u \in Users : ExpireRequest(u))
          \/ CommandFails \/ ConfirmationFails \/ WorkFails \/ UNCHANGED vars
  <2>1. UNCHANGED <<m_wake, m_stopRequest>>
    BY <1>9
       DEF RequestConfirmation, SendMap, SendMove, CleanupPreparing, CleanupSending, CleanupRemove,
          StartupEnd, StartMessage, Send, CancelMessage, RequestAddress, ConfirmAddress, RunQueue,
          GetNextWork, CheckActive, SendMessage, AwaitConfirmation, AskConfirmation, RemoveReceiver,
          Postprocess, Erase, Unlist, RemoveFromWork, ExpireMessage, ExpireRequest, CommandFails,
          ConfirmationFails, WorkFails, vars, db, ram, work, Rest
  <2>. QED
    BY <1>1, <2>1 DEF SemaphoreTyped
<1>. QED
  BY <1>3, <1>4, <1>5, <1>6, <1>7, <1>8, <1>9, NextCases

\* Drafts are being prepared, or have just been queued.
Drafted == drafts \ preparing \subseteq { m \in {msg["server"]} : pc["server"] = "post" }

\* Steps keep that.
LEMMA DraftsStep ==
    ASSUME IInv, [Next]_vars
    PROVE  Drafted'
<1>1. TypeOK /\ Positions /\ OneQueues /\ Drafted /\ Placed
  BY DEF IInv, TypeOK, Drafted, Positions
<1>2. "server" \in Threads /\ pc \in [Threads -> ServerAt \cup TransmitterAt]
  BY <1>1, NameFacts DEF Placed
<1>3. ASSUME drafts' \subseteq drafts, preparing \subseteq preparing',
             UNCHANGED <<pc["server"], msg["server"]>> \/ pc["server"] # "post"
      PROVE  Drafted'
  <2>1. CASE pc["server"] = "post"
    BY <1>1, <1>3, <2>1 DEF Drafted
  <2>2. CASE pc["server"] # "post"
    BY <1>1, <1>3, <2>2 DEF Drafted
  <2>. QED
    BY <2>1, <2>2
<1>4. CASE Transmits
  <2>1. UNCHANGED <<drafts, preparing>>
    BY <1>4 DEF Transmits, Wait, GetNextWork, CheckActive, SendMessage, AwaitConfirmation, AskConfirmation,
                RemoveReceiver, Postprocess, Erase, Unlist, RemoveFromWork, ConfirmationFails, WorkFails,
                ram, db
  <2>. QED
    BY <1>1, <1>3, <1>4, <2>1, ServerRests DEF Local
<1>5. CASE Expires
  BY <1>3, <1>5 DEF Expires, ExpireMessage, ExpireRequest, vars, ram, db
<1>6. ASSUME NEW uid \in ClientIds, StartMessage(uid) PROVE Drafted'
  BY <1>1, <1>6 DEF StartMessage, Allocate, Drafted
<1>7. CASE Serves /\ UNCHANGED <<drafts, preparing>>
  BY <1>1, <1>3, <1>7, TransmitterRests
<1>8. CASE Serves /\ ~UNCHANGED <<drafts, preparing>>
  <2>1. \E uid \in ClientIds : StartMessage(uid)
    BY <1>8 DEF Serves, CleanupPreparing, StartupSend, CleanupSending, CleanupRemove, MovePendingToWork,
         StartupEnd, StartMessage, Send, CancelMessage, RequestAddress, ConfirmAddress, RunQueue, Stop,
         CommandFails, ram, db
  <2>. QED
    BY <1>6, <2>1
<1>9. CASE Restart
  BY <1>9 DEF Restart, Drafted
<1>10. ASSUME NEW t \in Threads, RequestConfirmation(t) PROVE Drafted'
  BY <1>1, <1>2, <1>10 DEF RequestConfirmation, Allocate, Goto, ram, Drafted, Placed
<1>11. ASSUME NEW t \in Threads, SendMap(t) PROVE Drafted'
  BY <1>1, <1>2, <1>11 DEF SendMap, Goto, ram, Drafted
<1>12. ASSUME NEW t \in Threads, SendMove(t) PROVE Drafted'
  <2>1. CASE t = "server"
    BY <1>1, <1>2, <1>12, <2>1 DEF SendMove, Goto, ram, Drafted
  <2>2. CASE t = "transmitter"
    <3>1. msg[t] \notin drafts
      BY <1>1, <1>12, <2>2 DEF SendMove, OneQueues, Queueing
    <3>. QED
      BY <1>1, <1>2, <1>12, <2>2, <3>1 DEF SendMove, Goto, ram, Drafted
  <2>. QED
    BY <2>1, <2>2, NameFacts
<1>13. ASSUME NEW t \in Threads, SendPost(t) PROVE Drafted'
  <2>1. CASE t = "server"
    BY <1>1, <1>2, <1>13, <2>1 DEF SendPost, db, Drafted
  <2>2. CASE t = "transmitter"
    <3>1. UNCHANGED <<drafts, preparing, pc["server"], msg["server"]>>
      <4>1. UNCHANGED <<drafts, preparing>>
        BY <1>13, <2>2 DEF SendPost, db
      <4>. QED
        BY <1>1, <1>2, <1>13, <2>2, <4>1, OtherRests DEF Local
    <3>. QED
      BY <1>3, <3>1
  <2>. QED
    BY <2>1, <2>2, NameFacts
<1>. QED
  BY <1>4, <1>5, <1>7, <1>8, <1>9, <1>10, <1>11, <1>12, <1>13, ActorCases

-----------------------------------------------------------------------------
(* The queues. *)

\* A message is added to the work queue.
LEMMA Pushed ==
    ASSUME Queues, NEW x \in Ids \ InMemory, m_workQueue' = Append(m_workQueue, x),
           UNCHANGED <<lastId, m_postponedMessages>>
    PROVE  /\ Queues' /\ InMemory' = InMemory \cup {x}
           /\ m_workQueue' # <<>> /\ Len(m_workQueue') = Len(m_workQueue) + 1
           /\ m_workQueue # <<>> => Head(m_workQueue') = Head(m_workQueue)
<1>1. Ids' = Ids
  BY DEF Ids
<1>2. m_workQueue \in Seq(Ids) /\ IsInjective(m_workQueue) /\ x \notin ToSet(m_workQueue)
  BY DEF Queues, InMemory
<1>3. /\ m_workQueue' \in Seq(Ids) /\ m_workQueue' # <<>> /\ IsInjective(m_workQueue')
      /\ Len(m_workQueue') = Len(m_workQueue) + 1
      /\ ToSet(m_workQueue') = ToSet(m_workQueue) \cup {x}
      /\ m_workQueue # <<>> => Head(m_workQueue') = Head(m_workQueue)
  BY <1>2, AppendOne
<1>. QED
  BY <1>1, <1>3 DEF Queues, InMemory

\* The postponed messages are moved to the work queue.
LEMMA Moved ==
    ASSUME Queues, m_workQueue' = m_workQueue \o m_postponedMessages, m_postponedMessages' = <<>>,
           UNCHANGED lastId
    PROVE  /\ Queues' /\ InMemory' = InMemory
           /\ Len(m_workQueue') = Len(m_workQueue) + Len(m_postponedMessages)
           /\ m_workQueue # <<>> => m_workQueue' # <<>> /\ Head(m_workQueue') = Head(m_workQueue)
<1>1. Ids' = Ids
  BY DEF Ids
<1>2. /\ m_workQueue' \in Seq(Ids) /\ IsInjective(m_workQueue')
      /\ Len(m_workQueue') = Len(m_workQueue) + Len(m_postponedMessages)
      /\ ToSet(m_workQueue') = ToSet(m_workQueue) \cup ToSet(m_postponedMessages)
      /\ m_workQueue # <<>> => m_workQueue' # <<>> /\ Head(m_workQueue') = Head(m_workQueue)
  BY Concatenated DEF Queues
<1>3. /\ m_postponedMessages' \in Seq(Ids) /\ IsInjective(m_postponedMessages')
      /\ ToSet(m_postponedMessages') = {}
  BY DEF IsInjective, ToSet
<1>. QED
  BY <1>1, <1>2, <1>3 DEF Queues, InMemory

\* A message is removed from the work queue.
LEMMA Dropped ==
    ASSUME Queues, NEW x \in ToSet(m_workQueue), m_workQueue' = Kept(m_workQueue, Ids \ {x}),
           UNCHANGED <<lastId, m_postponedMessages>>
    PROVE  /\ Queues' /\ InMemory' = InMemory \ {x}
           /\ Len(m_workQueue') = Len(m_workQueue) - 1
<1>1. Ids' = Ids
  BY DEF Ids
<1>2. /\ m_workQueue' \in Seq(Ids) /\ IsInjective(m_workQueue')
      /\ ToSet(m_workQueue') = ToSet(m_workQueue) \ {x}
      /\ Len(m_workQueue') = Len(m_workQueue) - 1
  <2>1. m_workQueue \in Seq(Ids) /\ IsInjective(m_workQueue)
    BY DEF Queues
  <2>. QED
    BY <2>1, RemovedOne
<1>. QED
  BY <1>1, <1>2 DEF Queues, InMemory

\* A message is moved to the postponed ones.
LEMMA Postponed ==
    ASSUME Queues, NEW x \in ToSet(m_workQueue), m_workQueue' = Kept(m_workQueue, Ids \ {x}),
           m_postponedMessages' = Append(m_postponedMessages, x), UNCHANGED lastId
    PROVE  /\ Queues' /\ InMemory' = InMemory
           /\ Len(m_workQueue') = Len(m_workQueue) - 1
<1>1. Ids' = Ids
  BY DEF Ids
<1>2. /\ m_workQueue' \in Seq(Ids) /\ IsInjective(m_workQueue')
      /\ ToSet(m_workQueue') = ToSet(m_workQueue) \ {x}
      /\ Len(m_workQueue') = Len(m_workQueue) - 1
  <2>1. m_workQueue \in Seq(Ids) /\ IsInjective(m_workQueue)
    BY DEF Queues
  <2>. QED
    BY <2>1, RemovedOne
<1>3. /\ m_postponedMessages \in Seq(Ids) /\ IsInjective(m_postponedMessages)
      /\ x \in Ids /\ x \notin ToSet(m_postponedMessages)
  BY DEF Queues, ToSet
<1>4. /\ m_postponedMessages' \in Seq(Ids) /\ IsInjective(m_postponedMessages')
      /\ ToSet(m_postponedMessages') = ToSet(m_postponedMessages) \cup {x}
  BY <1>3, AppendOne
<1>. QED
  BY <1>1, <1>2, <1>4 DEF Queues, InMemory

\* The message worked on is in the work queue.
LEMMA WorkQueued ==
    ASSUME Queues, AtHead, pc["transmitter"] \in Working
    PROVE  mid \in ToSet(m_workQueue) /\ mid \in InMemory
<1>1. m_workQueue # <<>> /\ m_workQueue \in Seq(Ids) /\ Head(m_workQueue) = mid
  BY DEF AtHead, Queues
<1>. QED
  BY <1>1, HeadTail DEF InMemory

\* The queues do not depend on how many messages there are.
LEMMA QueuesKept ==
    ASSUME Queues, Ids \subseteq Ids', UNCHANGED <<m_workQueue, m_postponedMessages>>
    PROVE  Queues' /\ InMemory' = InMemory
<1>1. Seq(Ids) \subseteq Seq(Ids')
  OBVIOUS
<1>. QED
  BY <1>1 DEF Queues, InMemory

\* What is due and what is being removed stays the same, and so do the queues.
LEMMA MatchingKept ==
    ASSUME Matching, InMemory' = InMemory, UNCHANGED sending, InMemory \cap preparing' = {},
           \A t \in Threads : /\ pc'[t] = "post" <=> pc[t] = "post"
                              /\ pc[t] = "post" => UNCHANGED msg[t],
           pc'["server"] = "startup" <=> pc["server"] = "startup",
           pc["server"] = "startup" => UNCHANGED stale,
           pc'["transmitter"] = "unqueue" <=> pc["transmitter"] = "unqueue",
           pc["transmitter"] = "unqueue" => UNCHANGED mid
    PROVE  Matching'
<1>1. \A m : IsDue(m)' <=> IsDue(m)
  BY DEF IsDue
<1>2. pc'["transmitter"] = "post" <=> pc["transmitter"] = "post"
  BY NameFacts
<1>3. pc["transmitter"] = "post" => UNCHANGED msg["transmitter"]
  BY NameFacts
<1>4. pc'["server"] = "startup" =>
         \A e \in stale' : /\ e[1] = ""
                           /\ pc'["transmitter"] = "post" => e[2] # msg'["transmitter"]
  BY <1>2, <1>3 DEF Matching
<1>. QED
  BY <1>1, <1>4 DEF Matching

\* The transmitter's steps that change no set of messages
Processes ==
    \/ Wait \/ GetNextWork \/ CheckActive
    \/ \E r \in left : SendMessage(r) \/ AwaitConfirmation(r) \/ AskConfirmation(r)
    \/ RemoveReceiver \/ Erase \/ ConfirmationFails \/ WorkFails

\* In such a step, the message worked on stays at the head of the queue.
LEMMA ProcessesFacts ==
    ASSUME Placed, AtHead, Processes
    PROVE  /\ UNCHANGED <<lastId, preparing, sending, m_workQueue, m_postponedMessages, stale>>
           /\ pc["transmitter"] \notin {"post", "unqueue"} /\ pc'["transmitter"] \notin {"post", "unqueue"}
           /\ AtHead'
<1>1. pc \in [Threads -> ServerAt \cup TransmitterAt]
  BY DEF Placed
<1>2. UNCHANGED <<lastId, preparing, sending, m_workQueue, m_postponedMessages, stale>>
  BY DEF Processes, Wait, GetNextWork, CheckActive, SendMessage, AwaitConfirmation, AskConfirmation,
         RemoveReceiver, Erase, ConfirmationFails, WorkFails, ram, db
<1>3. pc["transmitter"] \notin {"post", "unqueue"}
  BY DEF Processes, Wait, GetNextWork, CheckActive, SendMessage, AwaitConfirmation, AskConfirmation,
         RemoveReceiver, Erase, ConfirmationFails, WorkFails
<1>4. pc'["transmitter"] \notin {"post", "unqueue"}
  BY <1>1, NameFacts
     DEF Processes, Wait, GetNextWork, CheckActive, SendMessage, AwaitConfirmation, AskConfirmation,
         RemoveReceiver, Erase, ConfirmationFails, WorkFails, Goto, Rest, Settle, Fail, Postpone
<1>5. ASSUME GetNextWork PROVE AtHead'
  <2>1. \/ pc'["transmitter"] \in {"wait", "ended"}
        \/ m_workQueue # <<>> /\ mid' = Head(m_workQueue)
    BY <1>1, <1>5, NameFacts DEF GetNextWork, Goto
  <2>. QED
    BY <1>2, <2>1 DEF AtHead, Working, Delivering
<1>6. ASSUME Wait PROVE AtHead'
  <2>1. pc'["transmitter"] = "fetch"
    BY <1>1, <1>6, NameFacts DEF Wait, Goto
  <2>. QED
    BY <2>1 DEF AtHead, Working, Delivering
<1>7. ASSUME WorkFails PROVE AtHead'
  <2>1. pc'["transmitter"] = "wait"
    BY <1>1, <1>7, NameFacts DEF WorkFails, Goto, Rest
  <2>. QED
    BY <2>1 DEF AtHead, Working, Delivering
<1>8. ASSUME Processes, ~GetNextWork, ~Wait, ~WorkFails PROVE AtHead'
  <2>1. m_workQueue' = m_workQueue /\ mid' = mid
    BY <1>8 DEF Processes, CheckActive, SendMessage, AwaitConfirmation, AskConfirmation,
         RemoveReceiver, Erase, ConfirmationFails, ram, work
  <2>2. pc["transmitter"] \in Working
    BY <1>8 DEF Processes, CheckActive, SendMessage, AwaitConfirmation, AskConfirmation,
         RemoveReceiver, Erase, ConfirmationFails, Working, Delivering
  <2>3. m_workQueue # <<>> /\ Head(m_workQueue) = mid
    BY <2>2 DEF AtHead
  <2>. QED
    BY <2>1, <2>3 DEF AtHead
<1>. QED
  BY <1>2, <1>3, <1>4, <1>5, <1>6, <1>7, <1>8

\* The server's steps that change neither a queue nor what it is about to queue
Commands ==
    \/ \E e \in stale : CleanupPreparing(e)
    \/ CleanupSending \/ CleanupRemove
    \/ \E uid \in ClientIds : StartMessage(uid)
    \/ \E m \in drafts, to \in Receivers : Send(m, to)
    \/ \E uid \in ClientIds \ {""} : CancelMessage(uid)
    \/ \E u \in Users : RequestAddress(u) \/ ConfirmAddress(u)
    \/ RunQueue \/ Stop \/ CommandFails

\* What they change is the set of messages in preparation, at most.
LEMMA CommandsFacts ==
    ASSUME Placed, TypeOK, Commands
    PROVE  /\ UNCHANGED <<sending, m_workQueue, m_postponedMessages>>
           /\ pc["server"] \notin {"post", "startup"} /\ pc'["server"] \notin {"post", "startup"}
           /\ preparing' \cap Ids \subseteq preparing
<1>1. pc \in [Threads -> ServerAt \cup TransmitterAt]
  BY DEF Placed
<1>2. UNCHANGED <<sending, m_workQueue, m_postponedMessages>>
  BY DEF Commands, CleanupPreparing, CleanupSending, CleanupRemove, StartMessage, Send, CancelMessage,
         RequestAddress, ConfirmAddress, RunQueue, Stop, CommandFails, ram, db
<1>3. pc["server"] \notin {"post", "startup"}
  BY DEF Commands, CleanupPreparing, CleanupSending, CleanupRemove, StartMessage, Send, CancelMessage,
         RequestAddress, ConfirmAddress, RunQueue, Stop, CommandFails
<1>4. pc'["server"] \notin {"post", "startup"}
  BY <1>1, NameFacts
     DEF Commands, CleanupPreparing, CleanupSending, CleanupRemove, StartMessage, Send, CancelMessage,
         RequestAddress, ConfirmAddress, RunQueue, Stop, CommandFails, Goto, Rest
<1>5. preparing' = preparing \/ \E uid \in ClientIds : StartMessage(uid)
  BY DEF Commands, CleanupPreparing, CleanupSending, CleanupRemove, Send, CancelMessage,
         RequestAddress, ConfirmAddress, RunQueue, Stop, CommandFails, db
<1>6. ASSUME NEW uid \in ClientIds, StartMessage(uid) PROVE preparing' \cap Ids \subseteq preparing
  <2>1. lastId \in Nat
    BY DataFacts
  <2>2. lastId + 1 \notin Ids
    BY <2>1 DEF Ids
  <2>. QED
    BY <1>6, <2>2 DEF StartMessage, Allocate
<1>. QED
  BY <1>2, <1>3, <1>4, <1>5, <1>6

\* Every step keeps the queues as they are to be.
QueuesRight == Queues /\ Matching /\ AtHead

\* What queueing a message does to them
LEMMA QueueingMatches ==
    ASSUME IInv, Ids \subseteq Ids', NEW t \in Threads,
           RequestConfirmation(t) \/ SendMap(t) \/ SendMove(t) \/ SendPost(t)
    PROVE  QueuesRight'
<1>1. TypeOK /\ Positions /\ OneQueues /\ Queues /\ Matching /\ AtHead /\ Placed
  BY DEF IInv, Positions
<1>2. /\ pc \in [Threads -> ServerAt \cup TransmitterAt] /\ msg \in [Threads -> 0..lastId]
      /\ lastId \in Nat /\ preparing \subseteq Ids /\ sending \subseteq Ids
      /\ preparing \cap sending = {} /\ InMemory \subseteq Ids
  <2>1. InMemory \subseteq Ids
    BY <1>1 DEF Queues, InMemory, ToSet
  <2>. QED
    BY <1>1, <2>1 DEF Placed, TypeOK
<1>3. \A x \in Threads \ {t} : pc'[x] = pc[x] /\ msg'[x] = msg[x] /\ who'[x] = who[x]
  BY <1>1, OtherRests DEF Local
<1>4. CASE RequestConfirmation(t)
  <2>1. /\ UNCHANGED <<sending, m_workQueue, m_postponedMessages, stale, mid>>
        /\ pc[t] = "request" /\ pc'[t] = "map"
        /\ lastId' = lastId + 1 /\ preparing' = preparing \cup {lastId'}
    BY <1>2, <1>4 DEF RequestConfirmation, Allocate, Goto, ram, work
  <2>2. Queues' /\ InMemory' = InMemory
    BY <1>1, <2>1, QueuesKept
  <2>3. lastId' \notin InMemory
    BY <1>2, <2>1 DEF Ids
  <2>4. InMemory \cap preparing' = {}
    BY <1>1, <2>1, <2>3 DEF Matching
  <2>5. Matching'
    BY <1>1, <1>3, <2>1, <2>2, <2>4, NameFacts, MatchingKept
  <2>6. AtHead'
    <3>1. pc'["transmitter"] \in Working => pc["transmitter"] \in Working
      BY <1>3, <2>1, NameFacts DEF Working, Delivering
    <3>. QED
      BY <1>1, <2>1, <3>1 DEF AtHead
  <2>. QED
    BY <2>2, <2>5, <2>6 DEF QueuesRight
<1>5. CASE SendMap(t)
  <2>1. /\ UNCHANGED <<sending, preparing, m_workQueue, m_postponedMessages, stale, mid>>
        /\ pc[t] = "map" /\ pc'[t] = "move"
    BY <1>2, <1>5 DEF SendMap, Goto, ram, work
  <2>2. Queues' /\ InMemory' = InMemory
    BY <1>1, <2>1, QueuesKept
  <2>3. Matching'
    <3>1. InMemory \cap preparing' = {}
      BY <1>1, <2>1 DEF Matching
    <3>. QED
      BY <1>1, <1>3, <2>1, <2>2, <3>1, NameFacts, MatchingKept
  <2>4. AtHead'
    <3>1. pc'["transmitter"] \in Working => pc["transmitter"] \in Working
      BY <1>3, <2>1, NameFacts DEF Working, Delivering
    <3>. QED
      BY <1>1, <2>1, <3>1 DEF AtHead
  <2>. QED
    BY <2>2, <2>3, <2>4 DEF QueuesRight
<1>6. CASE SendMove(t)
  <2> DEFINE m == msg[t]
  <2>1. /\ UNCHANGED <<m_workQueue, m_postponedMessages, stale, mid, msg>>
        /\ pc[t] = "move" /\ pc'[t] = "post"
        /\ preparing' = preparing \ {m} /\ sending' = sending \cup {m}
    BY <1>2, <1>6 DEF SendMove, Goto, ram, work
  <2>2. m \in preparing
    BY <1>1, <2>1 DEF OneQueues
  <2>3. m \notin InMemory /\ m \notin sending
    BY <1>1, <1>2, <2>2 DEF Matching
  <2>4. \A x \in Threads \ {t} : pc[x] = "post" => msg[x] # m
    <3>1. ASSUME NEW x \in Threads \ {t}, pc[x] = "post", msg[x] = m PROVE FALSE
      <4>1. IsDue(m)
        BY <3>1 DEF IsDue
      <4>. QED
        BY <1>1, <2>3, <4>1 DEF Matching
    <3>. QED
      BY <3>1
  <2> HIDE DEF m
  <2>5. Queues' /\ InMemory' = InMemory
    BY <1>1, <2>1, QueuesKept
  <2>6. pc'["server"] = "startup" <=> pc["server"] = "startup"
    BY <1>3, <2>1, NameFacts
  <2>7. \A d : IsDue(d)' <=> IsDue(d) \/ d = m
    <3>1. \A d : (\E x \in Threads : pc'[x] = "post" /\ msg'[x] = d)
                  <=> (\E x \in Threads : pc[x] = "post" /\ msg[x] = d) \/ d = m
      BY <1>3, <2>1 DEF m
    <3>. QED
      BY <2>1, <2>6, <3>1 DEF IsDue
  <2>8. \A d \in InMemory' : d \notin sending' => d = mid' /\ pc'["transmitter"] = "unqueue"
    <3>1. pc["transmitter"] = "unqueue" => pc'["transmitter"] = "unqueue"
      BY <1>3, <2>1, NameFacts
    <3>. QED
      BY <1>1, <2>1, <2>5, <3>1 DEF Matching
  <2>9. \A d : IsDue(d)' => d \in sending' \ InMemory'
    BY <1>1, <2>1, <2>3, <2>5, <2>7 DEF Matching
  <2>10. \A d \in sending' : d \notin InMemory' => IsDue(d)'
    BY <1>1, <2>1, <2>5, <2>7 DEF Matching
  <2>11. pc'["server"] = "startup" =>
         \A e \in stale' : e[1] = "" /\ (pc'["transmitter"] = "post" => e[2] # msg'["transmitter"])
    <3>1. SUFFICES ASSUME pc'["server"] = "startup", NEW e \in stale
                   PROVE  e[1] = "" /\ (pc'["transmitter"] = "post" => e[2] # msg["transmitter"])
      BY <2>1
    <3>2. e[1] = "" /\ (pc["transmitter"] = "post" => e[2] # msg["transmitter"])
      BY <1>1, <2>6, <3>1 DEF Matching
    <3>3. IsDue(e[2])
      BY <2>6, <3>1 DEF IsDue
    <3>4. e[2] # m
      BY <1>1, <2>3, <3>3 DEF Matching
    <3>5. t # "transmitter" => (pc'["transmitter"] = pc["transmitter"])
      BY <1>3, NameFacts
    <3>. QED
      BY <3>2, <3>4, <3>5 DEF m
  <2>12. pc'["transmitter"] = "unqueue" => mid' \notin sending'
    <3>1. pc'["transmitter"] = "unqueue" => pc["transmitter"] = "unqueue"
      BY <1>3, <2>1, NameFacts
    <3>2. pc["transmitter"] = "unqueue" => mid \in InMemory /\ mid \notin sending
      BY <1>1, WorkQueued DEF Matching, Working
    <3>. QED
      BY <2>1, <2>3, <3>1, <3>2
  <2>13. InMemory' \cap preparing' = {}
    BY <1>1, <2>1, <2>5 DEF Matching
  <2>14. Matching'
    BY <2>8, <2>9, <2>10, <2>11, <2>12, <2>13 DEF Matching
  <2>15. AtHead'
    <3>1. pc'["transmitter"] \in Working => pc["transmitter"] \in Working
      BY <1>3, <2>1, NameFacts DEF Working, Delivering
    <3>. QED
      BY <1>1, <2>1, <3>1 DEF AtHead
  <2>. QED
    BY <2>5, <2>14, <2>15 DEF QueuesRight
<1>7. CASE SendPost(t)
  <2> DEFINE m == msg[t]
  <2>1. /\ UNCHANGED <<lastId, sending, preparing, m_postponedMessages, stale>>
        /\ pc[t] = "post" /\ m_workQueue' = Append(m_workQueue, m)
    BY <1>7 DEF SendPost, db
  <2>2. pc'[t] \in {"idle", "deliver"} /\ UNCHANGED mid
    <3>1. CASE t = "server"
      BY <1>2, <1>7, <3>1 DEF SendPost, Rest, Goto, work
    <3>2. CASE t = "transmitter"
      BY <1>2, <1>7, <3>2 DEF SendPost, Goto
    <3>. QED
      BY <3>1, <3>2, NameFacts
  <2>3. IsDue(m)
    BY <2>1 DEF IsDue
  <2>4. m \in sending /\ m \in Ids \ InMemory
    BY <1>1, <1>2, <2>3 DEF Matching
  <2>5. \A x \in Threads \ {t} : pc[x] = "post" => msg[x] # m
    BY <1>1, <2>1, NameFacts DEF OneQueues, Queueing
  <2>6. pc["server"] = "startup" => \A e \in stale : e[2] # m
    <3>1. pc["server"] = "startup" => t = "transmitter"
      BY <2>1, NameFacts
    <3>. QED
      BY <1>1, <2>1, <3>1 DEF Matching
  <2> HIDE DEF m
  <2>7. /\ Queues' /\ InMemory' = InMemory \cup {m}
        /\ m_workQueue' # <<>> /\ (m_workQueue # <<>> => Head(m_workQueue') = Head(m_workQueue))
    BY <1>1, <2>1, <2>4, Pushed
  <2>8. pc'["server"] = "startup" <=> pc["server"] = "startup"
    BY <1>3, <2>1, <2>2, NameFacts
  <2>9. \A d : IsDue(d)' <=> IsDue(d) /\ d # m
    <3>1. \A d : (\E x \in Threads : pc'[x] = "post" /\ msg'[x] = d)
                  <=> (\E x \in Threads : pc[x] = "post" /\ msg[x] = d) /\ d # m
      BY <1>3, <2>1, <2>2, <2>5 DEF m
    <3>. QED
      BY <2>1, <2>6, <2>8, <3>1 DEF IsDue
  <2>10. /\ \A d \in InMemory' : d \notin sending' => d = mid' /\ pc'["transmitter"] = "unqueue"
         /\ InMemory' \cap preparing' = {}
    <3>1. pc["transmitter"] = "unqueue" => pc'["transmitter"] = "unqueue"
      BY <1>3, <2>1, NameFacts
    <3>. QED
      BY <1>1, <1>2, <2>1, <2>2, <2>4, <2>7, <3>1 DEF Matching
  <2>11. /\ \A d : IsDue(d)' => d \in sending' \ InMemory'
         /\ \A d \in sending' : d \notin InMemory' => IsDue(d)'
    BY <1>1, <2>1, <2>7, <2>9 DEF Matching
  <2>12. pc'["server"] = "startup" =>
         \A e \in stale' : e[1] = "" /\ (pc'["transmitter"] = "post" => e[2] # msg'["transmitter"])
    <3>1. pc'["transmitter"] = "post" =>
            pc["transmitter"] = "post" /\ msg'["transmitter"] = msg["transmitter"]
      BY <1>3, <2>2, NameFacts
    <3>. QED
      BY <1>1, <2>1, <2>8, <3>1 DEF Matching
  <2>13. pc'["transmitter"] = "unqueue" => mid' \notin sending'
    <3>1. pc'["transmitter"] = "unqueue" => pc["transmitter"] = "unqueue"
      BY <1>3, <2>2, NameFacts
    <3>. QED
      BY <1>1, <2>1, <2>2, <3>1 DEF Matching
  <2>14. Matching'
    BY <2>10, <2>11, <2>12, <2>13 DEF Matching
  <2>15. AtHead'
    <3>1. pc'["transmitter"] \in Working => pc["transmitter"] \in Working
      BY <1>3, <2>1, <2>2, NameFacts DEF Working, Delivering
    <3>. QED
      BY <1>1, <2>2, <2>7, <3>1 DEF AtHead
  <2>. QED
    BY <2>7, <2>14, <2>15 DEF QueuesRight
<1>. QED
  BY <1>4, <1>5, <1>6, <1>7

\* What the server does to them
LEMMA ServingMatches ==
    ASSUME IInv, Ids \subseteq Ids', Serves
    PROVE  QueuesRight'
<1>1. TypeOK /\ Positions /\ Queues /\ Matching /\ AtHead /\ Placed
  BY DEF IInv, Positions
<1>2. /\ pc \in [Threads -> ServerAt \cup TransmitterAt] /\ stale \subseteq (Uids \cup {""}) \X Ids
      /\ InMemory \subseteq Ids /\ lastId \in Nat
  <2>1. InMemory \subseteq Ids
    BY <1>1 DEF Queues, InMemory, ToSet
  <2>. QED
    BY <1>1, <2>1 DEF Placed, Positions, TypeOK
<1>3. /\ pc'["transmitter"] = pc["transmitter"] /\ msg'["transmitter"] = msg["transmitter"]
      /\ mid' = mid /\ pc["server"] # "post"
  BY <1>1, TransmitterRests DEF Local, work
<1>4. CASE Commands
  <2>1. /\ UNCHANGED <<sending, m_workQueue, m_postponedMessages>>
        /\ pc["server"] \notin {"post", "startup"} /\ pc'["server"] \notin {"post", "startup"}
        /\ preparing' \cap Ids \subseteq preparing
    BY <1>1, <1>4, CommandsFacts
  <2>2. Queues' /\ InMemory' = InMemory
    BY <1>1, <2>1, QueuesKept
  <2>3. InMemory \cap preparing' = {}
    BY <1>1, <1>2, <2>1 DEF Matching
  <2>4. Matching'
    BY <1>1, <1>3, <2>1, <2>2, <2>3, NameFacts, MatchingKept
  <2>5. AtHead'
    BY <1>1, <1>3, <2>1 DEF AtHead
  <2>. QED
    BY <2>2, <2>4, <2>5 DEF QueuesRight
<1>5. CASE MovePendingToWork
  <2>1. /\ m_workQueue' = m_workQueue \o m_postponedMessages /\ m_postponedMessages' = <<>>
        /\ UNCHANGED <<lastId, sending, preparing>>
        /\ pc["server"] \in {"runqueue", "cleanup"}
    BY <1>5 DEF MovePendingToWork, db
  <2>2. pc'["server"] = "idle"
    BY <1>2, <1>5, NameFacts DEF MovePendingToWork, Rest, Goto
  <2>3. /\ Queues' /\ InMemory' = InMemory
        /\ m_workQueue # <<>> => m_workQueue' # <<>> /\ Head(m_workQueue') = Head(m_workQueue)
    BY <1>1, <2>1, Moved
  <2>4. InMemory \cap preparing' = {}
    BY <1>1, <2>1 DEF Matching
  <2>5. Matching'
    BY <1>1, <1>3, <2>1, <2>2, <2>3, <2>4, NameFacts, MatchingKept
  <2>6. AtHead'
    BY <1>1, <1>3, <2>3 DEF AtHead
  <2>. QED
    BY <2>3, <2>5, <2>6 DEF QueuesRight
<1>6. ASSUME NEW e \in stale, StartupSend(e) PROVE QueuesRight'
  <2> DEFINE m == e[2]
  <2>1. /\ UNCHANGED <<lastId, sending, preparing, m_postponedMessages, pc, msg, mid>>
        /\ pc["server"] = "startup" /\ stale' = stale \ {e} /\ m_workQueue' = Append(m_workQueue, m)
    BY <1>6 DEF StartupSend, db, work
  <2>2. IsDue(m)
    BY <2>1 DEF IsDue
  <2>3. m \in sending /\ m \in Ids \ InMemory
    BY <1>1, <2>2 DEF Matching, TypeOK
  <2>4. /\ \A d \in stale' : d[2] # m
        /\ pc["transmitter"] = "post" => msg["transmitter"] # m
    <3>1. ASSUME NEW d \in stale, d[2] = m PROVE d = e
      <4>1. d[1] = "" /\ e[1] = ""
        BY <1>1, <2>1 DEF Matching
      <4>2. d = <<d[1], d[2]>> /\ e = <<e[1], e[2]>>
        <5>1. \A A, B : \A x \in A \X B : x = <<x[1], x[2]>>
          OBVIOUS
        <5>. QED
          BY <1>2, <5>1
      <4>. QED
        BY <3>1, <4>1, <4>2
    <3>. QED
      BY <1>1, <2>1, <3>1 DEF Matching
  <2>5. \A x \in Threads : pc[x] = "post" => msg[x] # m
    BY <2>1, <2>4, NameFacts
  <2>6. \A d \in stale : d # e => d \in stale'
    BY <2>1
  <2> HIDE DEF m
  <2>7. /\ Queues' /\ InMemory' = InMemory \cup {m}
        /\ m_workQueue' # <<>> /\ (m_workQueue # <<>> => Head(m_workQueue') = Head(m_workQueue))
    BY <1>1, <2>1, <2>3, Pushed
  <2>8. \A d : IsDue(d)' <=> IsDue(d) /\ d # m
    <3>1. \A d : (\E x \in stale' : x[2] = d) <=> (\E x \in stale : x[2] = d) /\ d # m
      BY <2>1, <2>4, <2>6 DEF m
    <3>. QED
      BY <2>1, <2>5, <3>1 DEF IsDue
  <2>9. Matching'
    <3>1. /\ \A d \in InMemory' : d \notin sending' => d = mid' /\ pc'["transmitter"] = "unqueue"
          /\ InMemory' \cap preparing' = {}
      BY <1>1, <2>1, <2>3, <2>7 DEF Matching, TypeOK
    <3>2. /\ \A d : IsDue(d)' => d \in sending' \ InMemory'
          /\ \A d \in sending' : d \notin InMemory' => IsDue(d)'
      BY <1>1, <2>1, <2>7, <2>8 DEF Matching
    <3>3. /\ pc'["server"] = "startup" =>
             \A d \in stale' : d[1] = "" /\ (pc'["transmitter"] = "post" => d[2] # msg'["transmitter"])
          /\ pc'["transmitter"] = "unqueue" => mid' \notin sending'
      BY <1>1, <2>1 DEF Matching
    <3>. QED
      BY <3>1, <3>2, <3>3 DEF Matching
  <2>10. AtHead'
    BY <1>1, <1>3, <2>7 DEF AtHead
  <2>. QED
    BY <2>7, <2>9, <2>10 DEF QueuesRight
<1>7. CASE StartupEnd
  <2>1. /\ UNCHANGED <<sending, preparing, m_workQueue, m_postponedMessages, msg>>
        /\ pc["server"] = "startup" /\ stale = {}
    BY <1>7 DEF StartupEnd, db, ram
  <2>2. pc'["server"] = "idle"
    BY <1>2, <1>7, NameFacts DEF StartupEnd, Goto
  <2>3. Queues' /\ InMemory' = InMemory
    BY <1>1, <2>1, QueuesKept
  <2>4. \A d : IsDue(d)' <=> IsDue(d)
    <3>1. \A d : (\E x \in Threads : pc'[x] = "post" /\ msg'[x] = d)
                  <=> (\E x \in Threads : pc[x] = "post" /\ msg[x] = d)
      BY <1>3, <2>1, <2>2, NameFacts
    <3>. QED
      BY <2>1, <2>2, <3>1 DEF IsDue
  <2>5. Matching'
    BY <1>1, <1>3, <2>1, <2>2, <2>3, <2>4 DEF Matching
  <2>6. AtHead'
    BY <1>1, <1>3, <2>1 DEF AtHead
  <2>. QED
    BY <2>3, <2>5, <2>6 DEF QueuesRight
<1>. QED
  BY <1>4, <1>5, <1>6, <1>7 DEF Serves, Commands

\* What the transmitter does to them
LEMMA TransmittingMatches ==
    ASSUME IInv, Ids \subseteq Ids', Transmits
    PROVE  QueuesRight'
<1>1. TypeOK /\ Positions /\ Queues /\ Matching /\ AtHead /\ Placed
  BY DEF IInv, Positions
<1>2. pc \in [Threads -> ServerAt \cup TransmitterAt]
  BY <1>1 DEF Placed
<1>3. /\ pc'["server"] = pc["server"] /\ msg'["server"] = msg["server"] /\ UNCHANGED stale
      /\ pc["transmitter"] # "post"
  <2>1. UNCHANGED stale
    BY DEF Transmits, Wait, GetNextWork, CheckActive, SendMessage, AwaitConfirmation, AskConfirmation,
           RemoveReceiver, Postprocess, Erase, Unlist, RemoveFromWork, ConfirmationFails, WorkFails
  <2>. QED
    BY <1>1, <2>1, ServerRests DEF Local
<1>4. CASE Processes
  <2>1. /\ UNCHANGED <<sending, preparing, m_workQueue, m_postponedMessages>> /\ AtHead'
        /\ pc["transmitter"] \notin {"post", "unqueue"} /\ pc'["transmitter"] \notin {"post", "unqueue"}
    BY <1>1, <1>4, ProcessesFacts
  <2>2. Queues' /\ InMemory' = InMemory
    BY <1>1, <2>1, QueuesKept
  <2>3. InMemory \cap preparing' = {}
    BY <1>1, <2>1 DEF Matching
  <2>4. Matching'
    BY <1>1, <1>3, <2>1, <2>2, <2>3, NameFacts, MatchingKept
  <2>. QED
    BY <2>1, <2>2, <2>4 DEF QueuesRight
<1>5. CASE Postprocess
  <2>1. /\ UNCHANGED <<lastId, sending, preparing>> /\ pc["transmitter"] = "deliver"
        /\ InMemory \cap preparing' = {}
    BY <1>1, <1>5 DEF Postprocess, db, Matching
  <2>2. mid \in ToSet(m_workQueue)
    BY <1>1, <2>1, WorkQueued DEF Working, Delivering
  <2>3. CASE keep
    <3>1. /\ m_workQueue' = Kept(m_workQueue, Ids \ {mid})
          /\ m_postponedMessages' = Append(m_postponedMessages, mid)
      BY <1>5, <2>3 DEF Postprocess
    <3>2. pc'["transmitter"] = "wait"
      BY <1>2, <1>5, <2>3, NameFacts DEF Postprocess, Rest, Goto
    <3>3. Queues' /\ InMemory' = InMemory
      BY <1>1, <2>1, <2>2, <3>1, Postponed
    <3>4. Matching'
      BY <1>1, <1>3, <2>1, <3>2, <3>3, NameFacts, MatchingKept
    <3>5. AtHead'
      BY <3>2 DEF AtHead, Working, Delivering
    <3>. QED
      BY <3>3, <3>4, <3>5 DEF QueuesRight
  <2>4. CASE ~keep
    <3>1. UNCHANGED <<m_workQueue, m_postponedMessages, mid>>
      BY <1>5, <2>4 DEF Postprocess, work
    <3>2. pc'["transmitter"] = "erase"
      BY <1>2, <1>5, <2>4, NameFacts DEF Postprocess, Goto
    <3>3. Queues' /\ InMemory' = InMemory
      BY <1>1, <3>1, QueuesKept
    <3>4. Matching'
      BY <1>1, <1>3, <2>1, <3>2, <3>3, NameFacts, MatchingKept
    <3>5. AtHead'
      BY <1>1, <2>1, <3>1 DEF AtHead, Working, Delivering
    <3>. QED
      BY <3>3, <3>4, <3>5 DEF QueuesRight
  <2>. QED
    BY <2>3, <2>4
<1>6. CASE Unlist
  <2>1. /\ UNCHANGED <<preparing, m_workQueue, m_postponedMessages, mid>> /\ pc["transmitter"] = "unlist"
        /\ sending' = sending \ {mid}
    BY <1>6 DEF Unlist, ram, work
  <2>2. pc'["transmitter"] = "unqueue"
    BY <1>2, <1>6, NameFacts DEF Unlist, Goto
  <2>3. Queues' /\ InMemory' = InMemory
    BY <1>1, <2>1, QueuesKept
  <2>4. mid \in InMemory
    BY <1>1, <2>1, WorkQueued DEF Working
  <2>5. \A d : IsDue(d)' <=> IsDue(d)
    BY <1>3, <2>1, <2>2, NameFacts DEF IsDue
  <2>6. Matching'
    BY <1>1, <1>3, <2>1, <2>2, <2>3, <2>4, <2>5 DEF Matching
  <2>7. AtHead'
    BY <1>1, <2>1 DEF AtHead, Working
  <2>. QED
    BY <2>3, <2>6, <2>7 DEF QueuesRight
<1>7. CASE RemoveFromWork
  <2>1. /\ UNCHANGED <<lastId, sending, preparing, m_postponedMessages>> /\ pc["transmitter"] = "unqueue"
        /\ m_workQueue' = Kept(m_workQueue, Ids \ {mid})
    BY <1>7 DEF RemoveFromWork, db
  <2>2. pc'["transmitter"] = "wait"
    BY <1>2, <1>7, NameFacts DEF RemoveFromWork, Rest, Goto
  <2>3. mid \in ToSet(m_workQueue)
    BY <1>1, <2>1, WorkQueued DEF Working
  <2>4. Queues' /\ InMemory' = InMemory \ {mid}
    BY <1>1, <2>1, <2>3, Dropped
  <2>5. \A d : IsDue(d)' <=> IsDue(d)
    BY <1>3, <2>1, <2>2, NameFacts DEF IsDue
  <2>6. Matching'
    BY <1>1, <1>3, <2>1, <2>2, <2>4, <2>5 DEF Matching
  <2>7. AtHead'
    BY <2>2 DEF AtHead, Working, Delivering
  <2>. QED
    BY <2>4, <2>6, <2>7 DEF QueuesRight
<1>. QED
  BY <1>4, <1>5, <1>6, <1>7 DEF Transmits, Processes

\* Every step keeps the queues right.
LEMMA QueuesStep ==
    ASSUME IInv, [Next]_vars
    PROVE  QueuesRight'
<1>1. TypeOK /\ Positions /\ Queues /\ Matching /\ AtHead /\ Ids \subseteq Ids'
  BY DataStep DEF IInv, DataKept
<1>2. CASE Expires
  <2>1. /\ UNCHANGED <<sending, preparing, m_workQueue, m_postponedMessages, stale, pc, msg, mid>>
    BY <1>2 DEF Expires, ExpireMessage, ExpireRequest, vars, ram, work, db
  <2>2. Queues' /\ InMemory' = InMemory
    BY <1>1, <2>1, QueuesKept
  <2>3. InMemory \cap preparing' = {}
    BY <1>1, <2>1 DEF Matching
  <2>4. Matching'
    BY <1>1, <2>1, <2>2, <2>3, MatchingKept
  <2>5. AtHead'
    BY <1>1, <2>1 DEF AtHead
  <2>. QED
    BY <2>2, <2>4, <2>5 DEF QueuesRight
<1>3. CASE Restart
  <2>1. /\ UNCHANGED sending /\ preparing' = {} /\ stale' = {""} \X sending
        /\ m_workQueue' = <<>> /\ m_postponedMessages' = <<>>
        /\ pc' = [t \in Threads |-> IF t = "server" THEN "startup" ELSE "wait"]
    BY <1>3 DEF Restart
  <2>2. pc'["server"] = "startup" /\ pc'["transmitter"] = "wait"
    BY <2>1, NameFacts
  <2>3. Queues' /\ InMemory' = {}
    <3>1. <<>> \in Seq(Ids') /\ IsInjective(<<>>) /\ ToSet(<<>>) = {}
      BY DEF IsInjective, ToSet
    <3>. QED
      BY <2>1, <3>1 DEF Queues, InMemory
  <2>4. \A m : IsDue(m)' <=> m \in sending
    <3>1. \A t \in Threads : pc'[t] # "post"
      BY <2>2, NameFacts
    <3>2. \A m : (\E e \in stale' : e[2] = m) <=> m \in sending
      <4>1. \A e \in stale' : e[2] \in sending
        BY <2>1
      <4>2. \A m \in sending : <<"", m>> \in stale' /\ <<"", m>>[2] = m
        BY <2>1
      <4>. QED
        BY <4>1, <4>2
    <3>. QED
      BY <2>2, <3>1, <3>2 DEF IsDue
  <2>5. Matching'
    <3>1. \A e \in stale' : e[1] = ""
      BY <2>1
    <3>. QED
      BY <2>1, <2>2, <2>3, <2>4, <3>1 DEF Matching
  <2>6. AtHead'
    BY <2>2 DEF AtHead, Working, Delivering
  <2>. QED
    BY <2>3, <2>5, <2>6 DEF QueuesRight
<1>. QED
  BY <1>1, <1>2, <1>3, ActorCases, QueueingMatches, ServingMatches, TransmittingMatches

-----------------------------------------------------------------------------
(* What steps do to the messages, and to the map of unique Ids. *)

\* What a step may do to a message: it does not get younger; if it is not removed, it
\* keeps its unique Id; a message to be sent loses the receiver just served, at most.
MessagesKept ==
    /\ \A m \in Ids : data'[m].fresh => data[m].fresh /\ data'[m].uid = data[m].uid
    /\ \A m \in Ids : /\ m = mid => pc["transmitter"] # "erase"
                      /\ m \in preparing => m \in preparing' \cup sending'
                      => data'[m].uid = data[m].uid
    /\ \A m \in sending : (m = mid => pc["transmitter"] # "erase") =>
         /\ data'[m].fresh = data[m].fresh \/ ExpireMessage(m)
         /\ \A r \in data[m].to : \/ r \in data'[m].to
                                  \/ m = mid /\ pc["transmitter"] = "drop" /\ r = who["transmitter"]

\* Steps do no more.
LEMMA MessagesStep ==
    ASSUME IInv, [Next]_vars
    PROVE  MessagesKept
<1>1. TypeOK /\ Positions /\ OneQueues /\ sending \subseteq Ids /\ sending \cap preparing = {}
  BY DEF IInv, TypeOK
<1>2. ASSUME \A m \in Ids : data'[m] = data[m] PROVE MessagesKept
  BY <1>1, <1>2 DEF MessagesKept
<1>3. ASSUME NEW t \in Threads, RequestConfirmation(t) PROVE MessagesKept
  <2>1. who[t] \in Uids \cup {""} /\ {"mail"} \in SUBSET (Users \cup {"mail"})
    BY <1>1, <1>3, NameFacts DEF RequestConfirmation, OneQueues
  <2>2. Allocate(who[t], {"mail"})
    BY <1>3 DEF RequestConfirmation
  <2>. QED
    BY <1>1, <1>2, <2>1, <2>2, AllocateFacts
<1>4. ASSUME NEW uid \in ClientIds, StartMessage(uid) PROVE MessagesKept
  <2>1. uid \in Uids \cup {""} /\ {} \in SUBSET (Users \cup {"mail"})
    BY NameFacts
  <2>2. Allocate(uid, {})
    BY <1>4 DEF StartMessage
  <2>. QED
    BY <1>1, <1>2, <2>1, <2>2, AllocateFacts
<1>5. ASSUME NEW m \in drafts, NEW to \in Receivers, Send(m, to) PROVE MessagesKept
  <2>1. m \in Ids /\ data[m].to \cup to \in SUBSET (Users \cup {"mail"})
    BY <1>1, DataFacts, ReceiversAssumption DEF Positions
  <2>2. data' = [data EXCEPT ![m].to = data[m].to \cup to]
    BY <1>5 DEF Send
  <2>3. /\ \A d \in Ids : d # m => data'[d] = data[d]
        /\ \A d \in Ids : data'[d].uid = data[d].uid /\ data'[d].fresh = data[d].fresh
        /\ data'[m].to = data[m].to \cup to
    BY <1>1, <2>1, <2>2, ReceiversFacts
  <2>. QED
    BY <1>1, <2>3 DEF MessagesKept
<1>6. CASE RemoveReceiver
  <2>1. mid \in Ids
    BY <1>1, <1>6 DEF RemoveReceiver, Positions, Working, Delivering
  <2>2. data[mid].to \ {who["transmitter"]} \in SUBSET (Users \cup {"mail"})
    BY <1>1, <2>1, DataFacts
  <2>3. data' = [data EXCEPT ![mid].to = data[mid].to \ {who["transmitter"]}] /\ pc["transmitter"] = "drop"
    BY <1>6 DEF RemoveReceiver
  <2>4. /\ \A d \in Ids : d # mid => data'[d] = data[d]
        /\ \A d \in Ids : data'[d].uid = data[d].uid /\ data'[d].fresh = data[d].fresh
        /\ data'[mid].to = data[mid].to \ {who["transmitter"]}
    BY <1>1, <2>1, <2>2, <2>3, ReceiversFacts
  <2>. QED
    BY <1>1, <2>3, <2>4 DEF MessagesKept
<1>7. CASE Erase
  <2>1. mid \in Ids
    BY <1>1, <1>7 DEF Erase, Positions, Working
  <2>2. data' = [data EXCEPT ![mid] = NoData] /\ pc["transmitter"] = "erase"
    BY <1>7 DEF Erase
  <2>3. (\A d \in Ids : d # mid => data'[d] = data[d]) /\ data'[mid].fresh = FALSE
    BY <1>1, <2>1, <2>2, EraseFacts
  <2>. QED
    BY <1>1, <1>7, <2>2, <2>3 DEF MessagesKept
<1>8. ASSUME NEW m \in Ids, ExpireMessage(m) PROVE MessagesKept
  <2>1. data' = [data EXCEPT ![m].fresh = FALSE]
    BY <1>8 DEF ExpireMessage
  <2>2. /\ \A d \in Ids : d # m => data'[d] = data[d]
        /\ \A d \in Ids : data'[d].uid = data[d].uid /\ data'[d].to = data[d].to
        /\ data'[m].fresh = FALSE
    BY <1>1, <2>1, ExpireFacts
  <2>. QED
    BY <1>1, <1>8, <2>2 DEF MessagesKept
<1>9. CASE Restart
  <2>1. data' = [m \in Ids |-> IF m \in preparing THEN NoData ELSE data[m]]
    BY <1>9 DEF Restart
  <2>2. preparing' = {} /\ UNCHANGED sending
    BY <1>9 DEF Restart
  <2>3. (\A m \in Ids \ preparing : data'[m] = data[m]) /\ \A m \in preparing : data'[m].fresh = FALSE
    BY <1>1, <2>1, RestartFacts
  <2>. QED
    BY <1>1, <2>2, <2>3 DEF MessagesKept
<1>10. CASE (\E t \in Threads : SendMap(t)) \/ (\E t \in Threads : SendMove(t))
          \/ (\E t \in Threads : SendPost(t)) \/ (\E e \in stale : CleanupPreparing(e))
          \/ CleanupSending \/ CleanupRemove \/ MovePendingToWork \/ (\E e \in stale : StartupSend(e))
          \/ StartupEnd \/ (\E uid \in ClientIds \ {""} : CancelMessage(uid))
          \/ (\E u \in Users : RequestAddress(u)) \/ (\E u \in Users : ConfirmAddress(u)) \/ RunQueue
          \/ Stop \/ Wait \/ GetNextWork \/ CheckActive \/ (\E r \in left : SendMessage(r))
          \/ (\E r \in left : AwaitConfirmation(r)) \/ (\E r \in left : AskConfirmation(r))
          \/ Postprocess \/ Unlist \/ RemoveFromWork \/ (\E u \in Users : ExpireRequest(u))
          \/ CommandFails \/ ConfirmationFails \/ WorkFails \/ UNCHANGED vars
  <2>1. UNCHANGED data
    BY <1>10
       DEF SendMap, SendMove, SendPost, CleanupPreparing, CleanupSending, CleanupRemove,
          MovePendingToWork, StartupSend, StartupEnd, CancelMessage, RequestAddress, ConfirmAddress,
          RunQueue, Stop, Wait, GetNextWork, CheckActive, SendMessage, AwaitConfirmation,
          AskConfirmation, Postprocess, Unlist, RemoveFromWork, ExpireRequest, CommandFails,
          ConfirmationFails, WorkFails, vars, db
  <2>. QED
    BY <1>2, <2>1
<1>. QED
  BY <1>3, <1>4, <1>5, <1>6, <1>7, <1>8, <1>9, <1>10, NextCases

\* What a step may do to the map: a message is entered under its unique Id, or an entry
\* is removed; the message that was there is voided unless it is gone.
MapKept ==
    \/ UNCHANGED uniqueIdMap /\ void' \subseteq void
    \/ \E t \in Threads : SendMap(t) /\ LET i == data[msg[t]].uid IN
         /\ i # "" /\ i \in Uids /\ msg[t] \in Ids \ sending
         /\ uniqueIdMap' = [uniqueIdMap EXCEPT ![i] = msg[t]] /\ Void(i, msg[t])
    \/ \E i \in Uids : CancelMessage(i) /\ uniqueIdMap' = [uniqueIdMap EXCEPT ![i] = 0] /\ Void(i, 0)
    \/ CleanupRemove /\ uniqueIdMap' = [uniqueIdMap EXCEPT ![who["server"]] = 0] /\ UNCHANGED void

\* Steps do no more.
LEMMA MapStep ==
    ASSUME IInv, [Next]_vars
    PROVE  MapKept
<1>1. TypeOK /\ Positions /\ OneQueues
  BY DEF IInv
<1>2. ASSUME NEW t \in Threads, SendMap(t) PROVE MapKept
  <2>1. msg[t] \in preparing /\ msg[t] \in Ids \ sending
    BY <1>1, <1>2 DEF SendMap, OneQueues, TypeOK
  <2>2. data[msg[t]].uid \in Uids \cup {""}
    BY <1>1, <2>1, DataFacts
  <2>3. CASE data[msg[t]].uid = ""
    BY <1>2, <2>3 DEF SendMap, history, MapKept
  <2>4. CASE data[msg[t]].uid # ""
    BY <1>2, <2>1, <2>2, <2>4 DEF SendMap, MapKept
  <2>. QED
    BY <2>3, <2>4
<1>3. CASE CleanupRemove
  BY <1>3 DEF CleanupRemove, history, MapKept
<1>4. ASSUME NEW uid \in ClientIds \ {""}, CancelMessage(uid) PROVE MapKept
  <2>1. uid \in Uids
    BY DEF Uids
  <2>. QED
    BY <1>4, <2>1 DEF CancelMessage, MapKept
<1>5. CASE Unlist
  BY <1>5 DEF Unlist, MapKept
<1>6. CASE (\E t \in Threads : RequestConfirmation(t)) \/ (\E t \in Threads : SendMove(t))
          \/ (\E t \in Threads : SendPost(t)) \/ (\E e \in stale : CleanupPreparing(e))
          \/ CleanupSending \/ MovePendingToWork \/ (\E e \in stale : StartupSend(e)) \/ StartupEnd
          \/ (\E uid \in ClientIds : StartMessage(uid))
          \/ (\E m \in drafts, to \in Receivers : Send(m, to)) \/ (\E u \in Users : RequestAddress(u))
          \/ (\E u \in Users : ConfirmAddress(u)) \/ RunQueue \/ Stop \/ Wait \/ GetNextWork
          \/ CheckActive \/ (\E r \in left : SendMessage(r)) \/ (\E r \in left : AwaitConfirmation(r))
          \/ (\E r \in left : AskConfirmation(r)) \/ RemoveReceiver \/ Postprocess \/ Erase
          \/ RemoveFromWork \/ (\E m \in Ids : ExpireMessage(m)) \/ (\E u \in Users : ExpireRequest(u))
          \/ CommandFails \/ ConfirmationFails \/ WorkFails \/ Restart \/ UNCHANGED vars
  <2>1. UNCHANGED <<uniqueIdMap, void>>
    BY <1>6
       DEF RequestConfirmation, SendMove, SendPost, CleanupPreparing, CleanupSending,
          MovePendingToWork, StartupSend, StartupEnd, StartMessage, Send, RequestAddress,
          ConfirmAddress, RunQueue, Stop, Wait, GetNextWork, CheckActive, SendMessage,
          AwaitConfirmation, AskConfirmation, RemoveReceiver, Postprocess, Erase, RemoveFromWork,
          ExpireMessage, ExpireRequest, CommandFails, ConfirmationFails, WorkFails, Restart, vars, db,
          history, Settle, Fail, Postpone
  <2>. QED
    BY <2>1 DEF MapKept
<1>. QED
  BY <1>2, <1>3, <1>4, <1>5, <1>6, NextCases

-----------------------------------------------------------------------------
(* The threads' own invariants. *)

\* A message is queued by one thread only.
LEMMA OneQueuesStep ==
    ASSUME IInv, [Next]_vars
    PROVE  OneQueues'
<1>1. TypeOK /\ Positions /\ OneQueues /\ Matching /\ Placed /\ Placed' /\ MessagesKept
  BY ThreadsStep, MessagesStep DEF IInv, Positions
<1>2. /\ pc \in [Threads -> ServerAt \cup TransmitterAt] /\ msg \in [Threads -> 0..lastId]
      /\ who \in [Threads -> Uids \cup {"", "mail"}]
      /\ lastId \in Nat /\ preparing \subseteq Ids /\ preparing \cap sending = {} /\ drafts \subseteq Ids
      /\ Ids \subseteq Ids'
  BY <1>1, DataStep DEF Placed, TypeOK, Positions, DataKept
<1>3. /\ \A t \in Threads : pc[t] \in {"map", "move"} => msg[t] \in preparing
      /\ \A t \in Threads : pc[t] = "request" => who[t] \in Users
      /\ pc["transmitter"] \in Queueing =>
           /\ msg["transmitter"] \in Ids \ drafts
           /\ data[msg["transmitter"]].uid \in Users
           /\ who["transmitter"] \in Users
           /\ pc["server"] \in Queueing => msg["server"] # msg["transmitter"]
  BY <1>1 DEF OneQueues
<1>4. CASE Restart
  <2>1. pc'["server"] = "startup" /\ pc'["transmitter"] = "wait"
    BY <1>4, NameFacts DEF Restart
  <2>. QED
    BY <2>1, NameFacts DEF OneQueues, Queueing
<1>5. CASE Expires
  <2>1. UNCHANGED <<pc, msg, who, preparing, drafts>>
    BY <1>5 DEF Expires, ExpireMessage, ExpireRequest, vars, ram, db
  <2>2. pc["transmitter"] \in Queueing => data'[msg["transmitter"]].uid \in Users
    BY <1>1, <1>3, <2>1 DEF MessagesKept, Queueing
  <2>. QED
    BY <1>2, <1>3, <2>1, <2>2 DEF OneQueues
<1>6. CASE Transmits
  <2>1. pc'["server"] = pc["server"] /\ msg'["server"] = msg["server"] /\ who'["server"] = who["server"]
    BY <1>1, <1>6, ServerRests DEF Local
  <2>2. UNCHANGED preparing
    BY <1>6 DEF Transmits, Wait, GetNextWork, CheckActive, SendMessage, AwaitConfirmation, AskConfirmation,
         RemoveReceiver, Postprocess, Erase, Unlist, RemoveFromWork, ConfirmationFails, WorkFails, db
  <2>3. pc'["transmitter"] \notin Queueing
    BY <1>2, <1>6, NameFacts
       DEF Transmits, Wait, GetNextWork, CheckActive, SendMessage, AwaitConfirmation, AskConfirmation,
         RemoveReceiver, Postprocess, Erase, Unlist, RemoveFromWork, ConfirmationFails, WorkFails,
         Goto, Rest, Settle, Fail, Postpone, Queueing
  <2>4. pc'["transmitter"] = "request" => who'["transmitter"] \in Users
    <3>1. CASE \E r \in left : AskConfirmation(r)
      BY <1>2, <3>1, NameFacts DEF AskConfirmation
    <3>2. CASE ~\E r \in left : AskConfirmation(r)
      <4>1. pc'["transmitter"] # "request"
        BY <1>2, <1>6, <3>2, NameFacts
           DEF Transmits, Wait, GetNextWork, CheckActive, SendMessage, AwaitConfirmation,
             RemoveReceiver, Postprocess, Erase, Unlist, RemoveFromWork, ConfirmationFails, WorkFails,
             Goto, Rest, Settle, Fail, Postpone
      <4>. QED
        BY <4>1
    <3>. QED
      BY <3>1, <3>2
  <2>. QED
    BY <1>3, <2>1, <2>2, <2>3, <2>4, NameFacts DEF OneQueues, Queueing
<1>7. CASE Serves
  <2>1. /\ pc'["transmitter"] = pc["transmitter"] /\ msg'["transmitter"] = msg["transmitter"]
        /\ who'["transmitter"] = who["transmitter"] /\ pc["server"] # "post"
    BY <1>1, <1>7, TransmitterRests DEF Local
  <2>2. CASE \E m \in drafts, to \in Receivers : Send(m, to)
    <3>1. PICK m \in drafts, to \in Receivers : Send(m, to)
      BY <2>2
    <3>2. /\ pc'["server"] = "map" /\ msg'["server"] = m /\ UNCHANGED <<preparing, drafts>>
          /\ pc["server"] = "idle" /\ pc'["server"] # pc["server"]
      BY <1>2, <3>1, NameFacts DEF Send, Goto, ram
    <3>3. m \in preparing
      BY <1>1, <3>2 DEF TypeOK
    <3>4. pc["transmitter"] \in Queueing => data'[msg["transmitter"]].uid \in Users
      BY <1>1, <1>3, <3>2 DEF MessagesKept, Queueing
    <3>5. pc'["transmitter"] \in Queueing =>
           /\ msg'["transmitter"] \in Ids' \ drafts'
           /\ data'[msg'["transmitter"]].uid \in Users
           /\ who'["transmitter"] \in Users
           /\ msg'["server"] # msg'["transmitter"]
      BY <1>2, <1>3, <2>1, <3>2, <3>4
    <3>. QED
      BY <1>3, <2>1, <3>2, <3>3, <3>5, NameFacts DEF OneQueues
  <2>3. CASE ~\E m \in drafts, to \in Receivers : Send(m, to)
    <3>1. pc'["server"] \notin Queueing
      BY <1>2, <1>7, <2>3, NameFacts DEF Serves, CleanupPreparing, StartupSend, CleanupSending,
         CleanupRemove, MovePendingToWork, StartupEnd, StartMessage, CancelMessage, RequestAddress,
         ConfirmAddress, RunQueue, Stop, CommandFails, Goto, Rest, Queueing
    <3>2. pc'["server"] = "request" => who'["server"] \in Users
      <4>1. CASE \E u \in Users : RequestAddress(u)
        BY <1>2, <4>1, NameFacts DEF RequestAddress
      <4>2. CASE ~\E u \in Users : RequestAddress(u)
        <5>1. pc'["server"] # "request"
          BY <1>2, <1>7, <2>3, <4>2, NameFacts DEF Serves, CleanupPreparing, StartupSend, CleanupSending,
             CleanupRemove, MovePendingToWork, StartupEnd, StartMessage, CancelMessage,
             ConfirmAddress, RunQueue, Stop, CommandFails, Goto, Rest
        <5>. QED
          BY <5>1
      <4>. QED
        BY <4>1, <4>2
    <3>3. preparing \subseteq preparing' /\ drafts' \cap Ids \subseteq drafts
      <4>1. CASE \E uid \in ClientIds : StartMessage(uid)
        <5>1. \A n \in Nat : n + 1 \notin 1..n
          OBVIOUS
        <5>2. lastId + 1 \notin Ids
          BY <1>2, <5>1 DEF Ids
        <5>. QED
          BY <4>1, <5>2 DEF StartMessage, Allocate
      <4>2. CASE ~\E uid \in ClientIds : StartMessage(uid)
        BY <1>7, <2>3, <4>2 DEF Serves, CleanupPreparing, StartupSend, CleanupSending,
             CleanupRemove, MovePendingToWork, StartupEnd, CancelMessage, RequestAddress,
             ConfirmAddress, RunQueue, Stop, CommandFails, ram, db
      <4>. QED
        BY <4>1, <4>2
    <3>4. pc["transmitter"] \in Queueing => data'[msg["transmitter"]].uid \in Users
      BY <1>1, <1>3, <3>3 DEF MessagesKept, Queueing
    <3>5. pc'["transmitter"] \in Queueing =>
           /\ msg'["transmitter"] \in Ids' \ drafts'
           /\ data'[msg'["transmitter"]].uid \in Users
           /\ who'["transmitter"] \in Users
      BY <1>2, <1>3, <2>1, <3>3, <3>4
    <3>6. \A t \in Threads : pc'[t] \in {"map", "move"} => msg'[t] \in preparing'
      BY <1>3, <2>1, <3>3, <3>1, NameFacts DEF Queueing
    <3>7. \A t \in Threads : pc'[t] = "request" => who'[t] \in Users
      BY <1>3, <2>1, <3>2, NameFacts
    <3>. QED
      BY <3>1, <3>5, <3>6, <3>7 DEF OneQueues
  <2>. QED
    BY <2>2, <2>3
<1>8. ASSUME NEW t \in Threads, RequestConfirmation(t) \/ SendMap(t) \/ SendMove(t) \/ SendPost(t)
      PROVE  OneQueues'
  <2>1. \A x \in Threads \ {t} : pc'[x] = pc[x] /\ msg'[x] = msg[x] /\ who'[x] = who[x]
    BY <1>1, <1>8, OtherRests DEF Local
  <2>2. PICK x \in Threads : x # t
    BY NameFacts
  <2>3. Threads = {t, x} /\ (t = "transmitter" <=> x = "server")
    BY <2>2 DEF Threads
  <2>4. CASE RequestConfirmation(t)
    <3>1. /\ who[t] \in Users /\ who[t] \in Uids \cup {""} /\ {"mail"} \in SUBSET (Users \cup {"mail"})
          /\ pc[t] = "request"
      BY <1>3, <2>4, NameFacts DEF RequestConfirmation
    <3>2. Allocate(who[t], {"mail"})
      BY <2>4 DEF RequestConfirmation
    <3>3. /\ lastId' \in Ids' /\ lastId' \notin Ids /\ lastId' = lastId + 1
          /\ \A m \in Ids : data'[m] = data[m]
          /\ data'[lastId'].uid = who[t] /\ preparing' = preparing \cup {lastId'}
      BY <1>1, <3>1, <3>2, AllocateFacts
    <3>4. pc'[t] = "map" /\ msg'[t] = lastId' /\ UNCHANGED <<who, drafts>>
      BY <1>2, <2>4, <3>3 DEF RequestConfirmation, Goto, ram
    <3>5. \A y \in Threads : pc'[y] \in {"map", "move"} => msg'[y] \in preparing'
      BY <1>3, <2>1, <2>3, <3>3, <3>4
    <3>6. \A y \in Threads : pc'[y] = "request" => who'[y] \in Users
      BY <1>3, <2>1, <2>3, <3>1, <3>4
    <3>7. CASE t = "transmitter"
      <4>1. msg'["transmitter"] # msg'["server"] \/ pc'["server"] \notin Queueing
        <5>1. pc["server"] \in Queueing => msg["server"] \in Ids
          <6>1. pc["server"] = "post" => IsDue(msg["server"])
            BY NameFacts DEF IsDue
          <6>. QED
            BY <1>1, <1>2, <1>3, <6>1, NameFacts DEF Queueing, Matching, TypeOK
        <5>. QED
          BY <2>1, <2>3, <3>3, <3>4, <3>7, <5>1
      <4>. QED
        BY <1>2, <3>1, <3>3, <3>4, <3>5, <3>6, <3>7, <4>1 DEF OneQueues
    <3>8. CASE t = "server"
      <4>1. /\ pc'["transmitter"] = pc["transmitter"] /\ msg'["transmitter"] = msg["transmitter"]
        BY <2>1, <3>8, NameFacts
      <4>. QED
        BY <1>2, <1>3, <3>3, <3>4, <3>5, <3>6, <3>8, <4>1 DEF OneQueues
    <3>. QED
      BY <3>7, <3>8, NameFacts
  <2>5. CASE SendMap(t) \/ SendMove(t)
    <3>1. /\ UNCHANGED <<data, msg, who, drafts>> /\ pc[t] \in {"map", "move"} /\ pc'[t] \in {"move", "post"}
          /\ pc[t] = "map" => UNCHANGED preparing
          /\ pc[t] = "move" => preparing' = preparing \ {msg[t]} /\ pc'[t] = "post"
      BY <1>2, <2>5 DEF SendMap, SendMove, Goto, ram
    <3>2. pc[t] \in Queueing /\ pc'[t] \in Queueing
      BY <3>1 DEF Queueing
    <3>3. pc[x] \in Queueing => msg[x] # msg[t]
      BY <1>3, <2>3, <3>2, NameFacts
    <3>4. \A y \in Threads : pc'[y] \in {"map", "move"} => msg'[y] \in preparing'
      BY <1>3, <2>1, <2>3, <3>1, <3>3 DEF Queueing
    <3>5. \A y \in Threads : pc'[y] = "request" => who'[y] \in Users
      BY <1>3, <2>1, <2>3, <3>1
    <3>6. pc'["transmitter"] \in Queueing <=> pc["transmitter"] \in Queueing
      BY <2>1, <3>2, NameFacts
    <3>7. pc'["server"] \in Queueing <=> pc["server"] \in Queueing
      BY <2>1, <3>2, NameFacts
    <3>. QED
      BY <1>2, <1>3, <3>1, <3>4, <3>5, <3>6, <3>7 DEF OneQueues
  <2>6. CASE SendPost(t)
    <3>1. UNCHANGED <<data, preparing, lastId>> /\ drafts' \subseteq drafts
      <4>1. UNCHANGED <<data, preparing, lastId>>
        BY <2>6 DEF SendPost, db
      <4>2. drafts' \subseteq drafts
        BY <2>6 DEF SendPost
      <4>. QED
        BY <4>1, <4>2
    <3>2. pc'[t] \in {"idle", "deliver"}
      <4>1. CASE t = "server"
        BY <1>2, <2>6, <4>1 DEF SendPost, Rest, Goto
      <4>2. CASE t = "transmitter"
        BY <1>2, <2>6, <4>2 DEF SendPost, Goto
      <4>. QED
        BY <4>1, <4>2, NameFacts
    <3>3. pc'[t] \notin Queueing
      BY <3>2 DEF Queueing
    <3>4. \A y \in Threads : pc'[y] \in {"map", "move"} => msg'[y] \in preparing'
      BY <1>3, <2>1, <2>3, <3>1, <3>2
    <3>5. \A y \in Threads : pc'[y] = "request" => who'[y] \in Users
      BY <1>3, <2>1, <2>3, <3>2
    <3>6. pc'["transmitter"] \in Queueing => t = "server" /\ pc'["server"] \notin Queueing
      BY <3>3, NameFacts
    <3>7. pc'["transmitter"] \in Queueing =>
            /\ pc["transmitter"] \in Queueing /\ msg'["transmitter"] = msg["transmitter"]
            /\ who'["transmitter"] = who["transmitter"]
      BY <2>1, <3>6, NameFacts
    <3>. QED
      BY <1>2, <1>3, <3>1, <3>4, <3>5, <3>6, <3>7 DEF OneQueues
  <2>. QED
    BY <1>8, <2>4, <2>5, <2>6
<1>. QED
  BY <1>4, <1>5, <1>6, <1>7, <1>8, ActorCases

\* Cleaning up goes by what the map says, whatever the transmitter does meanwhile.
LEMMA CleaningStep ==
    ASSUME IInv, [Next]_vars
    PROVE  Cleaning'
<1> DEFINE C == {"cleanup", "cleanup2", "cleanup3"}
<1>1. TypeOK /\ Positions /\ OneQueues /\ Cleaning /\ Placed /\ Placed'
  BY ThreadsStep DEF IInv, Positions
<1>2. /\ pc \in [Threads -> ServerAt \cup TransmitterAt] /\ msg \in [Threads -> 0..lastId]
      /\ who \in [Threads -> Uids \cup {"", "mail"}]
      /\ stale \subseteq (Uids \cup {""}) \X Ids /\ uniqueIdMap \in [Uids -> 0..lastId]
      /\ preparing \subseteq Ids
  BY <1>1 DEF Placed, Positions, TypeOK
<1>3. \A e \in stale : e = <<e[1], e[2]>> /\ e[1] \in Uids \cup {""} /\ e[2] \in Ids
  <2>1. \A A, B : \A x \in A \X B : x = <<x[1], x[2]>> /\ x[1] \in A /\ x[2] \in B
    OBVIOUS
  <2>. QED
    BY <1>2, <2>1
<1>4. /\ pc["server"] \in C =>
           \A e \in stale : e[1] \in Uids /\ (e[1] \notin Users => uniqueIdMap[e[1]] = e[2])
      /\ pc["server"] \in {"cleanup2", "cleanup3"} =>
           <<who["server"], msg["server"]>> \in stale /\ msg["server"] \notin preparing
      /\ pc["server"] = "cleanup3" => msg["server"] \notin sending
  BY <1>1 DEF Cleaning
<1>5. ASSUME UNCHANGED <<stale, pc["server"], msg["server"], who["server"]>>,
             \A u \in Uids \ Users : uniqueIdMap'[u] = uniqueIdMap[u],
             preparing' \cap Ids \subseteq preparing,
             pc["server"] = "cleanup3" => sending' \subseteq sending \cup preparing
      PROVE  Cleaning'
  <2>1. pc["server"] \in C =>
          \A e \in stale : e[1] \in Uids /\ (e[1] \notin Users => uniqueIdMap'[e[1]] = e[2])
    BY <1>4, <1>5
  <2>2. pc["server"] \in {"cleanup2", "cleanup3"} => msg["server"] \in Ids
    <3>1. ASSUME <<who["server"], msg["server"]>> \in stale PROVE msg["server"] \in Ids
      BY <1>2, <3>1
    <3>. QED
      BY <1>4, <3>1
  <2>3. pc["server"] \in {"cleanup2", "cleanup3"} =>
           <<who["server"], msg["server"]>> \in stale /\ msg["server"] \notin preparing'
    BY <1>4, <1>5, <2>2
  <2>4. pc["server"] = "cleanup3" => msg["server"] \notin sending'
    BY <1>4, <1>5
  <2>. QED
    BY <1>5, <2>1, <2>3, <2>4 DEF Cleaning
<1>6. ASSUME pc'["server"] \notin C PROVE Cleaning'
  BY <1>6 DEF Cleaning
<1>7. CASE Restart
  <2>1. pc'["server"] = "startup"
    BY <1>7, NameFacts DEF Restart
  <2>. QED
    BY <1>6, <2>1
<1>8. CASE Expires
  <2>1. UNCHANGED <<stale, pc, msg, who, uniqueIdMap, preparing, sending>>
    BY <1>8 DEF Expires, ExpireMessage, ExpireRequest, vars, db
  <2>. QED
    BY <1>5, <2>1
<1>9. CASE Transmits
  <2>1. pc'["server"] = pc["server"] /\ msg'["server"] = msg["server"] /\ who'["server"] = who["server"]
    BY <1>1, <1>9, ServerRests DEF Local
  <2>2. UNCHANGED <<stale, uniqueIdMap, preparing>> /\ sending' \subseteq sending
    BY <1>9 DEF Transmits, Wait, GetNextWork, CheckActive, SendMessage, AwaitConfirmation, AskConfirmation,
         RemoveReceiver, Postprocess, Erase, Unlist, RemoveFromWork, ConfirmationFails, WorkFails, db
  <2>. QED
    BY <1>5, <2>1, <2>2
<1>10. ASSUME NEW t \in Threads, RequestConfirmation(t) \/ SendMap(t) \/ SendMove(t) \/ SendPost(t)
       PROVE  Cleaning'
  <2>1. CASE t = "server"
    <3>1. pc'["server"] \in {"map", "move", "post", "idle"}
      BY <1>2, <1>10, <2>1 DEF RequestConfirmation, SendMap, SendMove, SendPost, Goto, Rest
    <3>. QED
      BY <1>6, <3>1
  <2>2. CASE t = "transmitter"
    <3>1. pc'["server"] = pc["server"] /\ msg'["server"] = msg["server"] /\ who'["server"] = who["server"]
      BY <1>1, <1>10, <2>2, NameFacts, OtherRests DEF Local
    <3>2. CASE RequestConfirmation(t)
      <4>1. lastId + 1 \notin Ids
        <5>1. \A n \in Nat : n + 1 \notin 1..n
          OBVIOUS
        <5>. QED
          BY <1>1, <5>1 DEF Ids, TypeOK
      <4>2. UNCHANGED <<stale, uniqueIdMap, sending>> /\ preparing' = preparing \cup {lastId + 1}
        BY <3>2 DEF RequestConfirmation, Allocate
      <4>. QED
        BY <1>5, <3>1, <4>1, <4>2
    <3>3. CASE SendMap(t)
      <4>1. data[msg[t]].uid \in Users
        BY <1>1, <2>2, <3>3 DEF SendMap, OneQueues, Queueing
      <4>2. /\ UNCHANGED <<stale, preparing, sending>>
            /\ uniqueIdMap' = uniqueIdMap \/ uniqueIdMap' = [uniqueIdMap EXCEPT ![data[msg[t]].uid] = msg[t]]
        BY <3>3 DEF SendMap
      <4>3. \A u \in Uids \ Users : uniqueIdMap'[u] = uniqueIdMap[u]
        BY <1>2, <4>1, <4>2
      <4>. QED
        BY <1>5, <3>1, <4>2, <4>3
    <3>4. CASE SendMove(t)
      <4>1. msg[t] \in preparing
        BY <1>1, <3>4 DEF SendMove, OneQueues
      <4>2. /\ UNCHANGED <<stale, uniqueIdMap>> /\ preparing' \subseteq preparing
            /\ sending' \subseteq sending \cup preparing
        BY <3>4, <4>1 DEF SendMove
      <4>. QED
        BY <1>5, <3>1, <4>2
    <3>5. CASE SendPost(t)
      <4>1. UNCHANGED <<stale, uniqueIdMap, preparing, sending>>
        BY <3>5 DEF SendPost, db
      <4>. QED
        BY <1>5, <3>1, <4>1
    <3>. QED
      BY <1>10, <3>2, <3>3, <3>4, <3>5
  <2>. QED
    BY <2>1, <2>2, NameFacts
<1>11. ASSUME NEW e \in stale, CleanupPreparing(e) PROVE Cleaning'
  <2>1. CASE e[2] \in preparing
    <3>1. /\ UNCHANGED <<uniqueIdMap, preparing, sending, pc, msg, who>> /\ stale' \subseteq stale
          /\ pc["server"] = "cleanup"
      BY <1>11, <2>1 DEF CleanupPreparing, db
    <3>. QED
      BY <1>4, <3>1 DEF Cleaning
  <2>2. CASE e[2] \notin preparing
    <3>1. /\ UNCHANGED <<uniqueIdMap, preparing, sending, stale>> /\ pc["server"] = "cleanup"
          /\ pc'["server"] = "cleanup2" /\ msg'["server"] = e[2] /\ who'["server"] = e[1]
      BY <1>2, <1>11, <2>2, NameFacts DEF CleanupPreparing, db, Goto
    <3>2. <<who'["server"], msg'["server"]>> \in stale'
      BY <1>3, <3>1
    <3>. QED
      BY <1>4, <2>2, <3>1, <3>2 DEF Cleaning
  <2>. QED
    BY <2>1, <2>2
<1>12. CASE CleanupSending
  <2> DEFINE e == <<who["server"], msg["server"]>>
  <2>1. CASE e[2] \in sending
    <3>1. /\ UNCHANGED <<uniqueIdMap, preparing, sending, msg, who>> /\ stale' \subseteq stale
          /\ pc["server"] = "cleanup2"
      BY <1>12, <2>1 DEF CleanupSending, db
    <3>2. pc'["server"] = "cleanup"
      BY <1>2, <1>12, <2>1, NameFacts DEF CleanupSending, Goto
    <3>. QED
      BY <1>4, <3>1, <3>2 DEF Cleaning
  <2>2. CASE e[2] \notin sending
    <3>1. /\ UNCHANGED <<uniqueIdMap, preparing, sending, msg, who, stale>> /\ pc["server"] = "cleanup2"
      BY <1>12, <2>2 DEF CleanupSending, db
    <3>2. pc'["server"] = "cleanup3"
      BY <1>2, <1>12, <2>2, NameFacts DEF CleanupSending, Goto
    <3>3. msg["server"] \notin sending
      BY <2>2
    <3>. QED
      BY <1>4, <3>1, <3>2, <3>3 DEF Cleaning
  <2>. QED
    BY <2>1, <2>2
<1>13. CASE CleanupRemove
  <2> DEFINE e == <<who["server"], msg["server"]>>
  <2>1. /\ stale' = stale \ {e} /\ pc["server"] = "cleanup3"
        /\ uniqueIdMap' = [uniqueIdMap EXCEPT ![who["server"]] = 0]
    BY <1>13 DEF CleanupRemove
  <2>2. pc'["server"] = "cleanup"
    BY <1>2, <1>13, NameFacts DEF CleanupRemove, Goto
  <2>3. e \in stale /\ e[1] = who["server"] /\ e[2] = msg["server"]
    BY <1>4, <2>1
  <2> HIDE DEF e
  <2>4. ASSUME NEW d \in stale', d[1] \notin Users PROVE uniqueIdMap'[d[1]] = d[2]
    <3>1. d \in stale /\ d # e /\ d[1] \in Uids /\ uniqueIdMap[d[1]] = d[2]
      BY <1>4, <2>1, <2>4
    <3>2. d[1] # who["server"]
      <4>1. SUFFICES ASSUME d[1] = e[1] PROVE FALSE
        BY <2>3
      <4>2. d[2] = e[2]
        BY <1>4, <2>1, <2>3, <2>4, <3>1, <4>1
      <4>3. d = <<d[1], d[2]>> /\ e = <<e[1], e[2]>>
        BY <1>3, <2>3, <3>1
      <4>. QED
        BY <3>1, <4>1, <4>2, <4>3
    <3>. QED
      BY <1>2, <2>1, <3>1, <3>2
  <2>5. \A d \in stale' : d[1] \in Uids
    BY <1>4, <2>1
  <2>. QED
    BY <2>2, <2>4, <2>5 DEF Cleaning
<1>14. CASE RunQueue
  <2>1. stale' = { e \in Uids \X Ids : uniqueIdMap[e[1]] = e[2] } /\ UNCHANGED uniqueIdMap
    BY <1>14 DEF RunQueue, db
  <2>2. pc'["server"] = "cleanup"
    BY <1>2, <1>14, NameFacts DEF RunQueue, Goto
  <2>3. \A e \in stale' : e[1] \in Uids /\ uniqueIdMap'[e[1]] = e[2]
    BY <2>1
  <2>. QED
    BY <2>2, <2>3 DEF Cleaning
<1>15. CASE /\ Serves /\ ~(\E e \in stale : CleanupPreparing(e))
            /\ ~CleanupSending /\ ~CleanupRemove /\ ~RunQueue
  <2>1. pc'["server"] \notin C
    BY <1>2, <1>15, NameFacts DEF Serves, StartupSend, MovePendingToWork, StartupEnd, StartMessage, Send,
         CancelMessage, RequestAddress, ConfirmAddress, Stop, CommandFails, Goto, Rest
  <2>. QED
    BY <1>6, <2>1
<1>. QED
  BY <1>7, <1>8, <1>9, <1>10, <1>11, <1>12, <1>13, <1>14, <1>15, ActorCases

-----------------------------------------------------------------------------
(* Wakeups. *)

\* The transmitter has taken a wakeup it has not dealt with yet, and how that counts.
Awake == pc["transmitter"] \in Working \cup {"fetch", "ended"}
One(b) == IF b THEN 1 ELSE 0

\* A message is queued with a wakeup.
LEMMA PushedWakes ==
    ASSUME IInv, NEW m, IsDue(m), m_workQueue' = Append(m_workQueue, m), m_wake' = m_wake + 1,
           UNCHANGED <<lastId, m_postponedMessages, missed, m_stopRequest>>, Awake' = Awake
    PROVE  WakeAccounted'
<1>1. /\ m_wake \in Nat /\ missed \in Nat /\ Len(m_workQueue) \in Nat
      /\ m_wake + missed + One(Awake) = Len(m_workQueue) + One(m_stopRequest)
  <2>1. m_workQueue \in Seq(Ids)
    BY DEF IInv, Queues
  <2>2. m_wake \in Nat /\ missed \in Nat
    BY Zenon DEF IInv, TypeOK, Positions
  <2>. Len(m_workQueue) \in Nat
    BY <2>1
  <2>3. m_wake + missed + One(Awake) = Len(m_workQueue) + One(m_stopRequest)
    BY DEF IInv, WakeAccounted, Awake, One
  <2>. QED
    BY <2>2, <2>3
<1>2. m \in Ids \ InMemory
  BY DEF IInv, Matching, TypeOK
<1>3. Len(m_workQueue') = Len(m_workQueue) + 1
  BY <1>2, Pushed DEF IInv
<1>4. /\ One(Awake) \in {0, 1} /\ One(m_stopRequest) \in {0, 1}
      /\ One(Awake') = One(Awake) /\ One(m_stopRequest') = One(m_stopRequest)
  BY DEF One
<1>5. m_wake' + missed' + One(Awake') = Len(m_workQueue') + One(m_stopRequest')
  BY <1>1, <1>3, <1>4
<1>. QED
  BY <1>5 DEF WakeAccounted, Awake, One

\* No step loses a wakeup but those that end with an exception.
LEMMA WakeStep ==
    ASSUME IInv, [Next]_vars
    PROVE  WakeAccounted'
<1>1. TypeOK /\ Positions /\ Placed /\ Queues /\ Matching /\ AtHead
  BY DEF IInv, Positions
<1>2. /\ pc \in [Threads -> ServerAt \cup TransmitterAt]
      /\ m_stopRequest <=> pc["server"] = "stopped"
  BY <1>1 DEF Placed
<1>3. /\ m_wake \in Nat /\ missed \in Nat /\ Len(m_workQueue) \in Nat /\ Len(m_postponedMessages) \in Nat
      /\ m_wake + missed + One(Awake) = Len(m_workQueue) + One(m_stopRequest)
  <2>1. m_workQueue \in Seq(Ids) /\ m_postponedMessages \in Seq(Ids)
    BY <1>1 DEF Queues
  <2>2. m_wake \in Nat /\ missed \in Nat
    BY <1>1, Zenon DEF TypeOK, Positions
  <2>. Len(m_workQueue) \in Nat /\ Len(m_postponedMessages) \in Nat
    BY <2>1
  <2>3. m_wake + missed + One(Awake) = Len(m_workQueue) + One(m_stopRequest)
    BY DEF IInv, WakeAccounted, Awake, One
  <2>. QED
    BY <2>2, <2>3
<1>4. ASSUME m_wake' + missed' + One(Awake') = Len(m_workQueue') + One(m_stopRequest')
      PROVE  WakeAccounted'
  BY <1>4 DEF WakeAccounted, Awake, One
<1>5. ASSUME UNCHANGED <<m_wake, missed, m_workQueue, m_stopRequest>>, Awake' = Awake PROVE WakeAccounted'
  <2>1. One(Awake') = One(Awake) /\ One(m_stopRequest') = One(m_stopRequest)
    BY <1>5 DEF One
  <2>. QED
    BY <1>3, <1>4, <1>5, <2>1
<1>6. One(Awake) \in {0, 1} /\ One(m_stopRequest) \in {0, 1} /\ One(TRUE) = 1 /\ One(FALSE) = 0
  BY DEF One
<1>7. ASSUME NEW t \in Threads, RequestConfirmation(t) \/ SendMap(t) \/ SendMove(t) \/ SendPost(t)
      PROVE  WakeAccounted'
  <2>1. Awake' = Awake
    <3>1. CASE t = "server"
      <4>1. pc'["transmitter"] = pc["transmitter"]
        BY <1>1, <1>7, <3>1, NameFacts, OtherRests DEF Local
      <4>. QED
        BY <4>1 DEF Awake
    <3>2. CASE t = "transmitter"
      <4>1. /\ pc["transmitter"] \in {"request", "map", "move", "post"}
            /\ pc'["transmitter"] \in {"map", "move", "post", "deliver"}
        BY <1>2, <1>7, <3>2 DEF RequestConfirmation, SendMap, SendMove, SendPost, Goto
      <4>. QED
        BY <4>1 DEF Awake, Working, Delivering
    <3>. QED
      BY <3>1, <3>2, NameFacts
  <2>2. CASE SendPost(t)
    <3>1. /\ m_workQueue' = Append(m_workQueue, msg[t]) /\ m_wake' = m_wake + 1
          /\ UNCHANGED <<lastId, m_postponedMessages, missed, m_stopRequest>>
      BY <2>2 DEF SendPost, history, db
    <3>2. IsDue(msg[t])
      BY <2>2 DEF SendPost, IsDue
    <3>. QED
      BY <2>1, <3>1, <3>2, PushedWakes
  <2>3. CASE RequestConfirmation(t) \/ SendMap(t) \/ SendMove(t)
    <3>1. UNCHANGED <<m_wake, missed, m_workQueue, m_stopRequest>>
      BY <2>3 DEF RequestConfirmation, SendMap, SendMove, Void, ram, history
    <3>. QED
      BY <1>5, <2>1, <3>1
  <2>. QED
    BY <1>7, <2>2, <2>3
<1>8. CASE Serves
  <2>1. Awake' = Awake
    BY <1>1, <1>8, TransmitterRests DEF Awake, Local
  <2>2. ASSUME NEW e \in stale, StartupSend(e) PROVE WakeAccounted'
    <3>1. /\ m_workQueue' = Append(m_workQueue, e[2]) /\ m_wake' = m_wake + 1
          /\ UNCHANGED <<lastId, m_postponedMessages, missed, m_stopRequest>>
      BY <2>2 DEF StartupSend, history, db
    <3>2. IsDue(e[2])
      BY <2>2 DEF StartupSend, IsDue
    <3>. QED
      BY <2>1, <3>1, <3>2, PushedWakes
  <2>3. CASE MovePendingToWork
    <3>1. /\ m_workQueue' = m_workQueue \o m_postponedMessages /\ m_postponedMessages' = <<>>
          /\ m_wake' = m_wake + Len(m_postponedMessages)
          /\ UNCHANGED <<lastId, missed, m_stopRequest>>
      BY <2>3 DEF MovePendingToWork, history, db
    <3>2. Len(m_workQueue') = Len(m_workQueue) + Len(m_postponedMessages)
      BY <1>1, <3>1, Moved
    <3>3. One(Awake') = One(Awake) /\ One(m_stopRequest') = One(m_stopRequest)
      BY <2>1, <3>1 DEF One
    <3>4. m_wake' = m_wake + Len(m_postponedMessages) /\ missed' = missed
      BY <3>1
    <3>5. m_wake' + missed' + One(Awake') = Len(m_workQueue') + One(m_stopRequest')
      BY <1>3, <1>6, <3>2, <3>3, <3>4
    <3>. QED
      BY <1>4, <3>5
  <2>4. CASE Stop
    <3>1. /\ m_stopRequest' = TRUE /\ m_wake' = m_wake + 1 /\ UNCHANGED <<missed, m_workQueue>>
          /\ pc["server"] = "idle"
      BY <2>4 DEF Stop, history
    <3>2. One(m_stopRequest) = 0
      BY <1>2, <3>1 DEF One
    <3>3. One(Awake') = One(Awake) /\ One(m_stopRequest') = 1
      BY <2>1, <3>1 DEF One
    <3>. QED
      BY <1>3, <1>4, <1>6, <3>1, <3>2, <3>3
  <2>5. CASE /\ Serves /\ ~(\E e \in stale : StartupSend(e)) /\ ~MovePendingToWork /\ ~Stop
    <3>1. UNCHANGED <<m_wake, missed, m_workQueue, m_stopRequest>>
      BY <2>5 DEF Serves, CleanupPreparing, CleanupSending, CleanupRemove, StartupEnd, StartMessage, Send,
                  CancelMessage, RequestAddress, ConfirmAddress, RunQueue, CommandFails, Void, ram, history
    <3>. QED
      BY <1>5, <2>1, <3>1
  <2>. QED
    BY <1>8, <2>2, <2>3, <2>4, <2>5
<1>9. CASE Expires
  <2>1. UNCHANGED <<m_wake, missed, m_workQueue, m_stopRequest, pc>>
    BY <1>9 DEF Expires, ExpireMessage, ExpireRequest, vars, ram, history
  <2>. QED
    BY <1>5, <2>1 DEF Awake
<1>10. CASE Restart
  <2>1. m_wake' = 0 /\ missed' = 0 /\ m_workQueue' = <<>> /\ m_stopRequest' = FALSE
    BY <1>10 DEF Restart
  <2>2. pc'["transmitter"] = "wait"
    BY <1>10, NameFacts DEF Restart
  <2>3. One(Awake') = 0 /\ One(m_stopRequest') = 0 /\ Len(m_workQueue') = 0
    BY <2>1, <2>2 DEF Awake, Working, Delivering, One
  <2>. QED
    BY <1>4, <2>1, <2>3
<1>11. CASE Wait
  <2>1. /\ pc["transmitter"] = "wait" /\ m_wake > 0 /\ m_wake' = m_wake - 1
        /\ UNCHANGED <<missed, m_workQueue, m_stopRequest>>
    BY <1>11 DEF Wait, history
  <2>2. pc'["transmitter"] = "fetch"
    BY <1>2, <1>11, NameFacts DEF Wait, Goto
  <2>3. One(Awake) = 0 /\ One(Awake') = 1 /\ One(m_stopRequest') = One(m_stopRequest)
    BY <2>1, <2>2 DEF Awake, Working, Delivering, One
  <2>. QED
    BY <1>3, <1>4, <1>6, <2>1, <2>3
<1>12. CASE GetNextWork
  <2>1. pc["transmitter"] = "fetch" /\ UNCHANGED <<m_wake, missed, m_workQueue, m_stopRequest>>
    BY <1>12 DEF GetNextWork, ram, history
  <2>2. One(Awake) = 1
    BY <2>1 DEF Awake, One
  <2>3. m_stopRequest \/ m_workQueue # <<>>
    <3>1. SUFFICES ASSUME ~m_stopRequest, m_workQueue = <<>> PROVE FALSE
      OBVIOUS
    <3>2. One(m_stopRequest) = 0 /\ Len(m_workQueue) = 0
      BY <3>1 DEF One
    <3>. QED
      BY <1>3, <2>2, <3>2
  <2>4. pc'["transmitter"] \in {"ended", "check"}
    BY <1>2, <1>12, <2>3, NameFacts DEF GetNextWork, Goto
  <2>. QED
    BY <1>5, <2>1, <2>4 DEF Awake, Working
<1>13. CASE (Postprocess /\ keep) \/ RemoveFromWork
  <2>1. /\ pc["transmitter"] \in Working /\ UNCHANGED <<lastId, m_wake, missed, m_stopRequest>>
        /\ m_workQueue' = Kept(m_workQueue, Ids \ {mid})
        /\ \/ m_postponedMessages' = Append(m_postponedMessages, mid)
           \/ UNCHANGED m_postponedMessages
    BY <1>13 DEF Postprocess, RemoveFromWork, Working, Delivering, db, history
  <2>2. pc'["transmitter"] = "wait"
    BY <1>2, <1>13, NameFacts DEF Postprocess, RemoveFromWork, Rest, Goto
  <2>3. One(Awake) = 1 /\ One(Awake') = 0 /\ One(m_stopRequest') = One(m_stopRequest)
    BY <2>1, <2>2 DEF Awake, Working, Delivering, One
  <2>4. mid \in ToSet(m_workQueue)
    BY <1>1, <2>1, WorkQueued
  <2>5. Len(m_workQueue') = Len(m_workQueue) - 1
    BY <1>1, <2>1, <2>4, Dropped, Postponed
  <2>. QED
    BY <1>3, <1>4, <1>6, <2>1, <2>3, <2>5
<1>14. CASE WorkFails
  <2>1. /\ pc["transmitter"] \in Working /\ missed' = missed + 1
        /\ UNCHANGED <<m_wake, m_workQueue, m_stopRequest>>
    BY <1>14 DEF WorkFails, Working, Delivering, ram
  <2>2. pc'["transmitter"] = "wait"
    BY <1>2, <1>14, NameFacts DEF WorkFails, Rest, Goto
  <2>3. One(Awake) = 1 /\ One(Awake') = 0 /\ One(m_stopRequest') = One(m_stopRequest)
    BY <2>1, <2>2 DEF Awake, Working, Delivering, One
  <2>. QED
    BY <1>3, <1>4, <1>6, <2>1, <2>3
<1>15. CASE \/ CheckActive \/ (\E r \in left : SendMessage(r) \/ AwaitConfirmation(r) \/ AskConfirmation(r))
            \/ RemoveReceiver \/ (Postprocess /\ ~keep) \/ Erase \/ Unlist \/ ConfirmationFails
  <2>1. UNCHANGED <<m_wake, missed, m_workQueue, m_stopRequest>>
    BY <1>15 DEF CheckActive, SendMessage, AwaitConfirmation, AskConfirmation, RemoveReceiver, Postprocess,
                 Erase, Unlist, ConfirmationFails, Settle, Fail, Postpone, ram, history
  <2>2. pc["transmitter"] \in Working
    BY <1>15 DEF CheckActive, SendMessage, AwaitConfirmation, AskConfirmation, RemoveReceiver, Postprocess,
                 Erase, Unlist, ConfirmationFails, Working, Delivering
  <2>3. pc'["transmitter"] \in Working
    BY <1>2, <1>15, NameFacts
       DEF CheckActive, SendMessage, AwaitConfirmation, AskConfirmation, RemoveReceiver, Postprocess,
           Erase, Unlist, ConfirmationFails, Settle, Fail, Postpone, Goto, Working, Delivering
  <2>. QED
    BY <1>5, <2>1, <2>2, <2>3 DEF Awake
<1>16. CASE Transmits
  <2>1. Postprocess => (Postprocess /\ keep) \/ (Postprocess /\ ~keep)
    OBVIOUS
  <2>. QED
    BY <1>11, <1>12, <1>13, <1>14, <1>15, <1>16, <2>1, Zenon DEF Transmits
<1>. QED
  BY <1>7, <1>8, <1>9, <1>10, <1>16, ActorCases

-----------------------------------------------------------------------------
(* Promises. *)

\* Only putting a message into the sending queue adds promises.
LEMMA PromisesStep ==
    ASSUME [Next]_vars
    PROVE  promised' \subseteq promised \/ \E t \in Threads : SendMove(t)
<1>1. promised' \subseteq promised \/ (\E t \in Threads : RequestConfirmation(t) \/ SendMove(t))
      \/ Serves \/ Transmits \/ Restart
  BY ActorCases DEF SendMap, SendPost, Expires, ExpireMessage, ExpireRequest, Void, vars, history
<1>2. ASSUME Serves \/ Restart \/ \E t \in Threads : RequestConfirmation(t) PROVE promised' \subseteq promised
  BY <1>2 DEF Serves, CleanupPreparing, StartupSend, CleanupSending, CleanupRemove, MovePendingToWork,
         StartupEnd, StartMessage, Send, CancelMessage, RequestAddress, ConfirmAddress, RunQueue, Stop,
         CommandFails, Restart, RequestConfirmation, Void, history
<1>3. ASSUME Transmits PROVE promised' \subseteq promised
  BY <1>3 DEF Transmits, Wait, GetNextWork, CheckActive, SendMessage, AwaitConfirmation, AskConfirmation,
         RemoveReceiver, Postprocess, Erase, Unlist, RemoveFromWork, ConfirmationFails, WorkFails,
         Settle, Fail, Postpone, history
<1>. QED
  BY <1>1, <1>2, <1>3

\* The parts of a promise
LEMMA PromiseFacts ==
    ASSUME Positions, NEW p \in promised
    PROVE  p[1] \in Ids /\ p = <<p[1], p[2], p[3]>>
<1>1. \A A, B, C : \A x \in A \X B \X C : x = <<x[1], x[2], x[3]>> /\ x[1] \in A
  OBVIOUS
<1>. QED
  BY <1>1 DEF Positions

\* A message put into the sending queue is not the one worked on.
LEMMA PromiseMade ==
    ASSUME IInv, NEW t \in Threads, SendMove(t), NEW p \in Owed(msg[t])
    PROVE  Keeps(p)' /\ data'[p[1]].uid = p[3] /\ Serving(p)'
<1>1. Placed /\ OneQueues /\ Queues /\ Matching /\ AtHead
  BY DEF IInv, Positions
<1>2. /\ Active(msg[t]) /\ p[1] = msg[t] /\ p[2] \in data[msg[t]].to /\ p[3] = data[msg[t]].uid
  BY DEF Owed
<1>3. /\ UNCHANGED <<data, uniqueIdMap, mid>> /\ sending' = sending \cup {msg[t]} /\ pc[t] = "move"
  BY DEF SendMove, work
<1>4. Keeps(p)' /\ data'[p[1]].uid = p[3]
  BY <1>2, <1>3 DEF Keeps, Active
<1>5. ASSUME pc'["transmitter"] \in Working PROVE mid # msg[t]
  <2>1. pc["transmitter"] \in Working
    <3>1. CASE t = "transmitter"
      BY <1>3, <3>1 DEF Working, Delivering
    <3>2. CASE t = "server"
      BY <1>1, <1>5, <3>2, NameFacts, OtherRests DEF Local
    <3>. QED
      BY <3>1, <3>2, NameFacts
  <2>2. mid \in InMemory
    BY <1>1, <2>1, WorkQueued
  <2>3. msg[t] \in preparing
    BY <1>1, <1>3 DEF OneQueues
  <2>. QED
    BY <1>1, <2>2, <2>3 DEF Matching
<1>6. Serving(p)'
  BY <1>2, <1>3, <1>5 DEF Serving, Working, Delivering
<1>. QED
  BY <1>4, <1>6

\* A message about which there is a promise stays what it is.
LEMMA PromiseKept ==
    ASSUME IInv, [Next]_vars, NEW p \in promised, p \in promised', p[3] \notin Users
    PROVE  Keeps(p)' /\ data'[p[1]].uid = p[3]
<1> DEFINE m == p[1]
<1>1. TypeOK /\ Positions /\ Cleaning /\ Matching /\ MessagesKept /\ MapKept
  BY MessagesStep, MapStep DEF IInv
<1>2. m \in Ids
  BY <1>1, PromiseFacts
<1>3. Keeps(p) /\ data[m].uid = p[3] /\ Serving(p)
  BY DEF IInv, Owing, NothingLost
<1>4. m \in sending /\ p[2] \in data[m].to /\ Active(m)
  BY <1>3 DEF Keeps
<1>5. m = mid => /\ pc["transmitter"] \notin {"erase", "unlist"}
                 /\ pc["transmitter"] = "drop" => p[2] # who["transmitter"]
  BY <1>3 DEF Serving
<1>6. m \notin preparing
  BY <1>1, <1>4 DEF TypeOK
<1>7. ~ExpireMessage(m)
  BY DEF ExpireMessage
<1>8. /\ data'[m].fresh = data[m].fresh /\ data'[m].uid = data[m].uid /\ p[2] \in data'[m].to
  BY <1>1, <1>2, <1>4, <1>5, <1>6, <1>7 DEF MessagesKept
<1>9. m \in sending'
  <2>1. sending \subseteq sending' \/ Unlist
    <3>1. CASE \E t \in Threads : RequestConfirmation(t) \/ SendMap(t) \/ SendMove(t) \/ SendPost(t)
      BY <3>1 DEF RequestConfirmation, SendMap, SendMove, SendPost, db
    <3>2. CASE Serves
      BY <3>2 DEF Serves, CleanupPreparing, StartupSend, CleanupSending, CleanupRemove, MovePendingToWork,
         StartupEnd, StartMessage, Send, CancelMessage, RequestAddress, ConfirmAddress, RunQueue, Stop,
         CommandFails, db
    <3>3. CASE Transmits
      BY <3>3 DEF Transmits, Wait, GetNextWork, CheckActive, SendMessage, AwaitConfirmation, AskConfirmation,
         RemoveReceiver, Postprocess, Erase, RemoveFromWork, ConfirmationFails, WorkFails, db
    <3>4. CASE Expires \/ Restart
      BY <3>4 DEF Expires, ExpireMessage, ExpireRequest, Restart, vars, db
    <3>. QED
      BY <3>1, <3>2, <3>3, <3>4, ActorCases
  <2>2. Unlist => sending' = sending \ {mid} /\ pc["transmitter"] = "unlist"
    BY DEF Unlist
  <2>. QED
    BY <1>4, <1>5, <2>1, <2>2
<1>10. ASSUME data[m].uid # "" PROVE uniqueIdMap'[data[m].uid] = m
  <2>1. uniqueIdMap \in [Uids -> 0..lastId] /\ uniqueIdMap[data[m].uid] = m /\ data[m].uid \in Uids
    <3>1. data[m].uid \in Uids
      BY <1>1, <1>2, <1>10, DataFacts
    <3>. QED
      BY <1>1, <1>4, <1>10, <3>1 DEF TypeOK, Active
  <2>2. ASSUME NEW i, NEW x, x # m, Void(i, x) PROVE i # data[m].uid
    <3>1. SUFFICES ASSUME i = data[m].uid PROVE FALSE
      OBVIOUS
    <3>2. m \in Voided(i, x)
      BY <1>2, <2>1, <2>2, <3>1 DEF Voided
    <3>. QED
      BY <2>2, <3>2 DEF Void
  <2>3. CASE UNCHANGED uniqueIdMap
    BY <2>1, <2>3
  <2>4. ASSUME NEW t \in Threads, LET i == data[msg[t]].uid IN
                  /\ i # "" /\ i \in Uids /\ msg[t] \in Ids \ sending
                  /\ uniqueIdMap' = [uniqueIdMap EXCEPT ![i] = msg[t]] /\ Void(i, msg[t])
        PROVE  uniqueIdMap'[data[m].uid] = m
    <3>1. data[msg[t]].uid # data[m].uid
      BY <1>4, <2>2, <2>4
    <3>. QED
      BY <2>1, <2>4, <3>1
  <2>5. ASSUME NEW i \in Uids, uniqueIdMap' = [uniqueIdMap EXCEPT ![i] = 0], Void(i, 0)
        PROVE  uniqueIdMap'[data[m].uid] = m
    <3>1. m # 0
      BY <1>1, <1>2, DataFacts
    <3>2. i # data[m].uid
      BY <2>2, <2>5, <3>1
    <3>. QED
      BY <2>1, <2>5, <3>2
  <2>6. CASE CleanupRemove /\ uniqueIdMap' = [uniqueIdMap EXCEPT ![who["server"]] = 0]
    <3>1. pc["server"] = "cleanup3"
      BY <2>6 DEF CleanupRemove
    <3>2. <<who["server"], msg["server"]>> \in stale /\ msg["server"] \notin sending
      BY <1>1, <3>1 DEF Cleaning
    <3>3. who["server"] \notin Users => uniqueIdMap[who["server"]] = msg["server"]
      <4>1. \A e \in stale : e[1] \notin Users => uniqueIdMap[e[1]] = e[2]
        BY <1>1, <3>1 DEF Cleaning
      <4>. QED
        BY <3>2, <4>1
    <3>4. who["server"] # data[m].uid
      BY <1>3, <1>4, <2>1, <3>2, <3>3
    <3>. QED
      BY <2>1, <2>6, <3>4
  <2>. QED
    BY <1>1, <2>3, <2>4, <2>5, <2>6 DEF MapKept
<1>11. Active(m)'
  BY <1>4, <1>8, <1>10 DEF Active
<1>. QED
  BY <1>3, <1>8, <1>9, <1>11 DEF Keeps

\* What is promised is served.
LEMMA ServingStep ==
    ASSUME IInv, [Next]_vars, NEW p \in promised, p \in promised', p[3] \notin Users
    PROVE  Serving(p)'
<1>1. TypeOK /\ Positions /\ Placed /\ Matching
  BY DEF IInv, Positions
<1>2. /\ pc \in [Threads -> ServerAt \cup TransmitterAt] /\ who \in [Threads -> Uids \cup {"", "mail"}]
  BY <1>1 DEF Placed
<1>3. Keeps(p) /\ data[p[1]].uid = p[3] /\ Serving(p) /\ p = <<p[1], p[2], p[3]>>
  BY <1>1, PromiseFacts DEF IInv, Owing, NothingLost
<1>4. ASSUME UNCHANGED <<pc["transmitter"], who["transmitter"], work>> PROVE Serving(p)'
  BY <1>3, <1>4 DEF Serving, work
<1>5. ASSUME pc'["transmitter"] \notin Delivering \cup {"erase", "unlist"} PROVE Serving(p)'
  BY <1>5 DEF Serving, Delivering
<1>6. ASSUME pc'["transmitter"] \in Delivering \ {"drop"},
             \/ UNCHANGED <<mid, left, keep>> /\ pc["transmitter"] \in Delivering
             \/ keep' = TRUE
      PROVE  Serving(p)'
  BY <1>3, <1>6 DEF Serving, Delivering
<1>7. ASSUME NEW r, Fail(r) \/ Settle(r), mid' = mid, pc["transmitter"] \in Delivering PROVE Serving(p)'
  <2>1. CASE Settle(r)
    <3>1. /\ promised' = promised \ {<<mid, r, data[mid].uid>>} /\ UNCHANGED <<left, keep>>
          /\ pc'["transmitter"] = "drop" /\ who'["transmitter"] = r
      BY <1>2, <2>1, NameFacts DEF Settle, Goto
    <3>2. p[1] = mid => p[2] # r
      BY <1>3, <3>1
    <3>. QED
      BY <1>3, <1>7, <3>1, <3>2 DEF Serving, Delivering
  <2>2. CASE Postpone(r)
    <3>1. pc'["transmitter"] = "deliver" /\ keep' = TRUE
      BY <1>2, <2>2, NameFacts DEF Postpone, Goto
    <3>. QED
      BY <1>6, <3>1 DEF Delivering
  <2>. QED
    BY <1>7, <2>1, <2>2 DEF Fail
<1>8. CASE Serves \/ Expires
  <2>1. UNCHANGED <<pc["transmitter"], who["transmitter"], work>>
    BY <1>1, <1>8, TransmitterRests, BothRest DEF Local
  <2>. QED
    BY <1>4, <2>1
<1>9. CASE Restart
  <2>1. pc'["transmitter"] = "wait"
    BY <1>9, NameFacts DEF Restart
  <2>. QED
    BY <1>5, <2>1 DEF Delivering
<1>10. ASSUME NEW t \in Threads, RequestConfirmation(t) \/ SendMap(t) \/ SendMove(t) \/ SendPost(t)
       PROVE  Serving(p)'
  <2>1. CASE t = "server"
    <3>1. UNCHANGED <<pc["transmitter"], who["transmitter"]>>
      BY <1>1, <1>10, <2>1, NameFacts, OtherRests DEF Local
    <3>2. UNCHANGED work
      BY <1>10, <2>1 DEF RequestConfirmation, SendMap, SendMove, SendPost, Rest, work
    <3>. QED
      BY <1>4, <3>1, <3>2
  <2>2. CASE t = "transmitter"
    <3>1. pc["transmitter"] \in Delivering /\ (UNCHANGED <<mid, left, keep>> \/ keep' = TRUE)
      BY <1>10, <2>2 DEF RequestConfirmation, SendMap, SendMove, SendPost, work, Delivering
    <3>2. pc'["transmitter"] \in Delivering \ {"drop"}
      BY <1>2, <1>10, <2>2 DEF RequestConfirmation, SendMap, SendMove, SendPost, Goto, Delivering
    <3>. QED
      BY <1>6, <3>1, <3>2
  <2>. QED
    BY <2>1, <2>2, NameFacts
<1>11. CASE Wait \/ GetNextWork
  <2>1. pc'["transmitter"] \in {"fetch", "ended", "wait", "check"}
    BY <1>2, <1>11, NameFacts DEF Wait, GetNextWork, Goto
  <2>. QED
    BY <1>5, <2>1 DEF Delivering
<1>12. CASE CheckActive
  <2>1. ASSUME p[1] = mid PROVE pc'["transmitter"] = "deliver" /\ p[2] \in left' /\ mid' = mid
    BY <1>2, <1>3, <1>12, <2>1, NameFacts DEF CheckActive, Keeps, Goto
  <2>2. mid' = mid
    BY <1>12 DEF CheckActive
  <2>. QED
    BY <2>1, <2>2 DEF Serving
<1>13. ASSUME NEW r \in left, SendMessage(r) \/ AwaitConfirmation(r) \/ AskConfirmation(r) PROVE Serving(p)'
  <2>1. mid' = mid /\ pc["transmitter"] = "deliver" /\ pc["transmitter"] \in Delivering
    BY <1>13 DEF SendMessage, AwaitConfirmation, AskConfirmation, work, Delivering
  <2>2. CASE SendMessage(r)
    BY <1>7, <2>1, <2>2 DEF SendMessage
  <2>3. CASE AwaitConfirmation(r)
    <3>1. pc'["transmitter"] = "deliver" /\ keep' = TRUE
      BY <1>2, <2>3, NameFacts DEF AwaitConfirmation, Postpone, Goto
    <3>. QED
      BY <1>6, <3>1 DEF Delivering
  <2>4. CASE AskConfirmation(r)
    <3>1. pc'["transmitter"] = "request" /\ UNCHANGED <<mid, left, keep>>
      BY <1>2, <2>4, NameFacts DEF AskConfirmation, Goto, work
    <3>. QED
      BY <1>6, <2>1, <3>1 DEF Delivering
  <2>. QED
    BY <1>13, <2>2, <2>3, <2>4
<1>14. CASE RemoveReceiver
  <2>1. /\ pc["transmitter"] = "drop" /\ left' = left \ {who["transmitter"]} /\ UNCHANGED <<mid, keep>>
        /\ pc'["transmitter"] = "deliver"
    BY <1>2, <1>14, NameFacts DEF RemoveReceiver, Goto
  <2>. QED
    BY <1>3, <2>1 DEF Serving, Delivering
<1>15. CASE Postprocess
  <2>1. CASE keep
    <3>1. pc'["transmitter"] = "wait"
      BY <1>2, <1>15, <2>1, NameFacts DEF Postprocess, Rest, Goto
    <3>. QED
      BY <1>5, <3>1 DEF Delivering
  <2>2. CASE ~keep
    <3>1. pc["transmitter"] = "deliver" /\ left = {} /\ mid' = mid
      BY <1>15, <2>2 DEF Postprocess, work
    <3>2. p[1] # mid
      BY <1>3, <2>2, <3>1 DEF Serving, Delivering
    <3>. QED
      BY <3>1, <3>2 DEF Serving
  <2>. QED
    BY <2>1, <2>2
<1>16. CASE Erase \/ Unlist
  <2>1. pc["transmitter"] \in {"erase", "unlist"} /\ mid' = mid
    BY <1>16 DEF Erase, Unlist, work
  <2>2. p[1] # mid
    BY <1>3, <2>1 DEF Serving
  <2>. QED
    BY <2>1, <2>2 DEF Serving
<1>17. CASE RemoveFromWork \/ WorkFails
  <2>1. pc'["transmitter"] = "wait"
    BY <1>2, <1>17, NameFacts DEF RemoveFromWork, WorkFails, Rest, Goto
  <2>. QED
    BY <1>5, <2>1 DEF Delivering
<1>18. CASE ConfirmationFails
  <2>1. /\ Fail(who["transmitter"]) /\ mid' = mid /\ pc["transmitter"] \in Delivering
    BY <1>18 DEF ConfirmationFails, Delivering
  <2>. QED
    BY <1>7, <2>1
<1>. QED
  BY <1>8, <1>9, <1>10, <1>11, <1>12, <1>13, <1>14, <1>15, <1>16, <1>17, <1>18, ActorCases DEF Transmits

\* No step breaks a promise.
LEMMA OwingStep ==
    ASSUME IInv, [Next]_vars
    PROVE  Owing'
<1>1. ASSUME NEW p \in promised', p[3] \notin Users
      PROVE  Keeps(p)' /\ data'[p[1]].uid = p[3] /\ Serving(p)'
  <2>1. CASE p \in promised
    BY <1>1, <2>1, PromiseKept, ServingStep
  <2>2. CASE p \notin promised
    <3>1. PICK t \in Threads : SendMove(t)
      BY <1>1, <2>2, PromisesStep
    <3>2. p \in Owed(msg[t])
      BY <1>1, <2>2, <3>1 DEF SendMove
    <3>. QED
      BY <3>1, <3>2, PromiseMade
  <2>. QED
    BY <2>1, <2>2
<1>. QED
  BY <1>1 DEF Owing, NothingLost

-----------------------------------------------------------------------------
(* Voided messages. *)

\* The transmitter begins to deliver active messages only, and does so one by one.
LEMMA DeliveringStep ==
    ASSUME IInv, [Next]_vars, pc'["transmitter"] \in Delivering
    PROVE  mid' = mid /\ (pc["transmitter"] \in Delivering \/ (CheckActive /\ Active(mid)))
<1>1. Placed /\ pc \in [Threads -> ServerAt \cup TransmitterAt]
  BY DEF IInv, Positions, Placed
<1>2. CASE Serves \/ Expires
  BY <1>1, <1>2, TransmitterRests, BothRest DEF Local, work
<1>3. CASE Restart
  <2>1. pc'["transmitter"] = "wait"
    BY <1>3, NameFacts DEF Restart
  <2>. QED
    BY <2>1 DEF Delivering
<1>4. ASSUME NEW t \in Threads, RequestConfirmation(t) \/ SendMap(t) \/ SendMove(t) \/ SendPost(t)
      PROVE  mid' = mid /\ pc["transmitter"] \in Delivering
  <2>1. CASE t = "server"
    <3>1. UNCHANGED pc["transmitter"]
      BY <1>1, <1>4, <2>1, NameFacts, OtherRests DEF Local
    <3>2. UNCHANGED work
      BY <1>4, <2>1 DEF RequestConfirmation, SendMap, SendMove, SendPost, Rest, work
    <3>. QED
      BY <3>1, <3>2 DEF work
  <2>2. CASE t = "transmitter"
    BY <1>4, <2>2 DEF RequestConfirmation, SendMap, SendMove, SendPost, work, Delivering
  <2>. QED
    BY <2>1, <2>2, NameFacts
<1>5. CASE CheckActive
  BY <1>1, <1>5, NameFacts DEF CheckActive, Goto, Delivering
<1>6. CASE \/ Wait \/ GetNextWork \/ Erase \/ Unlist \/ RemoveFromWork \/ WorkFails \/ Postprocess
  <2>1. pc'["transmitter"] \in {"fetch", "ended", "wait", "check", "erase", "unlist", "unqueue"}
    BY <1>1, <1>6, NameFacts
       DEF Wait, GetNextWork, Erase, Unlist, RemoveFromWork, WorkFails, Postprocess, Goto, Rest
  <2>. QED
    BY <2>1 DEF Delivering
<1>7. CASE \/ \E r \in left : SendMessage(r) \/ AwaitConfirmation(r) \/ AskConfirmation(r)
           \/ RemoveReceiver \/ ConfirmationFails
  BY <1>7 DEF SendMessage, AwaitConfirmation, AskConfirmation, RemoveReceiver, ConfirmationFails, work,
              Delivering
<1>. QED
  BY <1>2, <1>3, <1>4, <1>5, <1>6, <1>7, ActorCases DEF Transmits

\* A voided message stays void, whatever is cancelled, replaced or cleaned up.
LEMMA VoidsStep ==
    ASSUME IInv, [Next]_vars
    PROVE  Voids'
<1>1. TypeOK /\ Positions /\ MessagesKept /\ MapKept
  BY MessagesStep, MapStep DEF IInv
<1>2. void \subseteq Ids /\ uniqueIdMap \in [Uids -> 0..lastId] /\ 0 \notin Ids
  BY <1>1, DataFacts DEF Positions, TypeOK
<1>3. ASSUME NEW o \in void', o \notin void
      PROVE  ~Active(o)' /\ ~(pc["transmitter"] \in Delivering /\ mid = o)
  <2>1. ASSUME NEW i \in Uids, NEW m, uniqueIdMap' = [uniqueIdMap EXCEPT ![i] = m], Void(i, m), UNCHANGED data
        PROVE  ~Active(o)' /\ ~(pc["transmitter"] \in Delivering /\ mid = o)
    <3>1. o \in Voided(i, m) /\ ~(pc["transmitter"] \in Delivering /\ mid = o)
      BY <1>3, <2>1 DEF Void
    <3>2. o # m /\ data[o].uid = i
      BY <3>1 DEF Voided
    <3>3. uniqueIdMap'[i] # o /\ i # ""
      BY <1>2, <2>1, <3>2, NameFacts
    <3>. QED
      BY <2>1, <3>1, <3>2, <3>3 DEF Active
  <2>2. (\E t \in Threads : SendMap(t)) \/ (\E i \in Uids : CancelMessage(i)) => UNCHANGED data
    BY DEF SendMap, CancelMessage
  <2>. QED
    BY <1>1, <1>3, <2>1, <2>2 DEF MapKept
<1>4. ASSUME NEW o \in void, o \in void' PROVE ~Active(o)'
  <2>1. SUFFICES ASSUME Active(o)' PROVE FALSE
    OBVIOUS
  <2> DEFINE u == data[o].uid
  <2>2. data[o].fresh /\ data'[o].uid = u
    BY <1>1, <1>2, <2>1 DEF Active, MessagesKept
  <2>3. u # "" /\ uniqueIdMap[u] # o
    BY <2>2 DEF IInv, Voids, Active
  <2>4. uniqueIdMap'[u] = o /\ u \in Uids
    <3>1. u \in Uids
      BY <1>1, <1>2, <2>3, DataFacts
    <3>. QED
      BY <2>1, <2>2, <2>3, <3>1 DEF Active
  <2> HIDE DEF u
  <2>5. CASE UNCHANGED uniqueIdMap
    BY <2>3, <2>4, <2>5
  <2>6. ASSUME NEW t \in Threads, LET i == data[msg[t]].uid IN
                  /\ i # "" /\ i \in Uids /\ msg[t] \in Ids \ sending
                  /\ uniqueIdMap' = [uniqueIdMap EXCEPT ![i] = msg[t]] /\ Void(i, msg[t])
        PROVE  FALSE
    <3>1. msg[t] = o
      BY <1>2, <2>3, <2>4, <2>6
    <3>2. o \notin void'
      BY <2>6, <3>1 DEF Void, Voided
    <3>. QED
      BY <1>4, <3>2
  <2>7. ASSUME NEW i \in Uids, uniqueIdMap' = [uniqueIdMap EXCEPT ![i] = 0] PROVE FALSE
    BY <1>2, <2>3, <2>4, <2>7
  <2>8. CASE uniqueIdMap' = [uniqueIdMap EXCEPT ![who["server"]] = 0]
    BY <1>2, <2>3, <2>4, <2>8
  <2>. QED
    BY <1>1, <2>5, <2>6, <2>7, <2>8 DEF MapKept
<1>5. VoidNotSent'
  <2>1. SUFFICES ASSUME pc'["transmitter"] \in Delivering, mid' \in void' PROVE FALSE
    BY DEF VoidNotSent
  <2>2. mid' = mid /\ (pc["transmitter"] \in Delivering \/ (CheckActive /\ Active(mid)))
    BY <2>1, DeliveringStep
  <2>3. CASE pc["transmitter"] \in Delivering
    BY <1>3, <2>1, <2>2, <2>3 DEF IInv, Voids, VoidNotSent
  <2>4. CASE CheckActive /\ Active(mid)
    <3>1. UNCHANGED void
      BY <2>4 DEF CheckActive, history
    <3>. QED
      BY <2>1, <2>2, <2>4, <3>1 DEF IInv, Voids
  <2>. QED
    BY <2>2, <2>3, <2>4
<1>. QED
  BY <1>3, <1>4, <1>5 DEF Voids

-----------------------------------------------------------------------------
(* The theorems. *)

\* The type invariant is inductive together with the others.
LEMMA TypeStep ==
    ASSUME IInv, [Next]_vars
    PROVE  TypeOK' /\ Positions'
<1>1. /\ DataKept /\ DatabaseTyped' /\ WorkTyped' /\ SemaphoreTyped'
      /\ Drafted' /\ Queues' /\ Recorded' /\ Placed'
  BY DataStep, DatabaseStep, WorkStep, SemaphoreStep, DraftsStep, QueuesStep, RecordedStep, ThreadsStep
     DEF QueuesRight
<1>2. TypeOK'
  BY <1>1, Zenon DEF TypeOK, DataKept, DatabaseTyped, WorkTyped, SemaphoreTyped, Drafted, Queues, Messages
<1>3. Positions'
  BY <1>1, Zenon DEF Positions, WorkTyped, Recorded
<1>. QED
  BY <1>2, <1>3

\* It holds when the service starts for the first time.
LEMMA InitGood == Init => IInv
<1> SUFFICES ASSUME Init PROVE IInv
  OBVIOUS
<1>1. /\ lastId = 0 /\ preparing = {} /\ sending = {} /\ uniqueIdMap = [i \in Uids |-> 0]
      /\ data = <<>> /\ status = [u \in Users |-> "u"]
      /\ m_wake = 0 /\ m_stopRequest = FALSE /\ m_workQueue = <<>> /\ m_postponedMessages = <<>>
      /\ drafts = {} /\ mid = 0 /\ left = {} /\ keep = FALSE /\ stale = {}
      /\ promised = {} /\ void = {} /\ missed = 0
  BY DEF Init
<1>2. /\ pc["server"] = "idle" /\ pc["transmitter"] = "wait"
      /\ pc \in [Threads -> ServerAt \cup TransmitterAt]
      /\ msg \in [Threads -> {0}] /\ who \in [Threads -> {""}]
  BY NameFacts DEF Init, ServerAt, TransmitterAt
<1>3. 0 \in Nat /\ 0 \in 0..lastId
  BY <1>1
<1>4. TypeOK
  <2>1. lastId \in Nat /\ Len(data) = lastId /\ data \in Seq(Messages)
    BY <1>1
  <2>2. uniqueIdMap \in [Uids -> 0..lastId] /\ status \in [Users -> {"u", "r", "c"}]
    BY <1>1, <1>3
  <2>3. m_workQueue \in Seq(Ids) /\ m_postponedMessages \in Seq(Ids)
    BY <1>1
  <2>4. /\ preparing \subseteq Ids /\ sending \subseteq Ids /\ preparing \cap sending = {}
        /\ m_wake \in Nat /\ m_stopRequest \in BOOLEAN
        /\ drafts \ preparing \subseteq { m \in {msg["server"]} : pc["server"] = "post" }
        /\ mid \in 0..lastId /\ left \subseteq Users \cup {"mail"} /\ keep \in BOOLEAN
    BY <1>1, <1>3
  <2>. QED
    BY <2>1, <2>2, <2>3, <2>4, Zenon DEF TypeOK, Messages
<1>5. Positions
  <2>1. Placed
    BY <1>1, <1>2, <1>3 DEF Placed, ServerAt, TransmitterAt
  <2>. QED
    BY <1>1, <1>2, <1>3, <2>1 DEF Positions, Working, Delivering
<1>6. OneQueues /\ Cleaning
  BY <1>2, NameFacts DEF OneQueues, Cleaning, Queueing
<1>7. Queues /\ InMemory = {}
  BY <1>1 DEF Queues, InMemory, ToSet, IsInjective
<1>8. Matching
  <2>1. \A m : ~IsDue(m)
    BY <1>2, NameFacts DEF IsDue
  <2>. QED
    BY <1>1, <1>2, <1>7, <2>1 DEF Matching
<1>9. AtHead /\ WakeAccounted
  <2>1. pc["transmitter"] \notin Working \cup {"fetch", "ended"}
    BY <1>2 DEF Working, Delivering
  <2>2. Len(m_workQueue) = 0
    BY <1>1
  <2>. QED
    BY <1>1, <2>1, <2>2 DEF AtHead, WakeAccounted
<1>10. Owing /\ Voids
  BY <1>1 DEF Owing, NothingLost, Voids, VoidNotSent
<1>. QED
  BY <1>4, <1>5, <1>6, <1>7, <1>8, <1>9, <1>10 DEF IInv

\* Every step keeps it.
LEMMA NextGood == IInv /\ [Next]_vars => IInv'
<1> SUFFICES ASSUME IInv, [Next]_vars PROVE IInv'
  OBVIOUS
<1>1. TypeOK' /\ Positions' /\ OneQueues' /\ Cleaning' /\ WakeAccounted' /\ Owing' /\ Voids'
  BY TypeStep, OneQueuesStep, CleaningStep, WakeStep, OwingStep, VoidsStep
<1>2. Queues' /\ Matching' /\ AtHead'
  BY QueuesStep DEF QueuesRight
<1>. QED
  BY <1>1, <1>2 DEF IInv

\* The inductive invariant holds in every state of the mail queue, for all users, unique
\* Ids, receivers, bounds and kinds of failures.
THEOREM Invariance == Spec => []IInv
BY InitGood, NextGood, PTL DEF Spec

\* What the inductive invariant says about the properties
LEMMA Consequences == IInv => TypeOK /\ Mirror /\ WakeAccounted /\ NothingLost /\ VoidNotSent
<1> SUFFICES ASSUME IInv PROVE TypeOK /\ Mirror /\ WakeAccounted /\ NothingLost /\ VoidNotSent
  OBVIOUS
<1>1. TypeOK /\ Queues /\ Matching /\ AtHead
  BY DEF IInv
<1>2. Cardinality(InMemory) = Len(m_workQueue) + Len(m_postponedMessages)
  <2> DEFINE W == ToSet(m_workQueue)
             P == ToSet(m_postponedMessages)
  <2>1. /\ m_workQueue \in Seq(Ids) /\ IsInjective(m_workQueue)
        /\ m_postponedMessages \in Seq(Ids) /\ IsInjective(m_postponedMessages)
        /\ W \cap P = {}
    BY <1>1 DEF Queues
  <2>2. /\ IsFiniteSet(W) /\ Cardinality(W) = Len(m_workQueue)
        /\ IsFiniteSet(P) /\ Cardinality(P) = Len(m_postponedMessages)
    BY <2>1, DistinctCardinality
  <2>3. Len(m_workQueue) \in Nat /\ Len(m_postponedMessages) \in Nat
    BY <2>1
  <2>4. InMemory = W \cup P
    BY DEF InMemory
  <2> HIDE DEF W, P
  <2>5. Cardinality(W \cup P) = Cardinality(W) + Cardinality(P) - Cardinality(W \cap P)
    BY <2>2, FS_Union
  <2>6. Cardinality(W \cap P) = 0
    BY <2>1, FS_EmptySet
  <2>7. Cardinality(W) + Cardinality(P) - 0 = Len(m_workQueue) + Len(m_postponedMessages)
    BY <2>2, <2>3
  <2>. QED
    BY <2>4, <2>5, <2>6, <2>7
<1>3. InMemory \ sending \subseteq { m \in {mid} : pc["transmitter"] = "unqueue" }
  BY <1>1 DEF Matching
<1>4. sending \ InMemory \subseteq
        { msg[t] : t \in { x \in Threads : pc[x] = "post" } }
        \cup { e[2] : e \in { x \in stale : pc["server"] = "startup" } }
  <2>1. ASSUME NEW m \in sending \ InMemory
        PROVE  \/ \E t \in { x \in Threads : pc[x] = "post" } : msg[t] = m
               \/ \E e \in { x \in stale : pc["server"] = "startup" } : e[2] = m
    BY <1>1 DEF Matching, IsDue
  <2>. QED
    BY <2>1
<1>5. Mirror
  BY <1>1, <1>2, <1>3, <1>4 DEF Mirror, AtHead
<1>. QED
  BY <1>1, <1>5 DEF IInv, Owing, Voids

\* Every variable has its type, and only messages in preparation are drafts.
THEOREM TypeCorrect == Spec => []TypeOK
BY Invariance, Consequences, PTL

\* The transmitter's lists mirror the sending queue: each message is on them once, except
\* while it is being added or removed, and the one worked on is the head
\* (transmitterimpl.hpp:39-46, 116).
THEOREM Mirrored == Spec => []Mirror
BY Invariance, Consequences, PTL

\* The semaphore has a unit for each message in the work queue that is not being worked on
\* and for a stop request, but for those lost to exceptions (transmitterimpl.hpp:113).
THEOREM WakeupsAccounted == Spec => []WakeAccounted
BY Invariance, Consequences, PTL

\* An accepted message of a client that neither expired nor was replaced nor cancelled is in
\* the database for each receiver not served yet, across crashes, shutdowns and failing
\* accesses (message.cpp:80, root.cpp:88, transmitterimpl.cpp:243).
THEOREM NotLost == Spec => []NothingLost
BY Invariance, Consequences, PTL

\* A message cancelled or replaced before its delivery began is never delivered
\* (message.hpp:94).
THEOREM VoidStays == Spec => []VoidNotSent
BY Invariance, Consequences, PTL

=============================================================================
