----------------------------- MODULE MailQueue -----------------------------
(***************************************************************************)
(* server::mailout: the queue of outgoing mail.  One server thread         *)
(* executes commands, the transmitter thread sends; both use a database    *)
(* that survives a restart, each access being atomic but no two of them.   *)
(* The transmitter keeps a copy of the set of messages to send in memory.  *)
(***************************************************************************)
EXTENDS Integers, Sequences, FiniteSets, SequencesExt, Lists

CONSTANTS
    Users,          \* users with one email address each, which they can confirm
    ClientIds,      \* unique Ids clients give to messages, "" for none
    Receivers,      \* sets of receivers clients give: "mail", an address, or users
    MaxMessages,    \* bound: messages allocated in a run
    MaxEvents,      \* bound: commands, expirations and restarts in a run
    Faults          \* subset of {"crash", "database"}: what may go wrong

ASSUME MessagesAssumption == MaxMessages \in Nat /\ MaxEvents \in Nat
ASSUME NamesAssumption == Users \cap (ClientIds \cup {"mail", ""}) = {}
ASSUME ReceiversAssumption == Receivers \subseteq SUBSET (Users \cup {"mail"}) /\ {} \notin Receivers
ASSUME FaultsAssumption == Faults \subseteq {"crash", "database"}

VARIABLES
    lastId, preparing, sending, uniqueIdMap, data, status,  \* database
    m_wake, m_stopRequest, m_workQueue, m_postponedMessages, \* TransmitterImpl::Data
    drafts,         \* messages that are the currentMessage of some session
    pc, msg, who,   \* per thread: position, message being queued, user asked to confirm
    mid, left, keep, \* transmitter: message, receivers still to handle, postponed?
    stale,          \* server: entries of uniqueIdMap to look at, or messages to send
    promised,       \* history: deliveries owed: message, receiver, unique Id
    void,           \* history: messages cancelled or replaced before they were worked on
    missed,         \* history: wakeups the transmitter lost to exceptions
    events          \* commands, expirations and restarts so far

db == <<lastId, preparing, sending, uniqueIdMap, data, status>>
ram == <<m_wake, m_stopRequest, m_workQueue, m_postponedMessages, drafts>>
work == <<mid, left, keep>>
history == <<promised, void, missed>>
vars == <<db, ram, pc, msg, who, work, stale, history, events>>

Threads == {"server", "transmitter"}
Ids == 1..lastId
Uids == Users \cup (ClientIds \ {""})   \* a confirmation's unique Id is its user
NoData == [uid |-> "", to |-> {}, fresh |-> FALSE]

\* Delivery has begun: the transmitter has checked that the message is active.
Delivering == {"deliver", "drop", "request", "map", "move", "post"}
Working == Delivering \cup {"check", "erase", "unlist", "unqueue"}

Event == events < MaxEvents /\ events' = events + 1

Goto(t, label) == pc' = [pc EXCEPT ![t] = label]

\* Thread t has finished what it did, its local variables are gone.
Rest(t) ==
    /\ Goto(t, IF t = "server" THEN "idle" ELSE "wait")
    /\ msg' = [msg EXCEPT ![t] = 0] /\ who' = [who EXCEPT ![t] = ""]
    /\ IF t = "server" THEN UNCHANGED work ELSE mid' = 0 /\ left' = {} /\ keep' = FALSE

Init ==
    /\ lastId = 0 /\ preparing = {} /\ sending = {}
    /\ uniqueIdMap = [i \in Uids |-> 0]
    /\ data = <<>>
    /\ status = [u \in Users |-> "u"]
    /\ m_wake = 0 /\ m_stopRequest = FALSE
    /\ m_workQueue = <<>> /\ m_postponedMessages = <<>> /\ drafts = {}
    /\ pc = [t \in Threads |-> IF t = "server" THEN "idle" ELSE "wait"]
    /\ msg = [t \in Threads |-> 0] /\ who = [t \in Threads |-> ""]
    /\ mid = 0 /\ left = {} /\ keep = FALSE
    /\ stale = {}
    /\ promised = {} /\ void = {} /\ missed = 0 /\ events = 0

\* m is still the message to be sent under its unique Id, and not too old.
Active(m) ==
    /\ data[m].uid = "" \/ uniqueIdMap[data[m].uid] = m
    /\ data[m].fresh

----------------------------------------------------------------------------
(* Accounting. *)

\* The messages other than m that are voided when unique Id i stops naming them.
Voided(i, m) == { o \in Ids \ {m} : data[o].uid = i /\ uniqueIdMap[i] = o }

Void(i, m) ==
    /\ promised' = { p \in promised : p[1] \notin Voided(i, m) }
    /\ void' = (void \ {m}) \cup
                 { o \in Voided(i, m) : ~(pc["transmitter"] \in Delivering /\ mid = o) }
    /\ UNCHANGED missed

\* Messages that the bound must leave room for: both threads may see a user
\* unconfirmed and ask for a confirmation.
Reserve == 2 * Cardinality({ u \in Users : status[u] = "u" })
           + Cardinality({ t \in Threads : pc[t] = "request" })

\* allocateMessage(), and filling in the message
Allocate(uid, to) ==
    /\ lastId' = lastId + 1
    /\ preparing' = preparing \cup {lastId + 1}
    /\ data' = Append(data, [uid |-> uid, to |-> to, fresh |-> TRUE])

----------------------------------------------------------------------------
(* Queueing a message: Message::send() and Transmitter::send(), by either  *)
(* thread.                                                                 *)

RequestConfirmation(t) ==
    /\ pc[t] = "request"
    /\ status' = [status EXCEPT ![who[t]] = "r"]
    /\ Allocate(who[t], {"mail"})
    /\ msg' = [msg EXCEPT ![t] = lastId + 1]
    /\ Goto(t, "map")
    /\ UNCHANGED <<sending, uniqueIdMap, ram, who, work, stale, history, events>>

SendMap(t) ==
    LET i == data[msg[t]].uid IN
    /\ pc[t] = "map"
    /\ IF i = ""
       THEN UNCHANGED <<uniqueIdMap, history>>
       ELSE uniqueIdMap' = [uniqueIdMap EXCEPT ![i] = msg[t]] /\ Void(i, msg[t])
    /\ Goto(t, "move")
    /\ UNCHANGED <<lastId, preparing, sending, data, status, ram, msg, who, work,
                   stale, events>>

\* What is owed once m is in the sending queue, unless it was replaced meanwhile.
Owed(m) == IF Active(m) THEN {m} \X data[m].to \X {data[m].uid} ELSE {}

SendMove(t) ==
    /\ pc[t] = "move"
    /\ preparing' = preparing \ {msg[t]}
    /\ sending' = sending \cup {msg[t]}
    /\ promised' = promised \cup Owed(msg[t])
    /\ Goto(t, "post")
    /\ UNCHANGED <<lastId, uniqueIdMap, data, status, ram, msg, who, work, stale,
                   void, missed, events>>

\* Mutant: the semaphore is raised for the first message only.
SendPostOnce(t) ==
    /\ pc[t] = "post"
    /\ m_workQueue' = Append(m_workQueue, msg[t])
    /\ m_wake' = IF m_workQueue = <<>> THEN m_wake + 1 ELSE m_wake
    /\ IF t = "server"
       THEN Rest(t) /\ drafts' = drafts \ {msg[t]}
       ELSE /\ Goto(t, "deliver") /\ left' = left \ {who[t]} /\ keep' = TRUE
            /\ msg' = [msg EXCEPT ![t] = 0] /\ who' = [who EXCEPT ![t] = ""]
            /\ UNCHANGED <<mid, drafts>>
    /\ UNCHANGED <<db, m_stopRequest, m_postponedMessages, stale, history, events>>

SendPost(t) ==
    /\ pc[t] = "post"
    /\ m_workQueue' = Append(m_workQueue, msg[t])
    /\ m_wake' = m_wake + 1
    /\ IF t = "server"
       THEN Rest(t) /\ drafts' = drafts \ {msg[t]}
       ELSE /\ Goto(t, "deliver") /\ left' = left \ {who[t]} /\ keep' = TRUE
            /\ msg' = [msg EXCEPT ![t] = 0] /\ who' = [who EXCEPT ![t] = ""]
            /\ UNCHANGED <<mid, drafts>>
    /\ UNCHANGED <<db, m_stopRequest, m_postponedMessages, stale, history, events>>

----------------------------------------------------------------------------
(* Commands. *)

StartMessage(uid) ==
    /\ pc["server"] = "idle"
    /\ lastId + Reserve < MaxMessages
    /\ Allocate(uid, {})
    /\ drafts' = drafts \cup {lastId + 1}
    /\ UNCHANGED <<sending, uniqueIdMap, status, m_wake, m_stopRequest, m_workQueue,
                   m_postponedMessages, pc, msg, who, work, stale, history, events>>

Send(m, to) ==
    /\ Event
    /\ pc["server"] = "idle"
    /\ m \in drafts
    /\ data' = [data EXCEPT ![m].to = @ \cup to]
    /\ msg' = [msg EXCEPT !["server"] = m]
    /\ Goto("server", "map")
    /\ UNCHANGED <<lastId, preparing, sending, uniqueIdMap, status, ram, who, work,
                   stale, history>>

CancelMessage(uid) ==
    /\ Event
    /\ pc["server"] = "idle"
    /\ uniqueIdMap' = [uniqueIdMap EXCEPT ![uid] = 0]
    /\ Void(uid, 0)
    /\ UNCHANGED <<lastId, preparing, sending, data, status, ram, pc, msg, who, work,
                   stale>>

RequestAddress(u) ==
    /\ Event
    /\ pc["server"] = "idle"
    /\ status[u] = "u"
    /\ who' = [who EXCEPT !["server"] = u]
    /\ Goto("server", "request")
    /\ UNCHANGED <<db, ram, msg, work, stale, history>>

ConfirmAddress(u) ==
    /\ Event
    /\ pc["server"] = "idle"
    /\ status' = [status EXCEPT ![u] = "c"]
    /\ Goto("server", "runqueue")
    /\ UNCHANGED <<lastId, preparing, sending, uniqueIdMap, data, ram, msg, who, work,
                   stale, history>>

RunQueue ==
    /\ Event
    /\ pc["server"] = "idle"
    /\ stale' = { e \in Uids \X Ids : uniqueIdMap[e[1]] = e[2] }
    /\ Goto("server", "cleanup")
    /\ UNCHANGED <<db, ram, msg, who, work, history>>

\* cleanupUniqueIdMap() for one entry: three accesses
CleanupPreparing(e) ==
    /\ pc["server"] = "cleanup"
    /\ e \in stale
    /\ IF e[2] \in preparing
       THEN stale' = stale \ {e} /\ UNCHANGED <<pc, msg, who>>
       ELSE /\ msg' = [msg EXCEPT !["server"] = e[2]]
            /\ who' = [who EXCEPT !["server"] = e[1]]
            /\ Goto("server", "cleanup2") /\ UNCHANGED stale
    /\ UNCHANGED <<db, ram, work, history, events>>

\* Mutant: only messages in preparation keep their entry.
CleanupAnySending ==
    /\ pc["server"] = "cleanup2"
    /\ Goto("server", "cleanup3") /\ UNCHANGED stale
    /\ UNCHANGED <<db, ram, msg, who, work, history, events>>

CleanupSending ==
    LET e == <<who["server"], msg["server"]>> IN
    /\ pc["server"] = "cleanup2"
    /\ IF e[2] \in sending
       THEN stale' = stale \ {e} /\ Goto("server", "cleanup")
       ELSE Goto("server", "cleanup3") /\ UNCHANGED stale
    /\ UNCHANGED <<db, ram, msg, who, work, history, events>>

CleanupRemove ==
    LET e == <<who["server"], msg["server"]>> IN
    /\ pc["server"] = "cleanup3"
    /\ uniqueIdMap' = [uniqueIdMap EXCEPT ![e[1]] = 0]
    /\ stale' = stale \ {e}
    /\ Goto("server", "cleanup")
    /\ UNCHANGED <<lastId, preparing, sending, data, status, ram, msg, who, work,
                   history, events>>

\* Mutant: the list of postponed messages is copied.
CopyPendingToWork ==
    /\ \/ pc["server"] = "runqueue"
       \/ pc["server"] = "cleanup" /\ stale = {}
    /\ m_workQueue' = m_workQueue \o m_postponedMessages
    /\ m_wake' = m_wake + Len(m_postponedMessages)
    /\ Rest("server")
    /\ UNCHANGED <<db, m_stopRequest, m_postponedMessages, drafts, stale, history,
                   events>>

\* movePendingToWork(), called by RunQueue and ConfirmAddress
MovePendingToWork ==
    /\ \/ pc["server"] = "runqueue"
       \/ pc["server"] = "cleanup" /\ stale = {}
    /\ m_workQueue' = m_workQueue \o m_postponedMessages
    /\ m_postponedMessages' = <<>>
    /\ m_wake' = m_wake + Len(m_postponedMessages)
    /\ Rest("server")
    /\ UNCHANGED <<db, m_stopRequest, drafts, stale, history, events>>

\* Shutdown: the server thread has ended, ~TransmitterImpl stops the transmitter.
Stop ==
    /\ Event
    /\ pc["server"] = "idle"
    /\ m_stopRequest' = TRUE
    /\ m_wake' = m_wake + 1
    /\ Goto("server", "stopped")
    /\ UNCHANGED <<db, m_workQueue, m_postponedMessages, drafts, msg, who, work, stale,
                   history>>

----------------------------------------------------------------------------
(* The transmitter: run() and processWork(). *)

Wait ==
    /\ pc["transmitter"] = "wait"
    /\ m_wake > 0
    /\ m_wake' = m_wake - 1
    /\ Goto("transmitter", "fetch")
    /\ UNCHANGED <<db, m_stopRequest, m_workQueue, m_postponedMessages, drafts, msg,
                   who, work, stale, history, events>>

GetNextWork ==
    /\ pc["transmitter"] = "fetch"
    /\ \/ m_stopRequest /\ Goto("transmitter", "ended") /\ UNCHANGED work
       \/ /\ ~m_stopRequest /\ m_workQueue = <<>>
          /\ Goto("transmitter", "wait") /\ UNCHANGED work
       \/ /\ ~m_stopRequest /\ m_workQueue # <<>>
          /\ mid' = Head(m_workQueue)
          /\ Goto("transmitter", "check") /\ UNCHANGED <<left, keep>>
    /\ UNCHANGED <<db, ram, msg, who, stale, history, events>>

\* Mutant: a message is sent whether or not its unique Id still names it.
CheckExpiry ==
    /\ pc["transmitter"] = "check"
    /\ IF data[mid].fresh
       THEN Goto("transmitter", "deliver") /\ left' = data[mid].to
       ELSE Goto("transmitter", "erase") /\ UNCHANGED left
    /\ keep' = FALSE
    /\ UNCHANGED <<db, ram, msg, who, mid, stale, history, events>>

\* Mutant: an inactive message is left where it is.
IgnoreInactive ==
    /\ pc["transmitter"] = "check"
    /\ IF Active(mid)
       THEN /\ Goto("transmitter", "deliver") /\ left' = data[mid].to /\ keep' = FALSE
            /\ UNCHANGED <<msg, who, mid>>
       ELSE Rest("transmitter")
    /\ UNCHANGED <<db, ram, stale, history, events>>

CheckActive ==
    /\ pc["transmitter"] = "check"
    /\ IF Active(mid)
       THEN Goto("transmitter", "deliver") /\ left' = data[mid].to
       ELSE Goto("transmitter", "erase") /\ UNCHANGED left
    /\ keep' = FALSE
    /\ UNCHANGED <<db, ram, msg, who, mid, stale, history, events>>

\* The receiver has been served or has failed for good; its entry is to be removed.
Settle(r) ==
    /\ promised' = promised \ {<<mid, r, data[mid].uid>>}
    /\ who' = [who EXCEPT !["transmitter"] = r]
    /\ Goto("transmitter", "drop")
    /\ UNCHANGED <<left, keep, void, missed>>

\* Receiver r is kept for later.
Postpone(r) ==
    /\ left' = left \ {r} /\ keep' = TRUE
    /\ who' = [who EXCEPT !["transmitter"] = ""]
    /\ Goto("transmitter", "deliver")
    /\ UNCHANGED history

\* An exception while serving r; during shutdown that is not held against r.
Fail(r) == IF m_stopRequest THEN Postpone(r) ELSE Settle(r)

\* sendMessage(): resolve the address, and transmit if it is confirmed
SendMessage(r) ==
    /\ pc["transmitter"] = "deliver"
    /\ r \in left
    /\ r \in Users => status[r] = "c"
    /\ Settle(r) \/ Fail(r)
    /\ UNCHANGED <<db, ram, msg, mid, stale, events>>

AwaitConfirmation(r) ==
    /\ pc["transmitter"] = "deliver"
    /\ r \in left \cap Users
    /\ status[r] = "r"
    /\ Postpone(r)
    /\ UNCHANGED <<db, ram, msg, mid, stale, events>>

AskConfirmation(r) ==
    /\ pc["transmitter"] = "deliver"
    /\ r \in left \cap Users
    /\ status[r] = "u"
    /\ who' = [who EXCEPT !["transmitter"] = r]
    /\ Goto("transmitter", "request")
    /\ UNCHANGED <<db, ram, msg, work, stale, history, events>>

RemoveReceiver ==
    LET r == who["transmitter"] IN
    /\ pc["transmitter"] = "drop"
    /\ data' = [data EXCEPT ![mid].to = @ \ {r}]
    /\ left' = left \ {r}
    /\ who' = [who EXCEPT !["transmitter"] = ""]
    /\ Goto("transmitter", "deliver")
    /\ UNCHANGED <<lastId, preparing, sending, uniqueIdMap, status, ram, msg, mid,
                   keep, stale, history, events>>

Postprocess ==
    /\ pc["transmitter"] = "deliver"
    /\ left = {}
    /\ IF keep
       THEN /\ m_workQueue' = Kept(m_workQueue, Ids \ {mid})
            /\ m_postponedMessages' = Append(m_postponedMessages, mid)
            /\ Rest("transmitter")
       ELSE /\ Goto("transmitter", "erase")
            /\ UNCHANGED <<m_workQueue, m_postponedMessages, msg, who, work>>
    /\ UNCHANGED <<db, m_wake, m_stopRequest, drafts, stale, history, events>>

\* Message::remove(): the message's data, then its membership; removeFromWork()
Erase ==
    /\ pc["transmitter"] = "erase"
    /\ data' = [data EXCEPT ![mid] = NoData]
    /\ Goto("transmitter", "unlist")
    /\ UNCHANGED <<lastId, preparing, sending, uniqueIdMap, status, ram, msg, who, work,
                   stale, history, events>>

Unlist ==
    /\ pc["transmitter"] = "unlist"
    /\ sending' = sending \ {mid}
    /\ void' = void \ {mid}
    /\ Goto("transmitter", "unqueue")
    /\ UNCHANGED <<lastId, preparing, uniqueIdMap, data, status, ram, msg, who, work,
                   stale, promised, missed, events>>

RemoveFromWork ==
    /\ pc["transmitter"] = "unqueue"
    /\ m_workQueue' = Kept(m_workQueue, Ids \ {mid})
    /\ Rest("transmitter")
    /\ UNCHANGED <<db, m_wake, m_stopRequest, m_postponedMessages, drafts, stale,
                   history, events>>

----------------------------------------------------------------------------
(* Time, failures and restarts. *)

\* The expiry time of a message passes; of a draft, that shows once it is queued.
ExpireMessage(m) ==
    /\ Event
    /\ data[m].fresh
    /\ m \in sending
    /\ data' = [data EXCEPT ![m].fresh = FALSE]
    /\ promised' = { p \in promised : p[1] # m }
    /\ UNCHANGED <<lastId, preparing, sending, uniqueIdMap, status, ram, pc, msg, who,
                   work, stale, void, missed>>

\* The expiry time of a confirmation request passes; it counts as not made.
ExpireRequest(u) ==
    /\ Event
    /\ status[u] = "r"
    /\ lastId + Reserve + 2 <= MaxMessages
    /\ status' = [status EXCEPT ![u] = "u"]
    /\ UNCHANGED <<lastId, preparing, sending, uniqueIdMap, data, ram, pc, msg, who,
                   work, stale, history>>

\* An access to the database fails in the server thread: the command ends.
CommandFails ==
    /\ "database" \in Faults
    /\ pc["server"] \in {"request", "map", "move", "cleanup", "cleanup2", "cleanup3"}
    /\ Rest("server")
    /\ stale' = {}
    /\ UNCHANGED <<db, ram, history, events>>

\* ... while a confirmation is being queued: the receiver has failed
ConfirmationFails ==
    /\ "database" \in Faults
    /\ pc["transmitter"] \in {"request", "map", "move"}
    /\ Fail(who["transmitter"])
    /\ msg' = [msg EXCEPT !["transmitter"] = 0]
    /\ UNCHANGED <<db, ram, mid, stale, events>>

\* ... elsewhere in processWork(): run() goes back to waiting
WorkFails ==
    /\ "database" \in Faults
    /\ pc["transmitter"] \in {"check", "drop", "erase", "unlist"}
    /\ Rest("transmitter")
    /\ missed' = missed + 1
    /\ UNCHANGED <<db, ram, stale, promised, void, events>>

\* The service ends, by a crash or a shutdown, and starts again: prepareQueues()
\* discards the partial messages and looks up the ones to be sent.
Restart ==
    /\ Event
    /\ "crash" \in Faults \/ pc["transmitter"] = "ended"
    /\ data' = [m \in Ids |-> IF m \in preparing THEN NoData ELSE data[m]]
    /\ preparing' = {}
    /\ m_wake' = 0 /\ m_stopRequest' = FALSE
    /\ m_workQueue' = <<>> /\ m_postponedMessages' = <<>> /\ drafts' = {}
    /\ pc' = [t \in Threads |-> IF t = "server" THEN "startup" ELSE "wait"]
    /\ msg' = [t \in Threads |-> 0] /\ who' = [t \in Threads |-> ""]
    /\ mid' = 0 /\ left' = {} /\ keep' = FALSE
    /\ stale' = {""} \X sending
    /\ missed' = 0
    /\ UNCHANGED <<lastId, sending, uniqueIdMap, status, promised, void>>

StartupSend(e) ==
    /\ pc["server"] = "startup"
    /\ e \in stale
    /\ stale' = stale \ {e}
    /\ m_workQueue' = Append(m_workQueue, e[2])
    /\ m_wake' = m_wake + 1
    /\ UNCHANGED <<db, m_stopRequest, m_postponedMessages, drafts, pc, msg, who, work,
                   history, events>>

StartupEnd ==
    /\ pc["server"] = "startup"
    /\ stale = {}
    /\ Goto("server", "idle")
    /\ UNCHANGED <<db, ram, msg, who, work, stale, history, events>>

----------------------------------------------------------------------------
Queue(t) == RequestConfirmation(t) \/ SendMap(t) \/ SendMove(t) \/ SendPost(t)

Cleanup == (\E e \in stale : CleanupPreparing(e)) \/ CleanupSending \/ CleanupRemove

Startup == (\E e \in stale : StartupSend(e)) \/ StartupEnd

Server == Queue("server") \/ Cleanup \/ MovePendingToWork \/ Startup

Command ==
    \/ \E uid \in ClientIds : StartMessage(uid)
    \/ \E m \in drafts, to \in Receivers : Send(m, to)
    \/ \E uid \in ClientIds \ {""} : CancelMessage(uid)
    \/ \E u \in Users : RequestAddress(u) \/ ConfirmAddress(u)
    \/ RunQueue
    \/ Stop

Transmitter ==
    \/ Wait \/ GetNextWork \/ CheckActive
    \/ \E r \in left : SendMessage(r) \/ AwaitConfirmation(r) \/ AskConfirmation(r)
    \/ Queue("transmitter")
    \/ RemoveReceiver \/ Postprocess \/ Erase \/ Unlist \/ RemoveFromWork

Expiration == (\E m \in Ids : ExpireMessage(m)) \/ (\E u \in Users : ExpireRequest(u))

Failure == CommandFails \/ ConfirmationFails \/ WorkFails

Next == Server \/ Command \/ Transmitter \/ Expiration \/ Failure \/ Restart

Spec == Init /\ [][Next]_vars

FairSpec == Spec /\ WF_vars(Server) /\ WF_vars(Transmitter)

----------------------------------------------------------------------------
(* Properties. *)

InMemory == ToSet(m_workQueue) \cup ToSet(m_postponedMessages)

\* Every variable has its type, and only messages in preparation are drafts.
TypeOK ==
    /\ lastId \in Nat /\ Len(data) = lastId
    /\ preparing \subseteq Ids /\ sending \subseteq Ids /\ preparing \cap sending = {}
    /\ uniqueIdMap \in [Uids -> 0..lastId]
    /\ data \in Seq([uid : Uids \cup {""}, to : SUBSET (Users \cup {"mail"}), fresh : BOOLEAN])
    /\ status \in [Users -> {"u", "r", "c"}]
    /\ m_wake \in Nat /\ m_stopRequest \in BOOLEAN
    /\ m_workQueue \in Seq(Ids) /\ m_postponedMessages \in Seq(Ids)
    /\ drafts \ preparing \subseteq { m \in {msg["server"]} : pc["server"] = "post" }
    /\ mid \in 0..lastId /\ left \subseteq Users \cup {"mail"} /\ keep \in BOOLEAN

\* The transmitter's lists mirror the sending queue in memory, whatever is queued,
\* confirmed, restarted or failing meanwhile: each message is on them once, except
\* while it is being added or removed; the one worked on is the head
\* (transmitterimpl.hpp:39-46, 116).
Mirror ==
    /\ TypeOK
    /\ Cardinality(InMemory) = Len(m_workQueue) + Len(m_postponedMessages)
    /\ InMemory \ sending \subseteq { m \in {mid} : pc["transmitter"] = "unqueue" }
    /\ sending \ InMemory \subseteq
         { msg[t] : t \in { x \in Threads : pc[x] = "post" } }
         \cup { e[2] : e \in { x \in stale : pc["server"] = "startup" } }
    /\ pc["transmitter"] \in Working => m_workQueue # <<>> /\ Head(m_workQueue) = mid

\* The semaphore has one unit for each message in the work queue that is not being
\* worked on, and one for a stop request: no wakeup is lost or too many, except those
\* that database exceptions consumed (transmitterimpl.hpp:113).
WakeAccounted ==
    LET awake == pc["transmitter"] \in Working \cup {"fetch", "ended"}
    IN  m_wake + missed + (IF awake THEN 1 ELSE 0)
          = Len(m_workQueue) + (IF m_stopRequest THEN 1 ELSE 0)

\* Across cancellations, replacements, shutdowns, crashes and failing database accesses,
\* a message from a client that was accepted, and neither expired nor was replaced nor
\* cancelled, is still in the database for each receiver that it was not given to and
\* that did not fail (message.cpp:80, root.cpp:88, transmitterimpl.cpp:243).
Keeps(p) ==
    /\ p[1] \in sending
    /\ p[2] \in data[p[1]].to
    /\ Active(p[1])

NothingLost == \A p \in promised : p[3] \notin Users => Keeps(p)

\* A message that was cancelled, or replaced by one with the same unique Id, before the
\* transmitter began to deliver it is never delivered, also after a restart and after the
\* replacement itself was sent and cleaned up (message.hpp:94).
VoidNotSent == pc["transmitter"] \in Delivering => mid \notin void

\* However many messages and confirmations are queued while it works, the transmitter
\* eventually gets through its work queue once commands cease, unless the service is
\* stopped or a database exception cost it a wakeup (transmitterimpl.cpp:161).
WorkProcessed ==
    m_workQueue # <<>> ~> m_workQueue = <<>> \/ m_stopRequest \/ missed > 0

\* A confirmation request that was queued is delivered as well: cleaning up unique Ids
\* "is not a problem because all message queueing happens in the same thread, only the
\* transmitter operates in parallel" (root.cpp:269).  The transmitter queues, too.
ConfirmationsKept == \A p \in promised : p[3] \in Users => Keeps(p)
=============================================================================
