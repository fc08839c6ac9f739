----------------------------- MODULE Connection -----------------------------
(***************************************************************************)
(* A game connection from its login on (connection.cpp), its protocol      *)
(* object (protocol.cpp, protocolgame.cpp) and its output messages         *)
(* (outputmessage.cpp). Two threads work on them. The io_service thread    *)
(* executes the completion handlers one after the other, in the order in   *)
(* which they became ready; each runs under m_connectionLock. The          *)
(* dispatcher executes tasks, and after each one OutputMessagePool's       *)
(* sendAll, which takes m_connectionLock for one message at a time. An     *)
(* OutputMessage_ptr releases its message when the last holder lets go of  *)
(* it, and the references that a message keeps to its connection and       *)
(* protocol are given back later, by a task.                               *)
(* Every error code of a read or write has the same effect here: the error *)
(* branches differ in what they log, and closeConnection is called in all. *)
(***************************************************************************)
EXTENDS Integers, SequencesExt

CONSTANTS
    Messages,         \* bound: the output messages that exist at one time
    NoMessage,        \* an empty OutputMessage_ptr
    Capacity,         \* the writes that fill a message, so that none is added
    MaxWrites         \* bound: the writes of the game to this client

TaskNames == {"login", "logout", "connect", "close", "releaseConnection", "releaseProtocol"}

ASSUME ConnectionConstants ==
    /\ NoMessage \notin Messages
    /\ Messages \cap TaskNames = {}
    /\ Capacity \in Nat \ {0}
    /\ MaxWrites \in Nat

VARIABLES
    connectionState,  \* Connection::m_connectionState
    pendingRead,      \* Connection::m_pendingRead
    pendingWrite,     \* Connection::m_pendingWrite
    errors,           \* which of m_readError and m_writeError are set
    socket,           \* *m_socket; "fault" once it was used after its deletion
    osRead,           \* the read that the system has not completed
    osWrite,          \* whether the system has a write to complete
    readTimer,        \* m_readTimer: armed until it expires or is cancelled
    writeTimer,       \* m_writeTimer
    ioQueue,          \* the handlers the io_service thread has to execute
    writing,          \* the message in the hands of the system or of a handler
    written,          \* the message the handler that has returned still holds
    refCount,         \* Connection::m_refCount
    protocol,         \* the protocol object and its link with the connection
    protocolRefs,     \* Protocol::m_refCount
    client,           \* whether a player's client is this protocol
    outputBuffer,     \* Protocol::m_outputBuffer
    autoSend,         \* OutputMessagePool::m_autoSendOutputMessages
    toAddQueue,       \* OutputMessagePool::m_toAddQueue
    first, last,      \* the first and the last write a message contains
    writes,           \* history: the writes of the game so far
    wireLast,         \* history: the last write that was handed to the system
    overflow,         \* history: a message was begun while two were under way
    tasks,            \* this connection's tasks in the dispatcher's list
    events,           \* this connection's events in the scheduler
    dpc, cursor       \* where the dispatcher thread is

stateVars == <<connectionState, pendingRead, pendingWrite, errors>>
ioVars == <<socket, osRead, osWrite, readTimer, writeTimer, ioQueue, writing, written>>
refVars == <<refCount, protocol, protocolRefs, client>>
bufferVars == <<outputBuffer, autoSend, toAddQueue, first, last, writes, wireLast, overflow>>
dispatcherVars == <<tasks, events, dpc, cursor>>
vars == <<stateVars, ioVars, refVars, bufferVars, dispatcherVars>>

\* The first packet has been parsed: the login is queued, the next read begun.
Init ==
    /\ connectionState = "OPEN"
    /\ pendingRead = 1
    /\ pendingWrite = 0
    /\ errors = {}
    /\ socket = "open"
    /\ osRead = "header"
    /\ osWrite = "none"
    /\ readTimer = "armed"
    /\ writeTimer = "off"
    /\ ioQueue = <<>>
    /\ writing = NoMessage
    /\ written = NoMessage
    /\ refCount = 0
    /\ protocol = "attached"
    /\ protocolRefs = 0
    /\ client = "none"
    /\ outputBuffer = NoMessage
    /\ autoSend = <<>>
    /\ toAddQueue = <<>>
    /\ first = [m \in Messages |-> 0]
    /\ last = [m \in Messages |-> 0]
    /\ writes = 0
    /\ wireLast = 0
    /\ overflow = "no"
    /\ tasks = <<"login">>
    /\ events = {}
    /\ dpc = "idle"
    /\ cursor = 0

-----------------------------------------------------------------------------
(* closeConnection and closeSocket, which most handlers call.              *)

IsClosing == connectionState \in {"CLOSED", "REQUEST_CLOSE"}

\* Connection::closeConnection, with the tasks that were queued before.
CloseConnection(queued) ==
    /\ connectionState' = IF IsClosing THEN connectionState ELSE "REQUEST_CLOSE"
    /\ tasks' = IF IsClosing THEN queued ELSE Append(queued, "close")

\* Closing a socket completes what the system had to do, with an error.
Aborted ==
    LET r == CASE osRead = "header" -> <<"headerError">>
               [] osRead = "body"   -> <<"packetError">>
               [] OTHER             -> <<>>
        w == IF osWrite = "busy" THEN <<"writeError">> ELSE <<>>
    IN  {r \o w, w \o r}

\* Connection::closeSocket; a socket that was deleted cannot be asked anything.
SocketCloses ==
    IF socket = "open"
    THEN /\ socket' = "closed"
         /\ pendingRead' = 0
         /\ pendingWrite' = 0
         /\ osRead' = "none"
         /\ osWrite' = "none"
    ELSE /\ socket' = IF socket = "closed" THEN "closed" ELSE "fault"
         /\ UNCHANGED <<pendingRead, pendingWrite, osRead, osWrite>>

\* The handlers to execute once the socket is closed, after the ones in rest.
HandlersAfterClose(rest) ==
    IF socket = "open" THEN {rest \o handlers : handlers \in Aborted} ELSE {rest}

CloseSocket(rest) == SocketCloses /\ ioQueue' \in HandlersAfterClose(rest)

-----------------------------------------------------------------------------
(* The system: reads and writes complete, timers expire.                   *)

\* A header that is no valid length is treated like a failed read.
ReadCompletes ==
    /\ osRead # "none"
    /\ \E failed \in {TRUE, FALSE} :
          ioQueue' = Append(ioQueue,
             IF osRead = "header" THEN IF failed THEN "headerError" ELSE "header"
                                  ELSE IF failed THEN "packetError" ELSE "packet")
    /\ osRead' = "none"
    /\ UNCHANGED <<stateVars, refVars, bufferVars, dispatcherVars>>
    /\ UNCHANGED <<socket, osWrite, readTimer, writeTimer, writing, written>>

WriteCompletes ==
    /\ osWrite = "busy"
    /\ \E handler \in {"write", "writeError"} : ioQueue' = Append(ioQueue, handler)
    /\ osWrite' = "none"
    /\ UNCHANGED <<stateVars, refVars, bufferVars, dispatcherVars>>
    /\ UNCHANGED <<socket, osRead, readTimer, writeTimer, writing, written>>

\* From here on cancel() comes too late: the handler will be called.
ReadTimerExpires ==
    /\ readTimer = "armed"
    /\ readTimer' = "off"
    /\ ioQueue' = Append(ioQueue, "readTimeout")
    /\ UNCHANGED <<stateVars, refVars, bufferVars, dispatcherVars>>
    /\ UNCHANGED <<socket, osRead, osWrite, writeTimer, writing, written>>

WriteTimerExpires ==
    /\ writeTimer = "armed"
    /\ writeTimer' = "off"
    /\ ioQueue' = Append(ioQueue, "writeTimeout")
    /\ UNCHANGED <<stateVars, refVars, bufferVars, dispatcherVars>>
    /\ UNCHANGED <<socket, osRead, osWrite, readTimer, writing, written>>

-----------------------------------------------------------------------------
(* The handlers of the io_service thread.                                  *)

\* The thread executes this handler next; the one before is destroyed.
Runs(handlers) ==
    /\ written = NoMessage
    /\ ioQueue # <<>>
    /\ Head(ioQueue) \in handlers

ReadFails(handler) == IF Head(ioQueue) = handler THEN errors \cup {"read"} ELSE errors

ParseHeader ==
    /\ Runs({"header", "headerError"})
    /\ ioQueue' = Tail(ioQueue)
    /\ errors' = ReadFails("headerError")
    /\ IF connectionState # "OPEN" \/ "read" \in errors'
       THEN /\ CloseConnection(tasks)
            /\ readTimer' = "off"
            /\ UNCHANGED osRead
       ELSE /\ readTimer' = "armed"
            /\ osRead' = "body"
            /\ UNCHANGED <<connectionState, tasks>>
    /\ UNCHANGED <<pendingRead, pendingWrite, refVars, bufferVars, events, dpc, cursor>>
    /\ UNCHANGED <<socket, osWrite, writeTimer, writing, written>>

\* Bound: a client that asks to log out waits before it asks again.
NoLogoutWaits == "logout" \notin ToSet(tasks)

\* The protocol parses the packet: it may queue a logout, and it may disconnect.
ParsePacket ==
    /\ Runs({"packet", "packetError"})
    /\ ioQueue' = Tail(ioQueue)
    /\ errors' = ReadFails("packetError")
    /\ IF connectionState # "OPEN" \/ "read" \in errors'
       THEN /\ CloseConnection(tasks)
            /\ readTimer' = "off"
            /\ UNCHANGED osRead
       ELSE /\ \/ CloseConnection(tasks)
               \/ /\ client = "linked"
                  /\ NoLogoutWaits
                  /\ tasks' = Append(tasks, "logout")
                  /\ UNCHANGED connectionState
               \/ UNCHANGED <<connectionState, tasks>>
            /\ readTimer' = "armed"
            /\ osRead' = "header"
    /\ UNCHANGED <<pendingRead, pendingWrite, refVars, bufferVars, events, dpc, cursor>>
    /\ UNCHANGED <<socket, osWrite, writeTimer, writing, written>>

OnWriteOperation ==
    /\ Runs({"write", "writeError"})
    /\ writeTimer' = "off"
    /\ written' = writing
    /\ writing' = NoMessage
    /\ errors' = IF Head(ioQueue) = "writeError" THEN errors \cup {"write"} ELSE errors
    /\ IF connectionState # "OPEN" \/ "write" \in errors'
       THEN CloseSocket(Tail(ioQueue)) /\ CloseConnection(tasks)
       ELSE /\ pendingWrite' = pendingWrite - 1
            /\ ioQueue' = Tail(ioQueue)
            /\ UNCHANGED <<connectionState, pendingRead, socket, osRead, osWrite, tasks>>
    /\ UNCHANGED <<readTimer, refVars, bufferVars, events, dpc, cursor>>

\* The handler is destroyed after it has returned, and its message is released.
WrittenReleased ==
    /\ written # NoMessage
    /\ written' = NoMessage
    /\ tasks' = Append(tasks, written)
    /\ UNCHANGED <<stateVars, refVars, bufferVars, events, dpc, cursor>>
    /\ UNCHANGED <<socket, osRead, osWrite, readTimer, writeTimer, ioQueue, writing>>

\* Mutant of IsAlive: the timers are bound to the object itself.
IsTakenAlive == TRUE

\* weak_ptr::lock: before it is stopped the ConnectionManager holds the object,
\* and so do the handlers of its reads and writes.
IsAlive ==
    \/ socket \in {"open", "closed"}
    \/ osRead # "none"
    \/ osWrite # "none"
    \/ \E i \in 2..Len(ioQueue) : ioQueue[i] \notin {"readTimeout", "writeTimeout", "stop"}

\* The timeout closes the connection while an operation of its kind is pending.
OnTimeout(handler, pending, kind) ==
    /\ Runs({handler})
    /\ IF IsAlive /\ (pending > 0 \/ kind \in errors)
       THEN CloseSocket(Tail(ioQueue)) /\ CloseConnection(tasks)
       ELSE /\ ioQueue' = Tail(ioQueue)
            /\ UNCHANGED <<connectionState, pendingRead, pendingWrite, socket, osRead,
                           osWrite, tasks>>
    /\ UNCHANGED <<errors, readTimer, writeTimer, writing, written, refVars,
                   bufferVars, events, dpc, cursor>>

OnReadTimeout == OnTimeout("readTimeout", pendingRead, "read")
OnWriteTimeout == OnTimeout("writeTimeout", pendingWrite, "write")

OnStopOperation ==
    /\ Runs({"stop"})
    /\ readTimer' = "off"
    /\ writeTimer' = "off"
    /\ socket' = IF socket = "deleted" THEN "fault" ELSE "deleted"
    /\ ioQueue' = Tail(ioQueue)
    /\ UNCHANGED <<stateVars, osRead, osWrite, writing, written, refVars, bufferVars,
                   dispatcherVars>>
-----------------------------------------------------------------------------
(* Messages: getOutputMessage, Connection::send and internalReleaseMessage. *)

Deferred == ToSet(toAddQueue)
Held == ({writing, written, outputBuffer} \cup ToSet(autoSend) \cup Deferred) \ {NoMessage}
Released == {m \in Messages : m \in ToSet(tasks)}
Outstanding == Held \cup Released

\* Mutant of TakeMessage: addRef is not called for the protocol.
TakeWithoutProtocolRef(m) ==
    /\ m \notin Outstanding
    /\ refCount' = refCount + 1
    /\ UNCHANGED protocolRefs

\* A message is taken from the pool and refers to the connection and protocol.
TakeMessage(m) ==
    /\ m \notin Outstanding
    /\ refCount' = refCount + 1
    /\ protocolRefs' = protocolRefs + 1

IsFull(m) == last[m] - first[m] + 1 >= Capacity

AcceptsMessage == connectionState = "OPEN" /\ "write" \notin errors

\* internalSend: the system gets the message, whose last write is w.
InternalSend(m, w) ==
    /\ pendingWrite' = pendingWrite + 1
    /\ writeTimer' = "armed"
    /\ osWrite' = "busy"
    /\ writing' = m
    /\ wireLast' = IF w = 0 THEN wireLast ELSE w

\* onSendMessage: nothing is written to this message from here on.
BufferWithout(m) == IF outputBuffer = m THEN NoMessage ELSE outputBuffer

\* Mutant of Send: onSendMessage is not called for a message that was refused.
SendKeepsBuffer(m) ==
    IF AcceptsMessage
    THEN /\ pendingWrite = 0
         /\ outputBuffer' = BufferWithout(m)
         /\ InternalSend(m, last[m])
         /\ UNCHANGED <<toAddQueue, tasks>>
    ELSE /\ tasks' = IF outputBuffer = m THEN tasks ELSE Append(tasks, m)
         /\ UNCHANGED <<outputBuffer, toAddQueue, pendingWrite, writeTimer, osWrite, writing, wireLast>>

\* Connection::send, and onSendMessage for a message that was refused. One that
\* is put off goes to m_toAddQueue; one that was refused has no holder left.
Send(m) ==
    IF AcceptsMessage /\ pendingWrite > 0
    THEN /\ toAddQueue' = Append(toAddQueue, m)
         /\ UNCHANGED <<outputBuffer, pendingWrite, writeTimer, osWrite, writing, wireLast, tasks>>
    ELSE /\ outputBuffer' = BufferWithout(m)
         /\ UNCHANGED toAddQueue
         /\ IF AcceptsMessage
            THEN InternalSend(m, last[m]) /\ UNCHANGED tasks
            ELSE /\ tasks' = Append(tasks, m)
                 /\ UNCHANGED <<pendingWrite, writeTimer, osWrite, writing, wireLast>>

-----------------------------------------------------------------------------
(* The dispatcher's tasks.                                                 *)

\* The dispatcher begins the first task of the list that concerns the connection.
Takes(task) ==
    /\ dpc = "idle"
    /\ tasks # <<>>
    /\ Head(tasks) = task

\* login() places a new player, takes over one who is online or refuses.
LoginTask ==
    /\ Takes("login")
    /\ tasks' = Tail(tasks)
    /\ \/ dpc' = "body" /\ client' = "linked" /\ UNCHANGED <<protocolRefs, events>>
       \/ dpc' = "refuse" /\ UNCHANGED <<client, protocolRefs, events>>
       \/ /\ protocolRefs' = protocolRefs + 1
          /\ events' = events \cup {"connect"}
          /\ dpc' = "moveQueue"
          /\ UNCHANGED client
    /\ UNCHANGED <<stateVars, ioVars, refCount, protocol, bufferVars, cursor>>

\* connect() holds the protocol by a reference until it is called.
ConnectTask ==
    /\ Takes("connect")
    /\ tasks' = Tail(tasks)
    /\ protocolRefs' = protocolRefs - 1
    /\ \/ dpc' = "body" /\ client' = "linked"
       \/ dpc' = "refuse" /\ UNCHANGED client
    /\ UNCHANGED <<stateVars, ioVars, refCount, protocol, bufferVars, events, cursor>>

\* disconnectClient: a message of its own, which sendAll does not wait for.
RefuseLogin ==
    /\ dpc = "refuse"
    /\ IF protocol = "attached"
       THEN /\ \E m \in Messages : TakeMessage(m) /\ Send(m)
            /\ dpc' = "disconnect"
       ELSE /\ dpc' = "moveQueue"
            /\ UNCHANGED <<refCount, protocolRefs, outputBuffer, toAddQueue, pendingWrite,
                           writeTimer, osWrite, writing, wireLast, tasks>>
    /\ UNCHANGED <<connectionState, pendingRead, errors, socket, osRead, readTimer, ioQueue,
                   written, protocol, client, autoSend, first, last, writes, overflow,
                   events, cursor>>

Disconnect ==
    /\ dpc = "disconnect"
    /\ CloseConnection(tasks)
    /\ dpc' = "moveQueue"
    /\ UNCHANGED <<pendingRead, pendingWrite, errors, ioVars, refVars, bufferVars,
                   events, cursor>>

\* logout() closes the connection, unless the player may not leave.
LogoutTask ==
    /\ Takes("logout")
    /\ \/ protocol = "attached" /\ CloseConnection(Tail(tasks))
       \/ tasks' = Tail(tasks) /\ UNCHANGED connectionState
    /\ dpc' = "moveQueue"
    /\ UNCHANGED <<pendingRead, pendingWrite, errors, ioVars, refVars, bufferVars,
                   events, cursor>>

\* Protocol::releaseProtocol: try again later while messages refer to it.
ProtocolRetry == IF protocolRefs > 0 THEN {"releaseProtocol"} ELSE {}

ReleaseProtocol ==
    /\ client' = "none"
    /\ protocol' = IF protocolRefs > 0 THEN "detached" ELSE "deleted"

\* Mutant of ReleaseConnection: it is not scheduled again.
ReleaseConnectionOnce(pending, rest) ==
    events' = pending /\ ioQueue' = IF refCount > 0 THEN rest ELSE Append(rest, "stop")

\* Connection::releaseConnection: try again later, or have onStopOperation called
\* by the io_service thread after the handlers in rest.
ReleaseConnection(pending, rest) ==
    IF refCount > 0
    THEN events' = pending \cup {"releaseConnection"} /\ ioQueue' = rest
    ELSE events' = pending /\ ioQueue' = Append(rest, "stop")

CloseConnectionTask ==
    /\ Takes("close")
    /\ tasks' = Tail(tasks)
    /\ dpc' = "moveQueue"
    /\ IF connectionState # "REQUEST_CLOSE"
       THEN UNCHANGED <<connectionState, pendingRead, pendingWrite, socket, osRead, osWrite,
                        ioQueue, protocol, client, events>>
       ELSE LET pending == events \cup (IF protocol = "attached" THEN ProtocolRetry ELSE {})
            IN  /\ IF protocol = "attached"
                   THEN ReleaseProtocol
                   ELSE UNCHANGED <<protocol, client>>
                /\ IF pendingWrite = 0 \/ "write" \in errors
                   THEN /\ connectionState' = "CLOSED"
                        /\ SocketCloses
                        /\ \E handlers \in HandlersAfterClose(ioQueue) :
                              ReleaseConnection(pending, handlers)
                   ELSE /\ connectionState' = "CLOSING"
                        /\ events' = pending
                        /\ UNCHANGED <<pendingRead, pendingWrite, socket, osRead, osWrite, ioQueue>>
    /\ UNCHANGED <<errors, readTimer, writeTimer, writing, written, refCount, protocolRefs,
                   bufferVars, cursor>>

ReleaseConnectionTask ==
    /\ Takes("releaseConnection")
    /\ tasks' = Tail(tasks)
    /\ dpc' = "moveQueue"
    /\ ReleaseConnection(events, ioQueue)
    /\ UNCHANGED <<stateVars, socket, osRead, osWrite, readTimer, writeTimer, writing, written,
                   refVars, bufferVars, cursor>>

ReleaseProtocolTask ==
    /\ Takes("releaseProtocol")
    /\ tasks' = Tail(tasks)
    /\ dpc' = "moveQueue"
    /\ ReleaseProtocol
    /\ events' = events \cup ProtocolRetry
    /\ UNCHANGED <<stateVars, ioVars, refCount, protocolRefs, bufferVars, cursor>>

\* internalReleaseMessage: the references are given back, the message is reused.
InternalReleaseMessage(m) ==
    /\ Takes(m)
    /\ tasks' = Tail(tasks)
    /\ dpc' = "moveQueue"
    /\ refCount' = refCount - 1
    /\ protocolRefs' = protocolRefs - 1
    /\ first' = [first EXCEPT ![m] = 0]
    /\ last' = [last EXCEPT ![m] = 0]
    /\ UNCHANGED <<stateVars, ioVars, protocol, client, outputBuffer, autoSend, toAddQueue,
                   writes, wireLast, overflow, events, cursor>>

\* An event of the connection is due.
EventDue(event) ==
    /\ event \in events
    /\ events' = events \ {event}
    /\ tasks' = Append(tasks, event)
    /\ UNCHANGED <<stateVars, ioVars, refVars, bufferVars, dpc, cursor>>

-----------------------------------------------------------------------------
(* What other tasks do to the connection: the game writes and disconnects. *)

OtherTask ==
    /\ dpc = "idle"
    /\ dpc' = "body"
    /\ UNCHANGED <<stateVars, ioVars, refVars, bufferVars, tasks, events, cursor>>

\* Protocol::getOutputBuffer gives the message that is not full yet, or a new one.
WritesToBuffer ==
    /\ outputBuffer # NoMessage
    /\ ~IsFull(outputBuffer)
    /\ last' = [last EXCEPT ![outputBuffer] = writes + 1]
    /\ UNCHANGED <<first, outputBuffer, autoSend, overflow, refCount, protocolRefs>>

\* Mutant of WritesToNewMessage: the new message is put first in the list.
WritesToFirstMessage(m) ==
    /\ outputBuffer # NoMessage => IsFull(outputBuffer)
    /\ protocol = "attached"
    /\ TakeMessage(m)
    /\ outputBuffer' = m
    /\ autoSend' = <<m>> \o autoSend
    /\ first' = [first EXCEPT ![m] = writes + 1]
    /\ last' = [last EXCEPT ![m] = writes + 1]
    /\ UNCHANGED overflow

WritesToNewMessage(m) ==
    /\ outputBuffer # NoMessage => IsFull(outputBuffer)
    /\ protocol = "attached"
    /\ TakeMessage(m)
    /\ outputBuffer' = m
    /\ autoSend' = Append(autoSend, m)
    /\ first' = [first EXCEPT ![m] = writes + 1]
    /\ last' = [last EXCEPT ![m] = writes + 1]
    /\ overflow' = IF toAddQueue # <<>> \/ Cardinality(ToSet(autoSend) \cup Held) > 1
                   THEN "yes" ELSE overflow

GameWrites ==
    /\ dpc = "body"
    /\ client = "linked"
    /\ writes < MaxWrites
    /\ writes' = writes + 1
    /\ WritesToBuffer \/ \E m \in Messages : WritesToNewMessage(m)
    /\ UNCHANGED <<stateVars, ioVars, protocol, client, toAddQueue, wireLast, tasks, events,
                   dpc, cursor>>

\* A kick, or the login of the same character from another connection.
GameDisconnects ==
    /\ dpc = "body"
    /\ client = "linked"
    /\ protocol = "attached"
    /\ CloseConnection(tasks)
    /\ UNCHANGED <<pendingRead, pendingWrite, errors, ioVars, refVars, bufferVars, events,
                   dpc, cursor>>

BodyEnds ==
    /\ dpc = "body"
    /\ dpc' = "moveQueue"
    /\ UNCHANGED <<stateVars, ioVars, refVars, bufferVars, tasks, events, cursor>>

-----------------------------------------------------------------------------
(* OutputMessagePool::sendAll, after every task.                           *)

\* A message that was put off joins the list again, but none after 10 seconds.
MoveMessage ==
    /\ dpc = "moveQueue"
    /\ toAddQueue # <<>>
    /\ toAddQueue' = Tail(toAddQueue)
    /\ \/ /\ autoSend' = Append(autoSend, Head(toAddQueue))
          /\ UNCHANGED <<outputBuffer, tasks>>
       \/ /\ outputBuffer' = BufferWithout(Head(toAddQueue))
          /\ tasks' = Append(tasks, Head(toAddQueue))
          /\ UNCHANGED autoSend
    /\ UNCHANGED <<stateVars, ioVars, refVars, first, last, writes, wireLast, overflow,
                   events, dpc, cursor>>

MoveEnds ==
    /\ dpc = "moveQueue"
    /\ toAddQueue = <<>>
    /\ dpc' = "sendAll"
    /\ cursor' = 1
    /\ UNCHANGED <<stateVars, ioVars, refVars, bufferVars, tasks, events>>

\* A message that is neither long nor old stays in the list.
SendLater ==
    /\ dpc = "sendAll"
    /\ cursor <= Len(autoSend)
    /\ ~IsFull(autoSend[cursor])
    /\ cursor' = cursor + 1
    /\ UNCHANGED <<stateVars, ioVars, refVars, bufferVars, tasks, events, dpc>>

SendNow ==
    /\ dpc = "sendAll"
    /\ cursor <= Len(autoSend)
    /\ Send(autoSend[cursor])
    /\ autoSend' = RemoveAt(autoSend, cursor)
    /\ UNCHANGED <<connectionState, pendingRead, errors, socket, osRead, readTimer, ioQueue,
                   written, refVars, first, last, writes, overflow, events, dpc, cursor>>

SendAllEnds ==
    /\ dpc = "sendAll"
    /\ cursor > Len(autoSend)
    /\ dpc' = "idle"
    /\ cursor' = 0
    /\ UNCHANGED <<stateVars, ioVars, refVars, bufferVars, tasks, events>>

-----------------------------------------------------------------------------
System == ReadCompletes \/ WriteCompletes \/ ReadTimerExpires \/ WriteTimerExpires

IoThread ==
    \/ ParseHeader
    \/ ParsePacket
    \/ OnWriteOperation
    \/ WrittenReleased
    \/ OnReadTimeout
    \/ OnWriteTimeout
    \/ OnStopOperation

Task ==
    \/ LoginTask
    \/ ConnectTask
    \/ LogoutTask
    \/ CloseConnectionTask
    \/ ReleaseConnectionTask
    \/ ReleaseProtocolTask
    \/ \E m \in Messages : InternalReleaseMessage(m)

SendAll == MoveMessage \/ MoveEnds \/ SendLater \/ SendNow \/ SendAllEnds

Next ==
    \/ System
    \/ IoThread
    \/ Task
    \/ OtherTask
    \/ GameWrites
    \/ GameDisconnects
    \/ BodyEnds
    \/ RefuseLogin
    \/ Disconnect
    \/ SendAll
    \/ \E event \in events : EventDue(event)

Spec == Init /\ [][Next]_vars

\* Operations of the system complete or their timers expire, both threads run,
\* events become due, and a message that stays in the list becomes old.
Fairness ==
    /\ WF_vars(ReadCompletes \/ ReadTimerExpires)
    /\ WF_vars(WriteCompletes \/ WriteTimerExpires)
    /\ WF_vars(IoThread)
    /\ WF_vars(Task \/ OtherTask)
    /\ SF_vars(Task)
    /\ WF_vars(BodyEnds)
    /\ WF_vars(RefuseLogin \/ Disconnect)
    /\ WF_vars(SendAll)
    /\ SF_vars(SendNow)
    /\ \A event \in TaskNames : WF_vars(EventDue(event))

FairSpec == Spec /\ Fairness
-----------------------------------------------------------------------------
(* Properties.                                                             *)

Handlers == {"header", "headerError", "packet", "packetError", "write", "writeError",
             "readTimeout", "writeTimeout", "stop"}

Connecting == "connect" \in events \cup ToSet(tasks)

ReadHandlers == {"header", "headerError", "packet", "packetError"}
CountIn(s, S) == Cardinality({i \in DOMAIN s : s[i] \in S})
Occurrences(s, x) == CountIn(s, {x})
ReadsUnderWay == CountIn(ioQueue, ReadHandlers) + (IF osRead = "none" THEN 0 ELSE 1)
HasStopped == Occurrences(ioQueue, "stop") + (IF socket = "deleted" THEN 1 ELSE 0)
Pending(name) == Occurrences(tasks, name) + (IF name \in events THEN 1 ELSE 0)

IsDistinct(s) == \A i, j \in DOMAIN s : s[i] = s[j] => i = j

SentOnce ==
    /\ IsDistinct(autoSend \o toAddQueue)
    /\ {writing, written} \cap (ToSet(autoSend) \cup Deferred) = {}
    /\ writing = written => writing = NoMessage
    /\ Held \cap Released = {}
    /\ \A i, j \in DOMAIN tasks : tasks[i] = tasks[j] /\ tasks[i] \in Messages => i = j
    /\ outputBuffer # NoMessage =>
        outputBuffer \in (ToSet(autoSend) \cup Deferred) \ {writing, written}

\* What is counted is what is there, and every message is counted once. The reference
\* counts are the messages that still refer to the objects, and a login that waits:
\* what both assert(m_refCount == 0) rely on. While the connection is open one read is under way, and m_pendingWrite says
\* whether a write is: two never overlap. One task closes for each request to close,
\* and once the connection is closed there is one attempt to release it. A message is
\* in one place on its way out, a list of the pool or the hands of the system, and is
\* released once: the game never writes to a message whose bytes the system has, and
\* the one it writes to will be sent.
RefsCounted ==
    /\ refCount = Cardinality(Outstanding)
    /\ protocolRefs = refCount + (IF Connecting THEN 1 ELSE 0)
    /\ protocolRefs > 0 => protocol # "deleted"
    /\ refCount > 0 => socket # "deleted" /\ "stop" \notin ToSet(ioQueue)
    /\ connectionState = "OPEN" =>
        /\ socket = "open"
        /\ pendingRead = 1 /\ ReadsUnderWay = 1
        /\ pendingWrite = (IF writing = NoMessage THEN 0 ELSE 1)
    /\ Pending("close") = (IF connectionState = "REQUEST_CLOSE" THEN 1 ELSE 0)
    /\ Pending("releaseConnection") + HasStopped = (IF connectionState = "CLOSED" THEN 1 ELSE 0)
    /\ SentOnce

\* Neither object is used once it is deleted. For the socket, whatever handlers
\* are still to be executed, timeouts that could not be cancelled included; for the
\* protocol, no task is bound to it any more and Player::client is reset.
ObjectsAlive ==
    /\ socket # "fault"
    /\ protocol = "deleted" =>
        /\ client = "none"
        /\ \A name \in {"login", "logout", "connect", "releaseProtocol"} : Pending(name) = 0

\* The client gets the game's writes in the order they were made, unless a message
\* was begun while two others were under way or one was put off.
WritesInOrder ==
    overflow = "no" =>
        \A m \in ToSet(autoSend) \cup Deferred : first[m] # 0 => first[m] > wireLast

\* A connection that is asked to close is closed and released, with its protocol:
\* "will be closed by onWriteOperation/handleWriteTimeout/handleReadTimeout".
ClosingCompletes == connectionState # "OPEN" ~> (socket = "deleted" /\ protocol = "deleted")

\* Every message returns to the pool.
MessagesReturn == \A m \in Messages : m \in Outstanding ~> m \notin Outstanding
=============================================================================
