------------------------------ MODULE Gateway ------------------------------
(* Order entry over TCP (src/network/tcp_gateway.cpp): the owner starts and   *)
(* stops the gateway, its io thread runs until running_ is false, sessions    *)
(* push what they parsed on the inbound queue and spin while it is full, the  *)
(* engine thread polls that queue.  The queue is the FIFO that SPSCQueue      *)
(* implements.  Sockets and the io_context are external: a complete message   *)
(* of some session arrives, and its handler runs on the io thread.            *)
EXTENDS SequencesExt

CONSTANTS
    Session,
    MaxMessages,  \* bound: messages of one session
    Bound,        \* messages the queue holds
    MaxStarts     \* bound: how often the gateway is started

ASSUME GatewayAssumption ==
    Session # {} /\ MaxMessages \in Nat /\ Bound \in Nat \ {0} /\ MaxStarts \in Nat

VARIABLES
    owner,     \* where the owner is: in start(), in stop(), or between them
    running,   \* running_
    io,        \* where io_thread_ is; "none" when it is not joinable
    msg,       \* the argument of on_message_received
    q, popped, \* the inbound queue and what was last taken from it
    engine,    \* the engine thread polls, or has ended
    arrived,   \* messages parsed so far, per session
    received,  \* history: what the engine took, in order
    starts

gatewayVars == <<owner, running, io, msg, q, popped, engine, arrived, received, starts>>
queueVars   == <<q, popped>>
threadVars  == <<owner, running, io, starts>>

Message == [from : Session, no : 1 .. MaxMessages]
Queue   == INSTANCE BoundedFifo WITH Item <- Message

Init ==
    /\ Queue!Init
    /\ owner = "stopped" /\ running = FALSE /\ io = "none" /\ starts = 0
    /\ msg \in Message /\ engine = "polling"
    /\ arrived = [s \in Session |-> 0] /\ received = <<>>

(* start(): the flag first, then the thread that tests it.                    *)
Start ==
    /\ owner = "stopped" /\ starts < MaxStarts
    /\ running' = TRUE /\ owner' = "starting" /\ starts' = starts + 1
    /\ UNCHANGED <<io, msg, queueVars, engine, arrived, received>>

SpawnThread ==
    /\ owner = "starting"
    /\ io' = "loop" /\ owner' = "started"
    /\ UNCHANGED <<running, starts, msg, queueVars, engine, arrived, received>>

(* stop(), also from the destructor: the flag, then join.  A stop() of a      *)
(* gateway that is not started changes nothing.                               *)
Stop ==
    /\ owner = "started"
    /\ running' = FALSE /\ owner' = "joining"
    /\ UNCHANGED <<io, starts, msg, queueVars, engine, arrived, received>>

JoinNoWait ==   \* mistaken: the thread is let go
    /\ owner = "joining"
    /\ owner' = "stopped"
    /\ UNCHANGED <<running, io, starts, msg, queueVars, engine, arrived, received>>
Join ==
    /\ owner = "joining" /\ io = "ended"
    /\ io' = "none" /\ owner' = "stopped"
    /\ UNCHANGED <<running, starts, msg, queueVars, engine, arrived, received>>

(* while (running_) of the io thread.                                         *)
TestRunningOnlyFirst ==   \* mistaken: the loop does not look again
    /\ io = "loop"
    /\ io' = IF running \/ \E s \in Session : arrived[s] > 0 THEN "serve" ELSE "ended"
    /\ UNCHANGED <<owner, running, starts, msg, queueVars, engine, arrived, received>>
TestRunning ==
    /\ io = "loop"
    /\ io' = IF running THEN "serve" ELSE "ended"
    /\ UNCHANGED <<owner, running, starts, msg, queueVars, engine, arrived, received>>

Sleep ==
    /\ io = "serve" /\ io' = "loop"
    /\ UNCHANGED <<owner, running, starts, msg, queueVars, engine, arrived, received>>

(* A session has a full message and calls on_message_received.                *)
MessageParsed(s) ==
    /\ io = "serve" /\ arrived[s] < MaxMessages
    /\ arrived' = [arrived EXCEPT ![s] = @ + 1]
    /\ msg' = [from |-> s, no |-> arrived[s] + 1]
    /\ io' = "push"
    /\ UNCHANGED <<owner, running, starts, queueVars, engine, received>>

(* while (!queue_.push(msg)) yield: nothing happens until there is room.      *)
PushMessageOnce ==   \* mistaken: a message that finds no room is dropped
    /\ io = "push"
    /\ IF Len(q) < Bound THEN Queue!Put(msg) ELSE UNCHANGED queueVars
    /\ io' = "loop"
    /\ UNCHANGED <<owner, running, starts, msg, engine, arrived, received>>
PushMessage ==
    /\ io = "push"
    /\ Queue!Put(msg)
    /\ io' = "loop"
    /\ UNCHANGED <<owner, running, starts, msg, engine, arrived, received>>

(* The engine thread: pops, or ends for good.                                 *)
EnginePop ==
    /\ engine = "polling"
    /\ Queue!Get
    /\ received' = Append(received, q[1])
    /\ UNCHANGED <<threadVars, msg, engine, arrived>>

EngineEnds ==
    /\ engine = "polling" /\ engine' = "ended"
    /\ UNCHANGED <<threadVars, msg, queueVars, arrived, received>>

OwnerStep == SpawnThread \/ Join
IoStep    == TestRunning \/ Sleep \/ PushMessage

GatewayNext ==
    \/ Start \/ Stop \/ OwnerStep
    \/ IoStep \/ \E s \in Session : MessageParsed(s)
    \/ EnginePop \/ EngineEnds

Spec == Init /\ [][GatewayNext]_gatewayVars

(* Threads are scheduled, and an engine thread that has not ended polls.      *)
FairSpec ==
    /\ Spec
    /\ WF_gatewayVars(OwnerStep) /\ WF_gatewayVars(IoStep) /\ WF_gatewayVars(EnginePop)

(* What a session sent reaches the engine in order and once: what the engine  *)
(* took, what is queued and what is being pushed are, for every session, all  *)
(* its messages so far, the first, the second, ..., through backpressure,     *)
(* stop() and a new start().                                                  *)
Handed   == received \o q \o (IF io = "push" THEN <<msg>> ELSE <<>>)
Of(s, l) == {i \in 1 .. Len(l) : l[i].from = s}
Rank(S, i) == Cardinality({j \in S : j <= i})
MessagesInOrder ==
    \A s \in Session :
        /\ Cardinality(Of(s, Handed)) = arrived[s]
        /\ \A i \in Of(s, Handed) : Handed[i].no = Rank(Of(s, Handed), i)

(* After stop() has returned there is no io thread that could still push, so  *)
(* the queue may be taken down; and until stop() is called the thread that    *)
(* start() made does not end.                                                 *)
ThreadLivesFromStartToStop ==
    /\ owner = "stopped" => io = "none"
    /\ owner = "started" => io \in {"loop", "serve", "push"}

(* stop() returns, unless a session spins on a full queue that nobody drains  *)
(* any more: on_message_received does not look at running_.                   *)
SpinsForEver == io = "push" /\ Len(q) = Bound /\ engine = "ended"
StopReturns  == owner = "joining" ~> owner = "stopped" \/ SpinsForEver
=============================================================================
