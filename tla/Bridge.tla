------------------------------ MODULE Bridge ------------------------------
(* The web side: the middleware (web/middleware/server.js) between the engine *)
(* process and a page (web/frontend/src/App.jsx).  Commands go down the       *)
(* engine's stdin; its stdout comes back in chunks that may end inside a line *)
(* and are split into lines one by one, each chunk on its own; what they say  *)
(* is emitted to the page over a connection that may drop.  The engine is     *)
(* what main.cpp prints for a command, with any number of trades.             *)
EXTENDS SequencesExt

CONSTANTS
    MaxCommands,  \* bound: commands submitted
    MaxTrades,    \* bound: trades of one order
    MaxFaults,    \* bound: lost connections, and the exit of the engine
    Shown         \* trades the page keeps, 10 in the code

ASSUME BoundsAssumption == MaxCommands \in Nat /\ MaxTrades \in Nat /\ MaxFaults \in Nat
ASSUME ShownAssumption  == Shown \in Nat \ {0}

VARIABLES
    engine,       \* the process: "running"; "exited"; "noticed" once node has handled
                  \* its exit and destroyed its stdin; "closed" after the 'close' event
    bridge,       \* whether the middleware is still there
    stdin,        \* commands written to the engine and not read yet
    commands,     \* how many commands were written
    engine_book,  \* the command that last changed the engine's book; of an engine that
                  \* has exited, the one after which it was last printed
    stdout,       \* output not read yet, each line in two halves
    pending,      \* pendingTrades
    net,          \* events emitted to the page and still on their way
    connected, faults,
    page,         \* what the page shows
    cleared,      \* history: the CLEAR the page last heard of
    cut,          \* history: the commands whose LATENCY line a chunk boundary damaged
    heard,        \* history: the commands whose LATENCY line was recognised, damaged or not
    missed        \* history: the last command whose BOOK line was damaged, or came
                  \* when this page was not there

procs == <<engine, bridge>>
vars  == <<procs, stdin, commands, engine_book, stdout, pending, net,
           connected, faults, page, cleared, cut, heard, missed>>

PlainLine(kind, c) == [kind |-> kind, cmd |-> c, k |-> 0]
TradeLine(c, k)    == [kind |-> "TRADE", cmd |-> c, k |-> k]

NoCommand == 0  \* no book, latency or value yet; the value of a damaged number

EmptyPage == [book |-> NoCommand, trades |-> <<>>, latency |-> NoCommand]

Init ==
    /\ engine = "running" /\ bridge = TRUE
    /\ stdin = <<>> /\ commands = 0 /\ engine_book = NoCommand /\ stdout = <<>>
    /\ pending = <<>> /\ net = <<>>
    /\ connected = FALSE /\ faults = 0 /\ page = EmptyPage
    /\ cleared = NoCommand /\ cut = {} /\ heard = {} /\ missed = NoCommand

(* A page submits an order that passes its checks and the bridge's, or clears *)
(* the book: one line on the engine's stdin.                                  *)
Submit(kind) ==
    /\ connected /\ commands < MaxCommands /\ engine = "running"
    /\ commands' = commands + 1
    /\ stdin' = Append(stdin, [kind |-> kind, cmd |-> commands + 1])
    /\ UNCHANGED <<procs, engine_book, stdout, pending, net, connected, faults, page, cleared, cut, heard, missed>>

(* The engine has exited and the bridge does not know: the write raises an    *)
(* 'error' event that nobody handles, and the middleware ends.  Of what it    *)
(* emitted, some may still reach the page.  Later, when node has destroyed    *)
(* the stream, the write does nothing and nobody is told: no step at all.     *)
SubmitToBrokenPipe ==
    /\ connected /\ commands < MaxCommands /\ engine = "exited"
    /\ commands' = commands + 1
    /\ bridge' = FALSE /\ connected' = FALSE
    /\ stdout' = <<>> /\ pending' = <<>>
    /\ \E k \in 0 .. Len(net) : net' = SubSeq(net, 1, k)
    /\ UNCHANGED <<engine, stdin, engine_book, faults, page, cleared, cut, heard, missed>>

(* The engine reads a command and prints: TRADE lines, BOOK, LATENCY for an   *)
(* order, nothing on stdout for one it refuses, BOOK and CLEAR_ACK for CLEAR. *)
Halves(lines) ==
    [i \in 1 .. 2 * Len(lines) |-> [line |-> lines[(i + 1) \div 2], half |-> 2 - (i % 2)]]

OrderLines(c, n) == [i \in 1 .. n |-> TradeLine(c, i)]
                     \o <<PlainLine("BOOK", c), PlainLine("LATENCY", c)>>
ClearLines(c)    == <<PlainLine("BOOK", c), PlainLine("CLEAR_ACK", c)>>

PutOut(lines) ==
    /\ stdout' = stdout \o Halves(lines)
    /\ UNCHANGED <<bridge, commands, pending, net, connected, page, cleared, cut, heard, missed>>

Reads(kind)   == engine = "running" /\ stdin # <<>> /\ stdin[1].kind = kind
Answer(lines) ==
    /\ PutOut(lines)
    /\ engine_book' = IF lines = <<>> THEN engine_book ELSE stdin[1].cmd
    /\ stdin' = Tail(stdin)
    /\ UNCHANGED <<engine, faults>>

MatchOrderLatencyFirst(n) ==   \* mistaken: LATENCY is printed before the trades
    /\ Reads("order")
    /\ LET c == stdin[1].cmd
       IN  Answer(<<PlainLine("LATENCY", c)>>
                 \o [i \in 1 .. n |-> TradeLine(c, i)] \o <<PlainLine("BOOK", c)>>)
MatchOrder(n) ==
    /\ Reads("order")
    /\ Answer(OrderLines(stdin[1].cmd, n))

RefuseOrder ==
    /\ Reads("order")
    /\ Answer(<<>>)

ClearBookNoBook ==   \* mistaken: the empty book is not printed
    /\ Reads("clear")
    /\ Answer(<<PlainLine("CLEAR_ACK", stdin[1].cmd)>>)
ClearBook ==
    /\ Reads("clear")
    /\ Answer(ClearLines(stdin[1].cmd))

(* The process dies, between two commands or after some lines of an answer;   *)
(* the commands it has not read are lost, what it printed is still there.     *)
Answers == IF stdin = <<>> THEN {<<>>}
           ELSE IF stdin[1].kind = "order" THEN {OrderLines(stdin[1].cmd, n) : n \in 0 .. MaxTrades}
           ELSE {ClearLines(stdin[1].cmd)}
EngineExits ==
    /\ engine = "running" /\ faults < MaxFaults
    /\ engine' = "exited" /\ faults' = faults + 1
    /\ stdin' = <<>>
    /\ \E lines \in Answers : \E k \in 0 .. Len(lines) :
           /\ PutOut(SubSeq(lines, 1, k))
           /\ engine_book' = IF \E i \in 1 .. k : lines[i].kind = "BOOK" THEN stdin[1].cmd
                                                                       ELSE engine_book

(* What the bridge makes of the first part of a line: all of it when only the *)
(* newline is missing, a number that lost digits (which a TRADE may have, too, *)
(* but no property reads its price and quantity), or nothing it recognises.   *)
(* A BOOK whose JSON is cut short is caught and dropped.  The second part, in *)
(* the next chunk, is no line the bridge knows.                               *)
Fates(kind) == IF kind = "LATENCY" THEN {"whole", "damaged", "lost"} ELSE {"whole", "lost"}

(* The lines of the chunk of the first n halves, and what became of each: the *)
(* j-th begins at its 2j-1-st half, or the next one if the chunk begins with  *)
(* the second part of a line.                                                 *)
LinesOf(n, fate) ==
    LET at(j) == 2 * j - 2 + stdout[1].half
    IN  [j \in 1 .. (n - stdout[1].half) \div 2 + 1 |->
            [line |-> stdout[at(j)].line, fate |-> IF at(j) = n THEN fate ELSE "whole"]]

Value(r) == IF r.fate = "whole" THEN r.line.cmd ELSE NoCommand

Event(ev, value) == [ev |-> ev, value |-> value]
TradeEvent(t, latency) == [ev |-> "trade", value |-> t, latency |-> latency]

(* One turn of the loop over the lines: s holds pendingTrades and the events  *)
(* emitted so far.                                                            *)
HandleLineKeepsTrades(s, r) ==   \* mistaken: pendingTrades is not emptied
    IF r.fate = "lost" THEN s ELSE
    CASE r.line.kind = "BOOK" -> [s EXCEPT !.events = Append(@, Event("book_update", r.line.cmd))]
      [] r.line.kind = "TRADE" ->
            [s EXCEPT !.pending = Append(@, [cmd |-> r.line.cmd, k |-> r.line.k])]
      [] r.line.kind = "LATENCY" ->
            [s EXCEPT !.events = Append(@, Event("latency", Value(r)))
                                 \o [i \in DOMAIN s.pending |-> TradeEvent(s.pending[i], Value(r))]]
      [] r.line.kind = "CLEAR_ACK" -> [s EXCEPT !.events = Append(@, Event("cleared", r.line.cmd))]
HandleLine(s, r) ==
    IF r.fate = "lost" THEN s ELSE
    CASE r.line.kind = "BOOK" -> [s EXCEPT !.events = Append(@, Event("book_update", r.line.cmd))]
      [] r.line.kind = "TRADE" ->
            [s EXCEPT !.pending = Append(@, [cmd |-> r.line.cmd, k |-> r.line.k])]
      [] r.line.kind = "LATENCY" ->
            [pending |-> <<>>,
             events  |-> Append(s.events, Event("latency", Value(r)))
                         \o [i \in DOMAIN s.pending |-> TradeEvent(s.pending[i], Value(r))]]
      [] r.line.kind = "CLEAR_ACK" -> [s EXCEPT !.events = Append(@, Event("cleared", r.line.cmd))]

BooksIn(events) == {events[i].value : i \in {j \in DOMAIN events : events[j].ev = "book_update"}}
Damaged(lines, kind) ==
    {lines[j].line.cmd : j \in {i \in DOMAIN lines : lines[i].fate # "whole" /\ lines[i].line.kind = kind}}
Recognised(lines) ==
    {lines[j].line.cmd : j \in {i \in DOMAIN lines : lines[i].fate # "lost" /\ lines[i].line.kind = "LATENCY"}}
Missing(books) == missed' = Max({missed} \cup books)

(* The loop over the lines of a chunk.                                        *)
Handled(lines) ==
    LET after[j \in 0 .. Len(lines)] ==
            IF j = 0 THEN [pending |-> pending, events |-> <<>>]
                     ELSE HandleLine(after[j - 1], lines[j])
    IN  after[Len(lines)]

OnData(n, fate) ==
    LET lines == LinesOf(n, fate)
        done  == Handled(lines)
    IN  /\ stdout' = SubSeq(stdout, n + 1, Len(stdout))
        /\ pending' = done.pending
        /\ net' = IF connected THEN net \o done.events ELSE net
        /\ Missing(Damaged(lines, "BOOK") \cup IF connected THEN {} ELSE BooksIn(done.events))
        /\ cut' = cut \cup Damaged(lines, "LATENCY")
        /\ heard' = heard \cup Recognised(lines)
        /\ UNCHANGED <<procs, stdin, commands, engine_book, connected, faults, page, cleared>>

(* stdout 'data': any part of what was printed, cut anywhere.                 *)
ReadChunk ==
    bridge /\ \E n \in 1 .. Len(stdout) :
        \E fate \in (IF stdout[n].half = 1 THEN Fates(stdout[n].line.kind) ELSE {"whole"}) :
            OnData(n, fate)

(* Node reaps the process and destroys its stdin; once stdout is drained as   *)
(* well it emits 'close', and GET / answers "stopped" from then on.           *)
NoticeExit ==
    /\ bridge /\ engine = "exited" /\ engine' = "noticed"
    /\ UNCHANGED <<bridge, stdin, commands, engine_book, stdout, pending, net, connected,
                   faults, page, cleared, cut, heard, missed>>
CloseEngineAfterTrades ==   \* mistaken: not before the waiting trades were sent
    /\ bridge /\ engine = "noticed" /\ stdout = <<>> /\ pending = <<>>
    /\ engine' = "closed"
    /\ UNCHANGED <<bridge, stdin, commands, engine_book, stdout, pending, net, connected,
                   faults, page, cleared, cut, heard, missed>>
CloseEngine ==
    /\ bridge /\ engine = "noticed" /\ stdout = <<>>
    /\ engine' = "closed"
    /\ UNCHANGED <<bridge, stdin, commands, engine_book, stdout, pending, net, connected,
                   faults, page, cleared, cut, heard, missed>>

(* The page's handlers.                                                       *)
HandledBy(p, e) ==
    CASE e.ev = "book_update" -> [p EXCEPT !.book = e.value]
      [] e.ev = "latency"     -> [p EXCEPT !.latency = e.value]
      [] e.ev = "cleared"     -> [p EXCEPT !.trades = <<>>, !.latency = NoCommand]
      [] e.ev = "trade"       ->
            [p EXCEPT !.trades = SubSeq(<<e>> \o @, 1, IF Len(@) < Shown THEN Len(@) + 1 ELSE Shown)]

ReceiveIgnoresCleared ==   \* mistaken: the page does not listen to 'cleared'
    /\ net # <<>> /\ net' = Tail(net)
    /\ page' = IF net[1].ev = "cleared" THEN page ELSE HandledBy(page, net[1])
    /\ cleared' = IF net[1].ev = "cleared" THEN net[1].value ELSE cleared
    /\ UNCHANGED <<procs, stdin, commands, engine_book, stdout, pending, connected, faults, cut, heard, missed>>
Receive ==
    /\ net # <<>> /\ net' = Tail(net)
    /\ page' = HandledBy(page, net[1])
    /\ cleared' = IF net[1].ev = "cleared" THEN net[1].value ELSE cleared
    /\ UNCHANGED <<procs, stdin, commands, engine_book, stdout, pending, connected, faults, cut, heard, missed>>

(* The connection drops with what is on its way; it comes back with the page  *)
(* as it was or loaded anew.  The bridge sends nothing on connection.         *)
Disconnect ==
    /\ connected /\ faults < MaxFaults
    /\ connected' = FALSE /\ faults' = faults + 1
    /\ net' = <<>> /\ Missing(BooksIn(net))
    /\ UNCHANGED <<procs, stdin, commands, engine_book, stdout, pending, page, cleared, cut, heard>>

Connect(loaded) ==
    /\ bridge /\ ~connected /\ connected' = TRUE
    /\ IF loaded
       THEN /\ page' = EmptyPage /\ cleared' = NoCommand
            /\ Missing({page.book})
       ELSE UNCHANGED <<page, cleared, missed>>
    /\ UNCHANGED <<procs, stdin, commands, engine_book, stdout, pending, net, faults, cut, heard>>

EngineStep == (\E n \in 0 .. MaxTrades : MatchOrder(n)) \/ RefuseOrder \/ ClearBook

Next ==
    \/ \E kind \in {"order", "clear"} : Submit(kind)
    \/ SubmitToBrokenPipe
    \/ EngineStep \/ EngineExits
    \/ ReadChunk \/ NoticeExit \/ CloseEngine
    \/ Receive \/ Disconnect \/ \E loaded \in BOOLEAN : Connect(loaded)

Spec == Init /\ [][Next]_vars

(* Node reads what is in the pipe and hears of the exit of its child. That    *)
(* something is read is all that fairness says of ReadChunk.                  *)
ReadsSome == bridge /\ \E n \in 1 .. Len(stdout) : stdout' = SubSeq(stdout, n + 1, Len(stdout))
FairSpec == Spec /\ WF_stdout(ReadsSome) /\ WF_vars(NoticeExit) /\ WF_vars(CloseEngine)

(* What was sent to the page, oldest first: the trades it shows, then the     *)
(* events on their way.                                                       *)
Sent == Reverse(page.trades) \o net

Earlier(s, t) == s.cmd < t.cmd \/ (s.cmd = t.cmd /\ s.k < t.k)

(* The page sees trades in the order of the engine and none of them twice,    *)
(* wherever the chunks are cut, also when trades wait for a later LATENCY and *)
(* across lost connections.                                                   *)
TradesInOrder ==
    LET all == Sent \o [i \in DOMAIN pending |-> TradeEvent(pending[i], NoCommand)]
    IN  \A i, j \in DOMAIN all :
            i < j /\ all[i].ev = "trade" /\ all[j].ev = "trade" => Earlier(all[i].value, all[j].value)

(* A trade is shown with the number in the first LATENCY line that the bridge *)
(* recognised from its own order on; that is its own order's, unless a chunk  *)
(* boundary destroyed that line, and the number is a wrong one only if the    *)
(* line was damaged. No trade waits past a LATENCY line that came through.    *)
FirstHeard(d, c) == d >= c /\ \A e \in heard : e < c \/ e >= d
LatencyIsOwn ==
    \A i \in DOMAIN Sent :
        Sent[i].ev = "trade" =>
            LET c == Sent[i].value.cmd
            IN  \E d \in heard :
                    /\ FirstHeard(d, c) /\ (d # c => c \in cut)
                    /\ Sent[i].latency = d \/ (Sent[i].latency = NoCommand /\ d \in cut)

(* After a CLEAR the page shows no trade of an order before it, unless the    *)
(* LATENCY line of that order was destroyed and the trade waited in           *)
(* pendingTrades, which a CLEAR does not empty.                               *)
ClearEmptiesPage ==
    \A i \in DOMAIN page.trades :
        LET c == page.trades[i].value.cmd
        IN  c > cleared \/ c \in cut

(* When everything printed has arrived, the page shows the engine's book,     *)
(* unless the last BOOK line was cut, or came when this page was not there:   *)
(* a page that connects is sent nothing until the next order.  This holds of  *)
(* the last book of an engine that has exited, too.                           *)
PageBookCurrent ==
    bridge /\ stdin = <<>> /\ stdout = <<>> /\ net = <<>> /\ engine_book # NoCommand =>
        page.book = engine_book \/ missed = engine_book

(* No trade waits in pendingTrades for ever, unless the LATENCY line of an    *)
(* order with a waiting trade was destroyed, or the engine exited before it   *)
(* printed it.                                                                *)
TradesLeavePending ==
    pending # <<>> ~> \/ pending = <<>> \/ engine # "running"
                      \/ \E i \in DOMAIN pending : pending[i].cmd \in cut

(* When the engine has exited the middleware says so ("stopped"), with all    *)
(* that the engine printed passed on, unless a page submits before the exit   *)
(* was noticed: that ends the middleware itself.                              *)
ExitReported ==
    engine = "exited" ~> ~bridge \/ (engine = "closed" /\ stdout = <<>>)
=============================================================================
