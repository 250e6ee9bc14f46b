---------------------------- MODULE BridgeProofs ----------------------------
(* Theorems about Bridge, for every number of commands, trades and faults and *)
(* every length of the page's list: where the chunks are cut, when the        *)
(* connection drops and when the engine dies makes no difference to them.     *)
EXTENDS Bridge, SequenceTheorems, WellFoundedInduction, TLAPS

Cmd       == Nat \ {0}
Trade     == [cmd : Cmd, k : 1 .. MaxTrades]
Line      == [kind : {"BOOK", "LATENCY", "CLEAR_ACK"}, cmd : Cmd, k : {0}]
             \cup [kind : {"TRADE"}, cmd : Cmd, k : 1 .. MaxTrades]
HalfLine  == [line : Line, half : {1, 2}]
SentTrade == [ev : {"trade"}, value : Trade, latency : Nat]
NetEvent  == [ev : {"book_update", "latency", "cleared"}, value : Nat] \cup SentTrade

Types ==
    /\ engine \in {"running", "exited", "noticed", "closed"}
    /\ bridge \in BOOLEAN /\ connected \in BOOLEAN
    /\ stdin \in Seq([kind : {"order", "clear"}, cmd : Cmd])
    /\ commands \in Nat /\ engine_book \in Nat /\ cleared \in Nat /\ missed \in Nat
    /\ stdout \in Seq(HalfLine) /\ pending \in Seq(Trade) /\ net \in Seq(NetEvent)
    /\ page \in [book : Nat, trades : Seq(SentTrade), latency : Nat]

IsTrade(e)   == e.ev = "trade"
IsBook(e)    == e.ev = "book_update"
IsCleared(e) == e.ev = "cleared"
Latency(c)   == PlainLine("LATENCY", c)
Ends(l)      == l.kind \in {"LATENCY", "CLEAR_ACK"}

(* The place of a line in all that the engine prints, comparable with the     *)
(* place of a trade.                                                          *)
LastRank == MaxTrades + 2
Rank(l)  == IF l.kind = "TRADE" THEN l.k
            ELSE IF l.kind = "BOOK" THEN MaxTrades + 1 ELSE LastRank
Place(l) == [cmd |-> l.cmd, k |-> Rank(l)]
Before(l, m) == Earlier(Place(l), Place(m))

(* Output comes in pairs of halves, the first of which may have been read,    *)
(* and the lines in it stand in their order.                                  *)
Shape ==
    /\ \A i \in DOMAIN stdout :
        /\ stdout[i].half = 1 => i + 1 \in DOMAIN stdout /\ stdout[i + 1].half = 2
        /\ stdout[i].half = 2 /\ i + 1 \in DOMAIN stdout => stdout[i + 1].half = 1
    /\ \A i, j \in DOMAIN stdout :
        i < j /\ stdout[i].half = 1 /\ stdout[j].half = 1 => Before(stdout[i].line, stdout[j].line)

(* The lines that begin at the i-th half or later.                            *)
LinesFrom(i) == {stdout[j].line : j \in {x \in DOMAIN stdout : x >= i /\ stdout[x].half = 1}}
Unread == LinesFrom(1)

(* The parts of the invariant are stated of any events on their way to the    *)
(* page (nt), waiting trades (pd), set of lines not yet handled (R) and set   *)
(* of damaged latencies (ct), so that they can be followed through the loop   *)
(* over the lines of a chunk; pt and cl are the page's trades and cleared.    *)
(* First: a trade is at one place of its way only, and in order with others.  *)
Ordered(pt, nt, pd, R) ==
    /\ \A i, j \in DOMAIN pt : i < j => Earlier(pt[j].value, pt[i].value)
    /\ \A i, j \in DOMAIN nt :
        i < j /\ IsTrade(nt[i]) /\ IsTrade(nt[j]) => Earlier(nt[i].value, nt[j].value)
    /\ \A i, j \in DOMAIN pd : i < j => Earlier(pd[i], pd[j])
    /\ \A i \in DOMAIN pt, j \in DOMAIN nt : IsTrade(nt[j]) => Earlier(pt[i].value, nt[j].value)
    /\ \A i \in DOMAIN pt, j \in DOMAIN pd : Earlier(pt[i].value, pd[j])
    /\ \A i \in DOMAIN nt, j \in DOMAIN pd : IsTrade(nt[i]) => Earlier(nt[i].value, pd[j])
    /\ \A l \in R :
        /\ \A i \in DOMAIN pt : Earlier(pt[i].value, Place(l))
        /\ \A i \in DOMAIN nt : IsTrade(nt[i]) => Earlier(nt[i].value, Place(l))
        /\ \A i \in DOMAIN pd : Earlier(pd[i], Place(l))

(* What was sent has its latency; and before any line that ends an answer     *)
(* stands the LATENCY line of every trade waiting or printed earlier, unless  *)
(* that line was destroyed.                                                   *)
OwnLatency(e, ct) ==
    /\ e.latency # NoCommand => e.latency >= e.value.cmd
    /\ e.latency # e.value.cmd => e.value.cmd \in ct
Timed(pt, nt, pd, R, ct) ==
    /\ \A i \in DOMAIN pt : OwnLatency(pt[i], ct)
    /\ \A i \in DOMAIN nt : IsTrade(nt[i]) => OwnLatency(nt[i], ct)
    /\ \A i \in DOMAIN pd : \A l \in R :
        Ends(l) => pd[i].cmd \in ct \/ Latency(pd[i].cmd) \in R
    /\ \A t, l \in R : t.kind = "TRADE" /\ Ends(l) /\ Before(t, l) => Latency(t.cmd) \in R

(* A trade that follows a CLEAR is later than it, or its latency was damaged. *)
Since(c, v, ct) == c > v \/ c \in ct
Cleared(pt, cl, nt, pd, R, ct) ==
    /\ \A i \in DOMAIN pt : Since(pt[i].value.cmd, cl, ct)
    /\ \A i \in DOMAIN nt : IsTrade(nt[i]) => Since(nt[i].value.cmd, cl, ct)
    /\ \A i \in DOMAIN pd : Since(pd[i].cmd, cl, ct)
    /\ \A i, j \in DOMAIN nt :
        i < j /\ IsCleared(nt[i]) /\ IsTrade(nt[j]) => Since(nt[j].value.cmd, nt[i].value, ct)
    /\ \A i \in DOMAIN nt, j \in DOMAIN pd : IsCleared(nt[i]) => Since(pd[j].cmd, nt[i].value, ct)
    /\ \A l \in R : cl < l.cmd /\ \A i \in DOMAIN nt : IsCleared(nt[i]) => nt[i].value < l.cmd

Flows(pt, cl, nt, pd, R, ct) ==
    Ordered(pt, nt, pd, R) /\ Timed(pt, nt, pd, R, ct) /\ Cleared(pt, cl, nt, pd, R, ct)

(* While the engine runs, what it has printed are whole answers.              *)
Answering(pd, R, ct) ==
    engine = "running" =>
        /\ \A i \in DOMAIN pd : pd[i].cmd \in ct \/ Latency(pd[i].cmd) \in R
        /\ \A t \in R : t.kind = "TRADE" => Latency(t.cmd) \in R

(* Nothing is about a command that the engine has not read.                   *)
Answered == IF stdin = <<>> THEN commands ELSE stdin[1].cmd - 1
Queue ==
    /\ \A i, j \in DOMAIN stdin : i < j => stdin[i].cmd < stdin[j].cmd
    /\ \A i \in DOMAIN stdin : stdin[i].cmd <= commands
Past(pt, cl, nt, pd, R, c) ==
    /\ \A i \in DOMAIN pt : pt[i].value.cmd <= c
    /\ \A i \in DOMAIN nt : IF IsTrade(nt[i]) THEN nt[i].value.cmd <= c ELSE nt[i].value <= c
    /\ \A i \in DOMAIN pd : pd[i].cmd <= c
    /\ \A l \in R : l.cmd <= c
    /\ cl <= c

(* Books reach the page in order (b is the one it shows), and the last one is *)
(* printed, on its way, shown or missed.                                      *)
BooksOrdered(b, nt, R, eb) ==
    /\ \A i \in DOMAIN nt : IsBook(nt[i]) => b < nt[i].value /\ nt[i].value <= eb
    /\ \A i, j \in DOMAIN nt : i < j /\ IsBook(nt[i]) /\ IsBook(nt[j]) => nt[i].value < nt[j].value
    /\ \A l \in R : l.kind = "BOOK" => l.cmd <= eb /\ b < l.cmd
    /\ \A l \in R : l.kind = "BOOK" => \A i \in DOMAIN nt : IsBook(nt[i]) => nt[i].value < l.cmd
OnItsWay(nt, R, eb) ==
    \/ PlainLine("BOOK", eb) \in R
    \/ \E i \in DOMAIN nt : IsBook(nt[i]) /\ nt[i].value = eb
LastBook ==
    /\ page.book <= engine_book /\ missed <= engine_book /\ engine_book <= Answered
    /\ bridge /\ engine_book # NoCommand =>
        OnItsWay(net, Unread, engine_book) \/ page.book = engine_book \/ missed = engine_book

(* Nothing is on its way to a page that is not there.                         *)
Apart == bridge /\ ~connected => net = <<>>

(* A trade that was sent has the number of the first LATENCY line recognised  *)
(* from its own order on; all that waits or is not read yet is later than the *)
(* orders whose LATENCY was recognised (hd).                                  *)
ShowsFirst(e, hd, ct) ==
    \E d \in hd :
        /\ d >= e.value.cmd /\ \A x \in hd : x < e.value.cmd \/ x >= d
        /\ e.latency = d \/ (e.latency = NoCommand /\ d \in ct)
Prompt(s, hd, ct) == \A i \in DOMAIN s : IsTrade(s[i]) => ShowsFirst(s[i], hd, ct)
Behind(pd, R, hd) == \A d \in hd : /\ \A i \in DOMAIN pd : d < pd[i].cmd
                                   /\ \A l \in R : d < l.cmd
Hears(pt, nt, pd, R, hd, ct) ==
    hd \in SUBSET Nat /\ Behind(pd, R, hd) /\ Prompt(pt, hd, ct) /\ Prompt(nt, hd, ct)
HeardInTime ==
    /\ Hears(page.trades, net, pending, Unread, heard, cut)
    /\ \A d \in heard : d <= Answered

IInv ==
    /\ Types /\ Shape /\ Queue /\ Apart /\ LastBook
    /\ Flows(page.trades, cleared, net, pending, Unread, cut)
    /\ Answering(pending, Unread, cut)
    /\ Past(page.trades, cleared, net, pending, Unread, Answered)
    /\ BooksOrdered(page.book, net, Unread, engine_book)
    /\ HeardInTime

(* Induction over the natural numbers, for a set.                             *)
LEMMA SetInduction ==
    ASSUME NEW S, 0 \in S, \A n \in Nat : n \in S => n + 1 \in S
    PROVE  Nat \subseteq S
<1> DEFINE T == Nat \ S
<1>1. SUFFICES ASSUME T # {} PROVE FALSE
  OBVIOUS
<1>2. PICK x \in T : \A y \in T : <<y, x>> \notin OpToRel(<, Nat)
  BY <1>1, WFMin, NatLessThanWellFounded, Zenon
<1>3. \A y \in T : ~(y < x)
  BY <1>2, Zenon DEF OpToRel
<1>4. x # 0 /\ x - 1 \in Nat /\ x - 1 < x /\ (x - 1) + 1 = x
  OBVIOUS
<1>5. x - 1 \in S
  BY <1>3, <1>4
<1> QED BY <1>4, <1>5

(* ------------------------- Lines and their places ------------------------ *)

LEMMA LineTypes ==
    ASSUME NEW l \in Line
    PROVE  /\ l.cmd \in Cmd /\ l.cmd \in Nat /\ l.cmd >= 1 /\ l.k \in Nat
           /\ l.kind \in {"BOOK", "LATENCY", "CLEAR_ACK", "TRADE"}
           /\ l.kind # "TRADE" => l = PlainLine(l.kind, l.cmd)
           /\ l.kind = "TRADE" => [cmd |-> l.cmd, k |-> l.k] \in Trade
           /\ Rank(l) \in Nat /\ Place(l).cmd = l.cmd /\ Place(l).k = Rank(l)
           /\ l.kind = "TRADE" => Rank(l) = l.k /\ Rank(l) <= MaxTrades
           /\ l.kind = "BOOK" => Rank(l) = MaxTrades + 1
           /\ Ends(l) => Rank(l) = LastRank
           /\ LastRank = MaxTrades + 2 /\ MaxTrades \in Nat
BY BoundsAssumption DEF Line, Cmd, Trade, PlainLine, Rank, Place, Ends, LastRank

LEMMA TradeTypes ==
    ASSUME NEW t \in Trade
    PROVE  t.cmd \in Cmd /\ t.cmd \in Nat /\ t.cmd >= 1 /\ t.k \in Nat /\ t.k <= MaxTrades
BY BoundsAssumption DEF Trade, Cmd

LEMMA EventTypes ==
    ASSUME NEW e \in NetEvent
    PROVE  /\ e.ev \in {"book_update", "latency", "cleared", "trade"}
           /\ IsTrade(e) => e \in SentTrade /\ e.value \in Trade /\ e.latency \in Nat
           /\ ~IsTrade(e) => e.value \in Nat
BY DEF NetEvent, SentTrade, IsTrade

LEMMA SentTypes ==
    ASSUME NEW e \in SentTrade
    PROVE  e.value \in Trade /\ e.latency \in Nat /\ IsTrade(e) /\ e \in NetEvent
BY DEF NetEvent, SentTrade, IsTrade

(* What "earlier" says of places.                                             *)
LEMMA EarlierTransitive ==
    ASSUME NEW a, NEW b, NEW c, a.cmd \in Nat, b.cmd \in Nat, c.cmd \in Nat,
           a.k \in Nat, b.k \in Nat, c.k \in Nat, Earlier(a, b), Earlier(b, c)
    PROVE  Earlier(a, c)
BY DEF Earlier

(* The LATENCY line of a command ends its answer.                             *)
LEMMA LatencyLine ==
    ASSUME NEW c \in Cmd
    PROVE  /\ Latency(c) \in Line /\ Ends(Latency(c)) /\ Latency(c).cmd = c
           /\ Place(Latency(c)).cmd = c /\ Place(Latency(c)).k = LastRank
BY DEF Latency, Ends, Line, PlainLine, Cmd, Place, Rank, LastRank

(* Of the lines not handled yet, r is the next.                               *)
IsNext(r, R) == r \in R /\ \A l \in R : l = r \/ Before(r, l)

(* When a line ends an answer, the trades waiting are of that answer, or the  *)
(* latency of theirs was damaged.                                             *)
LEMMA WaitingAreOwn ==
    ASSUME NEW pd \in Seq(Trade), NEW R \in SUBSET Line, NEW r \in Line, NEW ct, NEW pt, NEW nt,
           IsNext(r, R), Ends(r), Ordered(pt, nt, pd, R), Timed(pt, nt, pd, R, ct),
           NEW i \in DOMAIN pd
    PROVE  /\ pd[i].cmd <= r.cmd
           /\ pd[i].cmd \in ct \/ (r = Latency(pd[i].cmd) /\ r.cmd = pd[i].cmd)
<1>1. pd[i] \in Trade /\ r \in R
  BY DEF IsNext
<1>2. Earlier(pd[i], Place(r)) /\ (pd[i].cmd \in ct \/ Latency(pd[i].cmd) \in R)
  BY <1>1 DEF Ordered, Timed
<1>3. pd[i].cmd \in Cmd /\ pd[i].cmd \in Nat /\ r.cmd \in Nat
  BY <1>1, TradeTypes, LineTypes
<1>4. Place(r).cmd = r.cmd /\ Place(r).k = LastRank /\ LastRank \in Nat
  BY LineTypes
<1>5. pd[i].cmd <= r.cmd
  BY <1>2, <1>3, <1>4 DEF Earlier
<1>6. ASSUME Latency(pd[i].cmd) \in R, r # Latency(pd[i].cmd) PROVE FALSE
  <2>1. Before(r, Latency(pd[i].cmd))
    BY <1>6 DEF IsNext
  <2>2. Place(Latency(pd[i].cmd)).cmd = pd[i].cmd /\ Place(Latency(pd[i].cmd)).k = LastRank
    BY <1>3, LatencyLine
  <2> QED BY <1>3, <1>4, <1>5, <2>1, <2>2 DEF Before, Earlier
<1>7. Latency(pd[i].cmd).cmd = pd[i].cmd
  BY <1>3, LatencyLine
<1> QED BY <1>2, <1>5, <1>6, <1>7

(* --------------------- How the parts of Flows change --------------------- *)

(* The first sequence is a beginning of the second.                           *)
Begins(s, t) == \A i \in DOMAIN s : i \in DOMAIN t /\ t[i] = s[i]

(* Events that are not sent, waiting trades that are dropped, output that is  *)
(* not read and latencies damaged later do no harm.                           *)
LEMMA FlowsLess ==
    ASSUME NEW pt \in Seq(SentTrade), NEW cl, NEW nt \in Seq(NetEvent), NEW n2 \in Seq(NetEvent),
           NEW pd \in Seq(Trade), NEW p2, NEW R \in SUBSET Line, NEW R2, NEW ct, NEW c2,
           Flows(pt, cl, nt, pd, R, ct), Begins(n2, nt), ct \subseteq c2,
           p2 = pd \/ p2 = <<>>, R2 = R \/ R2 = {}
    PROVE  Flows(pt, cl, n2, p2, R2, c2)
<1>1. Ordered(pt, nt, pd, R) /\ Timed(pt, nt, pd, R, ct) /\ Cleared(pt, cl, nt, pd, R, ct)
  BY DEF Flows
<1>2. Ordered(pt, n2, p2, R2)
  BY <1>1 DEF Ordered, Begins
<1>3. Timed(pt, n2, p2, R2, c2)
  BY <1>1 DEF Timed, OwnLatency, Begins
<1>4. Cleared(pt, cl, n2, p2, R2, c2)
  BY <1>1 DEF Cleared, Since, Begins
<1> QED BY <1>2, <1>3, <1>4 DEF Flows

(* The next line leaves the output, if no trade needs it any more.            *)
LEMMA FlowsDrop ==
    ASSUME NEW pt \in Seq(SentTrade), NEW cl, NEW nt \in Seq(NetEvent), NEW pd \in Seq(Trade),
           NEW R \in SUBSET Line, NEW ct, NEW r \in Line,
           Flows(pt, cl, nt, pd, R, ct), IsNext(r, R),
           r.kind = "LATENCY" => r.cmd \in ct \/ pd = <<>>
    PROVE  /\ Flows(pt, cl, nt, pd, R \ {r}, ct)
           /\ \A t \in R \ {r} : t.kind = "TRADE" => Latency(t.cmd) # r
<1>1. Ordered(pt, nt, pd, R) /\ Timed(pt, nt, pd, R, ct) /\ Cleared(pt, cl, nt, pd, R, ct)
  BY DEF Flows
<1>2. Ordered(pt, nt, pd, R \ {r})
  BY <1>1 DEF Ordered
<1>3. Cleared(pt, cl, nt, pd, R \ {r}, ct)
  BY <1>1 DEF Cleared
<1>4. ASSUME NEW t \in R \ {r}, t.kind = "TRADE", Latency(t.cmd) = r PROVE FALSE
  <2>1. Before(r, t)
    BY DEF IsNext
  <2>2. t.cmd \in Cmd /\ t.cmd \in Nat /\ Place(t).cmd = t.cmd /\ Place(t).k <= MaxTrades
        /\ MaxTrades \in Nat /\ LastRank = MaxTrades + 2 /\ Place(t).k \in Nat
    BY <1>4, LineTypes
  <2>3. Place(r).cmd = t.cmd /\ Place(r).k = LastRank
    BY <1>4, <2>2, LatencyLine
  <2> QED BY <2>1, <2>2, <2>3 DEF Before, Earlier
<1>5. ASSUME NEW i \in DOMAIN pd, Latency(pd[i].cmd) = r PROVE pd[i].cmd \in ct
  <2>1. pd[i].cmd \in Cmd
    BY TradeTypes
  <2>2. r.kind = "LATENCY" /\ r.cmd = pd[i].cmd /\ pd # <<>>
    BY <1>5 DEF Latency, PlainLine
  <2> QED BY <2>2
<1>6. Timed(pt, nt, pd, R \ {r}, ct)
  BY <1>1, <1>4, <1>5 DEF Timed
<1> QED BY <1>2, <1>3, <1>4, <1>6 DEF Flows

(* An event that is neither a trade nor a CLEAR is sent.                      *)
Plus1(n2, nt, e) ==
    DOMAIN n2 = 1 .. Len(nt) + 1 /\ n2[Len(nt) + 1] = e /\ \A i \in DOMAIN nt : n2[i] = nt[i]

LEMMA FlowsEvent ==
    ASSUME NEW pt \in Seq(SentTrade), NEW cl, NEW nt \in Seq(NetEvent), NEW n2 \in Seq(NetEvent),
           NEW pd \in Seq(Trade), NEW R \in SUBSET Line, NEW ct, NEW e,
           Flows(pt, cl, nt, pd, R, ct), Plus1(n2, nt, e), ~IsTrade(e), ~IsCleared(e)
    PROVE  Flows(pt, cl, n2, pd, R, ct)
<1>1. Ordered(pt, nt, pd, R) /\ Timed(pt, nt, pd, R, ct) /\ Cleared(pt, cl, nt, pd, R, ct)
  BY DEF Flows
<1>2. \A i \in DOMAIN n2 : (i \in DOMAIN nt /\ n2[i] = nt[i]) \/ n2[i] = e
  BY DEF Plus1
<1>3. \A i \in DOMAIN n2 : IsTrade(n2[i]) \/ IsCleared(n2[i]) => i \in DOMAIN nt /\ n2[i] = nt[i]
  BY <1>2
<1>4. Ordered(pt, n2, pd, R)
  BY <1>1, <1>3 DEF Ordered
<1>5. Timed(pt, n2, pd, R, ct)
  BY <1>1, <1>3 DEF Timed
<1>6. Cleared(pt, cl, n2, pd, R, ct)
  BY <1>1, <1>3 DEF Cleared
<1> QED BY <1>4, <1>5, <1>6 DEF Flows

(* CLEAR is acknowledged.                                                     *)
LEMMA FlowsClear ==
    ASSUME NEW pt \in Seq(SentTrade), NEW cl, NEW nt \in Seq(NetEvent), NEW n2 \in Seq(NetEvent),
           NEW pd \in Seq(Trade), NEW R \in SUBSET Line, NEW ct, NEW e,
           Flows(pt, cl, nt, pd, R, ct), Plus1(n2, nt, e), ~IsTrade(e),
           \A l \in R : e.value < l.cmd,
           \A i \in DOMAIN pd : Since(pd[i].cmd, e.value, ct)
    PROVE  Flows(pt, cl, n2, pd, R, ct)
<1>1. Ordered(pt, nt, pd, R) /\ Timed(pt, nt, pd, R, ct) /\ Cleared(pt, cl, nt, pd, R, ct)
  BY DEF Flows
<1>2. \A i \in DOMAIN n2 : (i \in DOMAIN nt /\ n2[i] = nt[i]) \/ (i = Len(nt) + 1 /\ n2[i] = e)
  BY DEF Plus1
<1>3. \A i \in DOMAIN n2 : IsTrade(n2[i]) => i \in DOMAIN nt /\ n2[i] = nt[i] /\ i <= Len(nt)
  BY <1>2
<1>4. Ordered(pt, n2, pd, R)
  BY <1>1, <1>3 DEF Ordered
<1>5. Timed(pt, n2, pd, R, ct)
  BY <1>1, <1>3 DEF Timed
<1>6. Cleared(pt, cl, n2, pd, R, ct)
  <2>1. ASSUME NEW i \in DOMAIN n2, NEW j \in DOMAIN n2, i < j, IsCleared(n2[i]), IsTrade(n2[j])
        PROVE  Since(n2[j].value.cmd, n2[i].value, ct)
    <3>1. j \in DOMAIN nt /\ n2[j] = nt[j] /\ j <= Len(nt) /\ Len(nt) \in Nat /\ j \in Int /\ i \in Int
      BY <1>3, <2>1
    <3>2. i \in DOMAIN nt /\ n2[i] = nt[i]
      BY <1>2, <2>1, <3>1
    <3> QED BY <1>1, <2>1, <3>1, <3>2 DEF Cleared
  <2> QED BY <1>1, <1>2, <1>3, <2>1 DEF Cleared
<1> QED BY <1>4, <1>5, <1>6 DEF Flows

(* A trade begins to wait.                                                    *)
LEMMA FlowsWait ==
    ASSUME NEW pt \in Seq(SentTrade), NEW cl \in Nat, NEW nt \in Seq(NetEvent), NEW pd \in Seq(Trade),
           NEW p2 \in Seq(Trade), NEW R \in SUBSET Line, NEW ct, NEW t \in Trade,
           Flows(pt, cl, nt, pd, R, ct), Plus1(p2, pd, t),
           \A i \in DOMAIN pt : Earlier(pt[i].value, t),
           \A i \in DOMAIN nt : IsTrade(nt[i]) => Earlier(nt[i].value, t),
           \A i \in DOMAIN pd : Earlier(pd[i], t),
           \A l \in R : Earlier(t, Place(l)),
           \A l \in R : Ends(l) => Latency(t.cmd) \in R,
           cl < t.cmd, \A i \in DOMAIN nt : IsCleared(nt[i]) => nt[i].value < t.cmd
    PROVE  Flows(pt, cl, nt, p2, R, ct)
<1>1. Ordered(pt, nt, pd, R) /\ Timed(pt, nt, pd, R, ct) /\ Cleared(pt, cl, nt, pd, R, ct)
  BY DEF Flows
<1>2. \A i \in DOMAIN p2 : (i \in DOMAIN pd /\ p2[i] = pd[i]) \/ (i = Len(pd) + 1 /\ p2[i] = t)
  BY DEF Plus1
<1>3. Ordered(pt, nt, p2, R)
  <2>1. ASSUME NEW i \in DOMAIN p2, NEW j \in DOMAIN p2, i < j PROVE Earlier(p2[i], p2[j])
    <3>1. CASE j \in DOMAIN pd
      <4>1. i \in DOMAIN pd
        BY <1>2, <2>1, <3>1
      <4> QED BY <1>1, <2>1, <3>1, <4>1 DEF Ordered, Plus1
    <3>2. CASE j \notin DOMAIN pd
      <4>1. p2[j] = t /\ i # Len(pd) + 1
        BY <1>2, <2>1, <3>2
      <4> QED BY <1>2, <4>1
    <3> QED BY <3>1, <3>2
  <2> QED BY <1>1, <1>2, <2>1 DEF Ordered
<1>4. Timed(pt, nt, p2, R, ct)
  BY <1>1, <1>2 DEF Timed
<1>5. Cleared(pt, cl, nt, p2, R, ct)
  <2>1. t.cmd \in Nat
    BY TradeTypes
  <2>2. Since(t.cmd, cl, ct)
    BY <2>1 DEF Since
  <2>3. \A i \in DOMAIN nt : IsCleared(nt[i]) => Since(t.cmd, nt[i].value, ct)
    <3>1. \A i \in DOMAIN nt : IsCleared(nt[i]) => nt[i].value \in Nat
      BY EventTypes DEF IsCleared, IsTrade
    <3> QED BY <2>1, <3>1 DEF Since
  <2> QED BY <1>1, <1>2, <2>2, <2>3 DEF Cleared
<1> QED BY <1>3, <1>4, <1>5 DEF Flows

(* The waiting trades are sent.                                               *)
Sends(n2, nt, pd, v) ==
    /\ DOMAIN n2 = 1 .. Len(nt) + Len(pd)
    /\ \A i \in DOMAIN nt : n2[i] = nt[i]
    /\ \A i \in DOMAIN pd : n2[Len(nt) + i] = TradeEvent(pd[i], v)

LEMMA FlowsSend ==
    ASSUME NEW pt \in Seq(SentTrade), NEW cl, NEW nt \in Seq(NetEvent), NEW n2 \in Seq(NetEvent),
           NEW pd \in Seq(Trade), NEW R \in SUBSET Line, NEW ct, NEW v,
           Flows(pt, cl, nt, pd, R, ct), Sends(n2, nt, pd, v),
           \A i \in DOMAIN pd : OwnLatency(TradeEvent(pd[i], v), ct)
    PROVE  Flows(pt, cl, n2, <<>>, R, ct)
<1>1. Ordered(pt, nt, pd, R) /\ Timed(pt, nt, pd, R, ct) /\ Cleared(pt, cl, nt, pd, R, ct)
  BY DEF Flows
<1>2. ASSUME NEW i \in DOMAIN n2
      PROVE  \/ (i \in DOMAIN nt /\ n2[i] = nt[i] /\ i <= Len(nt))
             \/ /\ i - Len(nt) \in DOMAIN pd /\ n2[i] = TradeEvent(pd[i - Len(nt)], v) /\ i > Len(nt)
                /\ n2[i].value = pd[i - Len(nt)] /\ ~IsCleared(n2[i])
  <2>1. i \in 1 .. Len(nt) + Len(pd) /\ Len(nt) \in Nat /\ Len(pd) \in Nat
        /\ DOMAIN nt = 1 .. Len(nt) /\ DOMAIN pd = 1 .. Len(pd)
    BY DEF Sends
  <2>2. CASE i <= Len(nt)
    BY <2>1, <2>2 DEF Sends
  <2>3. CASE i > Len(nt)
    <3>1. i - Len(nt) \in DOMAIN pd /\ Len(nt) + (i - Len(nt)) = i
      BY <2>1, <2>3
    <3>2. n2[i] = TradeEvent(pd[i - Len(nt)], v)
      BY <3>1 DEF Sends
    <3> QED BY <2>3, <3>1, <3>2 DEF TradeEvent, IsCleared
  <2> QED BY <2>1, <2>2, <2>3
<1>3. Len(nt) \in Nat /\ \A i \in DOMAIN n2 : i \in Int
  BY DEF Sends
<1>4. Ordered(pt, n2, <<>>, R)
  <2>1. ASSUME NEW i \in DOMAIN n2, NEW j \in DOMAIN n2, i < j, IsTrade(n2[i]), IsTrade(n2[j])
        PROVE  Earlier(n2[i].value, n2[j].value)
    <3>1. CASE i > Len(nt)
      <4>1. /\ i - Len(nt) \in DOMAIN pd /\ j - Len(nt) \in DOMAIN pd
            /\ i - Len(nt) < j - Len(nt)
            /\ n2[i].value = pd[i - Len(nt)] /\ n2[j].value = pd[j - Len(nt)]
        BY <1>2, <1>3, <2>1, <3>1
      <4> QED BY <1>1, <4>1 DEF Ordered
    <3>2. CASE i <= Len(nt)
      BY <1>1, <1>2, <1>3, <2>1, <3>2 DEF Ordered
    <3> QED BY <1>3, <3>1, <3>2
  <2>2. ASSUME NEW i \in DOMAIN pt, NEW j \in DOMAIN n2, IsTrade(n2[j])
        PROVE  Earlier(pt[i].value, n2[j].value)
    BY <1>1, <1>2, <2>2 DEF Ordered
  <2>3. ASSUME NEW l \in R, NEW i \in DOMAIN n2, IsTrade(n2[i])
        PROVE  Earlier(n2[i].value, Place(l))
    BY <1>1, <1>2, <2>3 DEF Ordered
  <2> QED BY <1>1, <2>1, <2>2, <2>3 DEF Ordered
<1>5. Timed(pt, n2, <<>>, R, ct)
  BY <1>1, <1>2 DEF Timed
<1>6. Cleared(pt, cl, n2, <<>>, R, ct)
  <2>1. ASSUME NEW i \in DOMAIN n2, NEW j \in DOMAIN n2, i < j, IsCleared(n2[i]), IsTrade(n2[j])
        PROVE  Since(n2[j].value.cmd, n2[i].value, ct)
    <3>1. i \in DOMAIN nt /\ n2[i] = nt[i] /\ i <= Len(nt)
      BY <1>2, <2>1
    <3> QED BY <1>1, <1>2, <2>1, <3>1 DEF Cleared
  <2>2. \A i \in DOMAIN n2 : IsTrade(n2[i]) => Since(n2[i].value.cmd, cl, ct)
    BY <1>1, <1>2 DEF Cleared
  <2>3. \A i \in DOMAIN n2 : IsCleared(n2[i]) => i \in DOMAIN nt /\ n2[i] = nt[i]
    BY <1>2
  <2> QED BY <1>1, <2>1, <2>2, <2>3 DEF Cleared
<1> QED BY <1>4, <1>5, <1>6 DEF Flows

(* ------------------------ The loop over the lines ------------------------ *)

(* What holds in every turn of the loop; D are the books that were damaged.   *)
Loop(nt, pd, R, ct, D) ==
    /\ nt \in Seq(NetEvent) /\ pd \in Seq(Trade) /\ R \in SUBSET Line
    /\ Flows(page.trades, cleared, nt, pd, R, ct)
    /\ Answering(pd, R, ct)
    /\ Past(page.trades, cleared, nt, pd, R, Answered)
    /\ BooksOrdered(page.book, nt, R, engine_book)
    /\ bridge /\ engine_book # NoCommand =>
        OnItsWay(nt, R, engine_book) \/ page.book = engine_book \/ missed = engine_book
                                     \/ engine_book \in D

LEMMA AnsweredType == Types => Answered \in Nat
<1>1. ASSUME Types, stdin # <<>> PROVE stdin[1].cmd - 1 \in Nat
  <2>1. stdin \in Seq([kind : {"order", "clear"}, cmd : Cmd])
    BY <1>1 DEF Types
  <2>2. stdin[1] \in [kind : {"order", "clear"}, cmd : Cmd]
    <3> HIDE DEF Cmd
    <3>1. 1 \in 1 .. Len(stdin)
      BY <1>1, <2>1
    <3> QED BY <2>1, <3>1, ElementOfSeq
  <2> QED BY <2>2 DEF Cmd
<1> QED BY <1>1 DEF Types, Answered

(* A line is not recognised, or it is no line for the page.                   *)
LEMMA LoopDrop ==
    ASSUME Types, NEW nt, NEW pd, NEW R, NEW ct, NEW D, NEW r \in Line,
           Loop(nt, pd, R, ct, D), IsNext(r, R),
           r.kind = "LATENCY" => r.cmd \in ct \/ pd = <<>>,
           r.kind = "BOOK" => r.cmd \in D \/ \E i \in DOMAIN nt : IsBook(nt[i]) /\ nt[i].value = r.cmd
    PROVE  Loop(nt, pd, R \ {r}, ct, D)
<1>1. nt \in Seq(NetEvent) /\ pd \in Seq(Trade) /\ R \in SUBSET Line
  BY DEF Loop
<1>2. page.trades \in Seq(SentTrade)
  BY DEF Types
<1>3. /\ Flows(page.trades, cleared, nt, pd, R \ {r}, ct)
      /\ \A t \in R \ {r} : t.kind = "TRADE" => Latency(t.cmd) # r
  BY <1>1, <1>2, FlowsDrop DEF Loop
<1>4. Answering(pd, R \ {r}, ct)
  <2>1. ASSUME NEW i \in DOMAIN pd, Latency(pd[i].cmd) = r PROVE pd[i].cmd \in ct
    <3>1. r.kind = "LATENCY" /\ r.cmd = pd[i].cmd /\ pd # <<>>
      BY <1>1, <2>1 DEF Latency, PlainLine
    <3> QED BY <3>1
  <2> QED BY <1>3, <2>1 DEF Loop, Answering
<1>5. Past(page.trades, cleared, nt, pd, R \ {r}, Answered)
  BY DEF Loop, Past
<1>6. BooksOrdered(page.book, nt, R \ {r}, engine_book)
  BY DEF Loop, BooksOrdered
<1>7. ASSUME bridge, engine_book # NoCommand
      PROVE  OnItsWay(nt, R \ {r}, engine_book) \/ page.book = engine_book \/ missed = engine_book
                                                \/ engine_book \in D
  <2>1. CASE PlainLine("BOOK", engine_book) = r
    <3>1. r.kind = "BOOK" /\ r.cmd = engine_book
      BY <2>1 DEF PlainLine
    <3> QED BY <3>1 DEF OnItsWay
  <2>2. CASE PlainLine("BOOK", engine_book) # r
    BY <1>7, <2>2 DEF Loop, OnItsWay
  <2> QED BY <2>1, <2>2
<1> QED BY <1>1, <1>3, <1>4, <1>5, <1>6, <1>7 DEF Loop

(* The latency is emitted, first.                                             *)
LEMMA LoopEvent ==
    ASSUME Types, NEW nt, NEW pd, NEW R, NEW ct, NEW D, NEW e \in NetEvent, NEW n2 \in Seq(NetEvent),
           Loop(nt, pd, R, ct, D), Plus1(n2, nt, e), e.ev = "latency", e.value <= Answered
    PROVE  Loop(n2, pd, R, ct, D)
<1>1. nt \in Seq(NetEvent) /\ pd \in Seq(Trade) /\ R \in SUBSET Line
  BY DEF Loop
<1>2. page.trades \in Seq(SentTrade)
  BY DEF Types
<1>3. ~IsTrade(e) /\ ~IsCleared(e) /\ ~IsBook(e)
  BY DEF IsTrade, IsCleared, IsBook
<1>4. \A i \in DOMAIN n2 : (i \in DOMAIN nt /\ n2[i] = nt[i]) \/ n2[i] = e
  BY DEF Plus1
<1>5. Flows(page.trades, cleared, n2, pd, R, ct)
  BY <1>1, <1>2, <1>3, FlowsEvent DEF Loop
<1>6. Past(page.trades, cleared, n2, pd, R, Answered)
  BY <1>3, <1>4 DEF Loop, Past
<1>7. BooksOrdered(page.book, n2, R, engine_book)
  <2>1. \A i \in DOMAIN n2 : IsBook(n2[i]) => i \in DOMAIN nt /\ n2[i] = nt[i]
    BY <1>3, <1>4
  <2> QED BY <2>1 DEF Loop, BooksOrdered
<1>8. OnItsWay(nt, R, engine_book) => OnItsWay(n2, R, engine_book)
  BY <1>1 DEF OnItsWay, Plus1
<1> QED BY <1>1, <1>5, <1>6, <1>7, <1>8 DEF Loop

(* BOOK.                                                                      *)
LEMMA LoopBook ==
    ASSUME Types, NEW nt, NEW pd, NEW R, NEW ct, NEW D, NEW r \in Line, NEW n2 \in Seq(NetEvent),
           Loop(nt, pd, R, ct, D), IsNext(r, R), r.kind = "BOOK",
           Plus1(n2, nt, Event("book_update", r.cmd))
    PROVE  Loop(n2, pd, R \ {r}, ct, D)
<1> DEFINE e == Event("book_update", r.cmd)
<1>1. nt \in Seq(NetEvent) /\ pd \in Seq(Trade) /\ R \in SUBSET Line
  BY DEF Loop
<1>2. page.trades \in Seq(SentTrade)
  BY DEF Types
<1>3. ~IsTrade(e) /\ ~IsCleared(e) /\ IsBook(e) /\ e.value = r.cmd
  BY DEF IsTrade, IsCleared, IsBook, Event
<1>4. \A i \in DOMAIN n2 : \/ (i \in DOMAIN nt /\ n2[i] = nt[i] /\ i <= Len(nt))
                           \/ (i = Len(nt) + 1 /\ n2[i] = e)
  BY <1>1 DEF Plus1
<1>5. /\ Flows(page.trades, cleared, nt, pd, R \ {r}, ct)
      /\ \A t \in R \ {r} : t.kind = "TRADE" => Latency(t.cmd) # r
  BY <1>1, <1>2, FlowsDrop DEF Loop
<1>6. Flows(page.trades, cleared, n2, pd, R \ {r}, ct)
  <2> HIDE DEF e
  <2> QED BY <1>1, <1>2, <1>3, <1>5, FlowsEvent DEF e
<1>7. Answering(pd, R \ {r}, ct)
  <2>1. \A c : Latency(c) # r
    BY DEF Latency, PlainLine
  <2> QED BY <2>1 DEF Loop, Answering
<1>8. Past(page.trades, cleared, n2, pd, R \ {r}, Answered)
  <2> HIDE DEF e
  <2>1. r.cmd <= Answered
    BY DEF Loop, Past, IsNext
  <2> QED BY <1>3, <1>4, <2>1 DEF Loop, Past
<1>9. BooksOrdered(page.book, n2, R \ {r}, engine_book)
  <2> HIDE DEF e
  <2>1. /\ page.book < r.cmd /\ r.cmd <= engine_book
        /\ \A i \in DOMAIN nt : IsBook(nt[i]) => nt[i].value < r.cmd
    BY DEF Loop, BooksOrdered, IsNext
  <2>2. ASSUME NEW l \in R \ {r}, l.kind = "BOOK" PROVE r.cmd < l.cmd
    <3>1. Before(r, l) /\ l \in Line
      BY <1>1 DEF IsNext
    <3>2. /\ Place(r).cmd = r.cmd /\ Place(l).cmd = l.cmd /\ Place(r).k = MaxTrades + 1
          /\ Place(l).k = MaxTrades + 1 /\ MaxTrades \in Nat /\ r.cmd \in Nat /\ l.cmd \in Nat
      BY <2>2, <3>1, LineTypes
    <3> QED BY <3>1, <3>2 DEF Before, Earlier
  <2>3. ASSUME NEW i \in DOMAIN n2, NEW j \in DOMAIN n2, i < j, IsBook(n2[i]), IsBook(n2[j])
        PROVE  n2[i].value < n2[j].value
    <3>1. Len(nt) \in Nat /\ i \in Int /\ j \in Int
      BY <1>1 DEF Plus1
    <3>2. i \in DOMAIN nt /\ n2[i] = nt[i]
      BY <1>4, <2>3, <3>1
    <3>3. CASE j \in DOMAIN nt /\ n2[j] = nt[j]
      BY <2>3, <3>2, <3>3 DEF Loop, BooksOrdered
    <3>4. CASE n2[j] = e
      BY <1>3, <2>1, <2>3, <3>2, <3>4
    <3> QED BY <1>4, <3>3, <3>4
  <2>4. /\ \A i \in DOMAIN n2 : IsBook(n2[i]) => page.book < n2[i].value /\ n2[i].value <= engine_book
        /\ \A l \in R \ {r} : l.kind = "BOOK" => l.cmd <= engine_book /\ page.book < l.cmd
        /\ \A l \in R \ {r} : l.kind = "BOOK" =>
              \A i \in DOMAIN n2 : IsBook(n2[i]) => n2[i].value < l.cmd
    BY <1>3, <1>4, <2>1, <2>2 DEF Loop, BooksOrdered
  <2> QED BY <2>3, <2>4 DEF BooksOrdered
<1>10. OnItsWay(nt, R, engine_book) => OnItsWay(n2, R \ {r}, engine_book)
  <2> HIDE DEF e
  <2>1. Len(nt) + 1 \in DOMAIN n2 /\ n2[Len(nt) + 1] = e
    BY <1>1 DEF Plus1, e
  <2>2. CASE PlainLine("BOOK", engine_book) = r
    <3>1. r.cmd = engine_book
      BY <2>2 DEF PlainLine
    <3> QED BY <1>3, <2>1, <3>1 DEF OnItsWay
  <2>3. CASE PlainLine("BOOK", engine_book) # r
    BY <1>1, <2>3 DEF OnItsWay, Plus1
  <2> QED BY <2>2, <2>3
<1> QED BY <1>1, <1>6, <1>7, <1>8, <1>9, <1>10 DEF Loop

(* TRADE.                                                                     *)
LEMMA LoopTrade ==
    ASSUME Types, NEW nt, NEW pd, NEW R, NEW ct, NEW D, NEW r \in Line, NEW p2 \in Seq(Trade),
           Loop(nt, pd, R, ct, D), IsNext(r, R), r.kind = "TRADE",
           Plus1(p2, pd, [cmd |-> r.cmd, k |-> r.k])
    PROVE  Loop(nt, p2, R \ {r}, ct, D)
<1> DEFINE t == [cmd |-> r.cmd, k |-> r.k]
<1>1. nt \in Seq(NetEvent) /\ pd \in Seq(Trade) /\ R \in SUBSET Line /\ r \in R
  BY DEF Loop, IsNext
<1>2. page.trades \in Seq(SentTrade) /\ cleared \in Nat
  BY DEF Types
<1>3. t \in Trade /\ t.cmd = r.cmd /\ Place(r) = t
  BY LineTypes DEF Place, Rank
<1> HIDE DEF t
<1>4. \A i \in DOMAIN p2 : (i \in DOMAIN pd /\ p2[i] = pd[i]) \/ p2[i] = t
  BY <1>1 DEF Plus1, t
<1>5. /\ Flows(page.trades, cleared, nt, pd, R \ {r}, ct)
      /\ \A l \in R \ {r} : l.kind = "TRADE" => Latency(l.cmd) # r
  BY <1>1, <1>2, FlowsDrop DEF Loop
<1>6. \A c : Latency(c) # r
  BY DEF Latency, PlainLine
<1>7. \A l \in R \ {r} : Before(r, l)
  BY DEF IsNext
<1>8. Flows(page.trades, cleared, nt, p2, R \ {r}, ct)
  <2>1. /\ \A i \in DOMAIN page.trades : Earlier(page.trades[i].value, t)
        /\ \A i \in DOMAIN nt : IsTrade(nt[i]) => Earlier(nt[i].value, t)
        /\ \A i \in DOMAIN pd : Earlier(pd[i], t)
    BY <1>1, <1>3 DEF Loop, Flows, Ordered
  <2>2. \A l \in R \ {r} : Earlier(t, Place(l))
    BY <1>3, <1>7 DEF Before
  <2>3. \A l \in R \ {r} : Ends(l) => Latency(t.cmd) \in R \ {r}
    BY <1>1, <1>3, <1>6, <1>7 DEF Loop, Flows, Timed
  <2>4. cleared < t.cmd /\ \A i \in DOMAIN nt : IsCleared(nt[i]) => nt[i].value < t.cmd
    BY <1>1, <1>3 DEF Loop, Flows, Cleared
  <2>5. Plus1(p2, pd, t)
    BY DEF t
  <2>6. R \ {r} \in SUBSET Line
    BY <1>1
  <2> QED BY <1>1, <1>2, <1>3, <1>5, <2>1, <2>2, <2>3, <2>4, <2>5, <2>6, FlowsWait
<1>9. Answering(p2, R \ {r}, ct)
  BY <1>1, <1>3, <1>4, <1>6 DEF Loop, Answering
<1>10. Past(page.trades, cleared, nt, p2, R \ {r}, Answered)
  BY <1>1, <1>3, <1>4 DEF Loop, Past
<1>11. BooksOrdered(page.book, nt, R \ {r}, engine_book)
  BY DEF Loop, BooksOrdered
<1>12. OnItsWay(nt, R, engine_book) => OnItsWay(nt, R \ {r}, engine_book)
  <2>1. PlainLine("BOOK", engine_book) # r
    BY DEF PlainLine
  <2> QED BY <2>1 DEF OnItsWay
<1> QED BY <1>1, <1>8, <1>9, <1>10, <1>11, <1>12 DEF Loop

(* LATENCY: what waits is sent with its value.                                *)
LEMMA LoopSend ==
    ASSUME Types, NEW nt, NEW pd, NEW R, NEW ct, NEW D, NEW r \in Line, NEW n2 \in Seq(NetEvent),
           NEW v \in Nat, Loop(nt, pd, R, ct, D), IsNext(r, R), r.kind = "LATENCY",
           v = r.cmd \/ (v = NoCommand /\ r.cmd \in ct), Sends(n2, nt, pd, v)
    PROVE  Loop(n2, <<>>, R, ct, D)
<1>1. nt \in Seq(NetEvent) /\ pd \in Seq(Trade) /\ R \in SUBSET Line /\ <<>> \in Seq(Trade)
  BY DEF Loop
<1>2. page.trades \in Seq(SentTrade)
  BY DEF Types
<1>3. ASSUME NEW i \in DOMAIN n2
      PROVE  \/ (i \in DOMAIN nt /\ n2[i] = nt[i])
             \/ /\ i - Len(nt) \in DOMAIN pd /\ n2[i].value = pd[i - Len(nt)]
                /\ IsTrade(n2[i]) /\ ~IsBook(n2[i])
  <2>1. i \in 1 .. Len(nt) + Len(pd) /\ Len(nt) \in Nat /\ Len(pd) \in Nat
        /\ DOMAIN nt = 1 .. Len(nt) /\ DOMAIN pd = 1 .. Len(pd)
    BY <1>1 DEF Sends
  <2>2. CASE i <= Len(nt)
    BY <2>1, <2>2 DEF Sends
  <2>3. CASE i > Len(nt)
    <3>1. i - Len(nt) \in DOMAIN pd /\ Len(nt) + (i - Len(nt)) = i
      BY <2>1, <2>3
    <3>2. n2[i] = TradeEvent(pd[i - Len(nt)], v)
      BY <3>1 DEF Sends
    <3> QED BY <3>1, <3>2 DEF TradeEvent, IsTrade, IsBook
  <2> QED BY <2>1, <2>2, <2>3
<1>4. Flows(page.trades, cleared, n2, <<>>, R, ct)
  <2>1. ASSUME NEW i \in DOMAIN pd PROVE OwnLatency(TradeEvent(pd[i], v), ct)
    <3>1. Ends(r) /\ Ordered(page.trades, nt, pd, R) /\ Timed(page.trades, nt, pd, R, ct)
      BY DEF Ends, Loop, Flows
    <3>2. /\ pd[i].cmd <= r.cmd
          /\ pd[i].cmd \in ct \/ (r = Latency(pd[i].cmd) /\ r.cmd = pd[i].cmd)
      BY <1>1, <3>1, WaitingAreOwn
    <3> QED BY <3>2 DEF OwnLatency, TradeEvent, NoCommand
  <2> QED BY <1>1, <1>2, <2>1, FlowsSend DEF Loop
<1>5. Answering(<<>>, R, ct)
  BY DEF Loop, Answering
<1>6. Past(page.trades, cleared, n2, <<>>, R, Answered)
  BY <1>3 DEF Loop, Past
<1>7. BooksOrdered(page.book, n2, R, engine_book)
  <2>1. \A i \in DOMAIN n2 : IsBook(n2[i]) => i \in DOMAIN nt /\ n2[i] = nt[i]
    BY <1>3
  <2> QED BY <2>1 DEF Loop, BooksOrdered
<1>8. OnItsWay(nt, R, engine_book) => OnItsWay(n2, R, engine_book)
  <2>1. \A i \in DOMAIN nt : i \in DOMAIN n2 /\ n2[i] = nt[i]
    BY <1>1 DEF Sends
  <2> QED BY <2>1 DEF OnItsWay
<1> QED BY <1>1, <1>4, <1>5, <1>6, <1>7, <1>8 DEF Loop

(* CLEAR_ACK.                                                                 *)
LEMMA LoopClear ==
    ASSUME Types, NEW nt, NEW pd, NEW R, NEW ct, NEW D, NEW r \in Line, NEW n2 \in Seq(NetEvent),
           Loop(nt, pd, R, ct, D), IsNext(r, R), r.kind = "CLEAR_ACK",
           Plus1(n2, nt, Event("cleared", r.cmd))
    PROVE  Loop(n2, pd, R \ {r}, ct, D)
<1> DEFINE e == Event("cleared", r.cmd)
<1>1. nt \in Seq(NetEvent) /\ pd \in Seq(Trade) /\ R \in SUBSET Line /\ r \in R
  BY DEF Loop, IsNext
<1>2. page.trades \in Seq(SentTrade)
  BY DEF Types
<1>3. ~IsTrade(e) /\ ~IsBook(e) /\ e.value = r.cmd
  BY DEF IsTrade, IsBook, Event
<1>4. Plus1(n2, nt, e)
  OBVIOUS
<1> HIDE DEF e
<1>5. \A i \in DOMAIN n2 : (i \in DOMAIN nt /\ n2[i] = nt[i]) \/ n2[i] = e
  BY <1>4 DEF Plus1
<1>6. Loop(nt, pd, R \ {r}, ct, D)
  BY LoopDrop
<1>7. Flows(page.trades, cleared, n2, pd, R \ {r}, ct)
  <2>1. ASSUME NEW l \in R \ {r} PROVE e.value < l.cmd
    <3>1. Before(r, l) /\ l \in Line
      BY <1>1 DEF IsNext
    <3>2. /\ Place(r).cmd = r.cmd /\ Place(l).cmd = l.cmd /\ Place(r).k = LastRank
          /\ LastRank = MaxTrades + 2 /\ MaxTrades \in Nat
      <4>1. Ends(r)
        BY DEF Ends
      <4>2. /\ Place(r).cmd = r.cmd /\ Place(r).k = LastRank
            /\ LastRank = MaxTrades + 2 /\ MaxTrades \in Nat
        BY <4>1, LineTypes
      <4>3. Place(l).cmd = l.cmd
        BY DEF Place
      <4> QED BY <4>2, <4>3
    <3>3. Place(l).k \in Nat /\ Place(l).k <= LastRank /\ l.cmd \in Nat /\ r.cmd \in Nat
      <4>1. Place(l).k = Rank(l) /\ l.kind \in {"BOOK", "LATENCY", "CLEAR_ACK", "TRADE"}
        BY <3>1, LineTypes
      <4>2. l.cmd \in Nat /\ r.cmd \in Nat
        BY <3>1, LineTypes
      <4>3. l.kind = "TRADE" => Rank(l) <= MaxTrades /\ Rank(l) \in Nat
        BY <3>1, LineTypes
      <4> QED BY <3>2, <4>1, <4>2, <4>3 DEF Rank
    <3> QED BY <1>3, <3>1, <3>2, <3>3 DEF Before, Earlier
  <2>2. ASSUME NEW i \in DOMAIN pd PROVE Since(pd[i].cmd, e.value, ct)
    <3>1. Ends(r) /\ Ordered(page.trades, nt, pd, R) /\ Timed(page.trades, nt, pd, R, ct)
      BY DEF Ends, Loop, Flows
    <3>2. pd[i].cmd \in ct \/ r = Latency(pd[i].cmd)
      BY <1>1, <3>1, WaitingAreOwn
    <3> QED BY <3>2 DEF Since, Latency, PlainLine
  <2> QED BY <1>1, <1>2, <1>3, <1>4, <1>6, <2>1, <2>2, FlowsClear DEF Loop
<1>8. Past(page.trades, cleared, n2, pd, R \ {r}, Answered)
  <2>1. r.cmd <= Answered
    BY <1>1 DEF Loop, Past
  <2> QED BY <1>3, <1>5, <1>6, <2>1 DEF Loop, Past
<1>9. BooksOrdered(page.book, n2, R \ {r}, engine_book)
  <2>1. \A i \in DOMAIN n2 : IsBook(n2[i]) => i \in DOMAIN nt /\ n2[i] = nt[i]
    BY <1>3, <1>5
  <2> QED BY <1>6, <2>1 DEF Loop, BooksOrdered
<1>10. OnItsWay(nt, R \ {r}, engine_book) => OnItsWay(n2, R \ {r}, engine_book)
  BY <1>1, <1>4 DEF OnItsWay, Plus1
<1> QED BY <1>1, <1>6, <1>7, <1>8, <1>9, <1>10 DEF Loop

LEMMA ConcatType ==
    ASSUME NEW S, NEW s \in Seq(S), NEW t \in Seq(S)
    PROVE  s \o t \in Seq(S) /\ Len(s \o t) = Len(s) + Len(t) /\ DOMAIN (s \o t) = 1 .. Len(s \o t)
OBVIOUS

LEMMA ElementsType ==
    ASSUME NEW S, NEW n \in Nat, NEW f \in [1 .. n -> S]
    PROVE  f \in Seq(S) /\ Len(f) = n
OBVIOUS

LEMMA EmitOne ==
    ASSUME NEW nt \in Seq(NetEvent), NEW ev \in Seq(NetEvent), NEW e \in NetEvent
    PROVE  /\ nt \o Append(ev, e) \in Seq(NetEvent) /\ Append(ev, e) \in Seq(NetEvent)
           /\ nt \o ev \in Seq(NetEvent)
           /\ Plus1(nt \o Append(ev, e), nt \o ev, e)
<1> HIDE DEF NetEvent
<1>1. /\ Append(ev, e) \in Seq(NetEvent) /\ nt \o ev \in Seq(NetEvent)
      /\ Len(Append(ev, e)) = Len(ev) + 1 /\ Len(nt \o ev) = Len(nt) + Len(ev)
      /\ Len(nt) \in Nat /\ Len(ev) \in Nat
  OBVIOUS
<1>2. nt \o Append(ev, e) \in Seq(NetEvent) /\ Len(nt \o Append(ev, e)) = Len(nt) + Len(ev) + 1
  BY <1>1
<1>3. ASSUME NEW i \in 1 .. Len(nt) + Len(ev)
      PROVE  (nt \o Append(ev, e))[i] = (nt \o ev)[i]
  <2>1. CASE i <= Len(nt)
    BY <1>1, <2>1
  <2>2. CASE i > Len(nt)
    <3>1. i - Len(nt) \in 1 .. Len(ev)
      BY <1>1, <2>2
    <3> QED BY <1>1, <2>2, <3>1
  <2> QED BY <1>1, <2>1, <2>2
<1>4. (nt \o Append(ev, e))[Len(nt) + Len(ev) + 1] = e
  BY <1>1
<1> QED BY <1>1, <1>2, <1>3, <1>4 DEF Plus1

LEMMA EmitTrades ==
    ASSUME NEW nt \in Seq(NetEvent), NEW ev \in Seq(NetEvent), NEW pd \in Seq(Trade), NEW v \in Nat
    PROVE  LET ts == [i \in DOMAIN pd |-> TradeEvent(pd[i], v)]
           IN  /\ nt \o (ev \o ts) \in Seq(NetEvent) /\ ev \o ts \in Seq(NetEvent)
               /\ Sends(nt \o (ev \o ts), nt \o ev, pd, v)
<1> DEFINE ts == [i \in DOMAIN pd |-> TradeEvent(pd[i], v)]
<1>1. /\ ts \in Seq(NetEvent) /\ Len(ts) = Len(pd) /\ Len(pd) \in Nat /\ DOMAIN pd = 1 .. Len(pd)
      /\ \A i \in 1 .. Len(pd) : ts[i] = TradeEvent(pd[i], v)
  <2>1. \A i \in DOMAIN pd : TradeEvent(pd[i], v) \in NetEvent
    <3>1. \A i \in DOMAIN pd : pd[i] \in Trade
      BY LenProperties, ElementOfSeq, Zenon
    <3> QED BY <3>1 DEF TradeEvent, NetEvent, SentTrade
  <2>2. Len(pd) \in Nat /\ DOMAIN pd = 1 .. Len(pd)
    BY LenProperties, Zenon
  <2>3. ts \in [1 .. Len(pd) -> NetEvent]
    <3> HIDE DEF NetEvent
    <3> QED BY <2>1, <2>2, Zenon
  <2>4. \A i \in 1 .. Len(pd) : ts[i] = TradeEvent(pd[i], v)
    BY <2>2, Zenon
  <2> HIDE DEF NetEvent, ts
  <2>5. ts \in Seq(NetEvent) /\ Len(ts) = Len(pd)
    BY <2>2, <2>3, ElementsType, Zenon
  <2> QED BY <2>2, <2>4, <2>5
<1> HIDE DEF ts, NetEvent
<1>2. /\ ev \o ts \in Seq(NetEvent) /\ nt \o ev \in Seq(NetEvent)
      /\ Len(ev \o ts) = Len(ev) + Len(pd) /\ Len(nt \o ev) = Len(nt) + Len(ev)
      /\ Len(nt) \in Nat /\ Len(ev) \in Nat
  <2>1. ts \in Seq(NetEvent) /\ Len(ts) = Len(pd)
    BY <1>1
  <2>2. ev \o ts \in Seq(NetEvent) /\ Len(ev \o ts) = Len(ev) + Len(ts)
    BY <2>1, ConcatProperties, Zenon
  <2>3. nt \o ev \in Seq(NetEvent) /\ Len(nt \o ev) = Len(nt) + Len(ev)
    BY ConcatProperties, Zenon
  <2>4. Len(nt) \in Nat /\ Len(ev) \in Nat
    BY LenProperties, Zenon
  <2> QED BY <2>1, <2>2, <2>3, <2>4
<1>3. /\ nt \o (ev \o ts) \in Seq(NetEvent)
      /\ Len(nt \o (ev \o ts)) = Len(nt) + Len(ev) + Len(pd)
  <2>1. ev \o ts \in Seq(NetEvent) /\ Len(ev \o ts) = Len(ev) + Len(pd) /\ Len(pd) \in Nat
    BY <1>1, <1>2
  <2> DEFINE u == ev \o ts
  <2> HIDE DEF u
  <2>2. u \in Seq(NetEvent) /\ Len(u) = Len(ev) + Len(pd)
    BY <2>1 DEF u
  <2>3. nt \o u \in Seq(NetEvent) /\ Len(nt \o u) = Len(nt) + Len(u)
    BY <2>2, ConcatType
  <2> QED BY <1>2, <2>1, <2>2, <2>3 DEF u
<1>a. /\ \A i \in 1 .. Len(nt) + Len(ev \o ts) :
            (nt \o (ev \o ts))[i] = IF i <= Len(nt) THEN nt[i] ELSE (ev \o ts)[i - Len(nt)]
      /\ \A i \in 1 .. Len(nt) + Len(ev) :
            (nt \o ev)[i] = IF i <= Len(nt) THEN nt[i] ELSE ev[i - Len(nt)]
      /\ \A i \in 1 .. Len(ev) + Len(ts) :
            (ev \o ts)[i] = IF i <= Len(ev) THEN ev[i] ELSE ts[i - Len(ev)]
  <2>1. ts \in Seq(NetEvent) /\ ev \o ts \in Seq(NetEvent)
    BY <1>1, <1>2
  <2> QED BY <2>1, ConcatProperties, Zenon
<1>4. ASSUME NEW i \in 1 .. Len(nt) + Len(ev)
      PROVE  (nt \o (ev \o ts))[i] = (nt \o ev)[i]
  <2>1. i \in 1 .. Len(nt) + Len(ev \o ts)
    BY <1>1, <1>2
  <2>2. CASE i <= Len(nt)
    BY <1>a, <2>1, <2>2, Zenon
  <2>3. CASE ~(i <= Len(nt))
    <3>1. /\ i - Len(nt) \in 1 .. Len(ev) + Len(ts) /\ i - Len(nt) <= Len(ev)
      BY <1>1, <1>2, <2>3
    <3> QED BY <1>a, <2>1, <2>3, <3>1, Zenon
  <2> QED BY <2>2, <2>3
<1>5. ASSUME NEW i \in 1 .. Len(pd)
      PROVE  (nt \o (ev \o ts))[Len(nt) + Len(ev) + i] = TradeEvent(pd[i], v)
  <2> DEFINE k == Len(nt) + Len(ev) + i
  <2>1. /\ k \in 1 .. Len(nt) + Len(ev \o ts) /\ ~(k <= Len(nt))
        /\ k - Len(nt) \in 1 .. Len(ev) + Len(ts) /\ ~(k - Len(nt) <= Len(ev))
        /\ k - Len(nt) - Len(ev) = i
    BY <1>1, <1>2
  <2> HIDE DEF k
  <2>2. (nt \o (ev \o ts))[k] = ts[k - Len(nt) - Len(ev)]
    BY <1>a, <2>1, Zenon
  <2>3. (nt \o (ev \o ts))[k] = TradeEvent(pd[i], v)
    BY <1>1, <2>1, <2>2, Zenon
  <2> QED BY <2>3 DEF k
<1>6. Sends(nt \o (ev \o ts), nt \o ev, pd, v)
  <2>1. /\ DOMAIN (nt \o (ev \o ts)) = 1 .. Len(nt \o (ev \o ts))
        /\ DOMAIN (nt \o ev) = 1 .. Len(nt \o ev)
    BY <1>2, <1>3, LenProperties
  <2>2. DOMAIN (nt \o (ev \o ts)) = 1 .. Len(nt \o ev) + Len(pd)
    BY <1>2, <1>3, <2>1
  <2>3. \A i \in DOMAIN (nt \o ev) : (nt \o (ev \o ts))[i] = (nt \o ev)[i]
    BY <1>2, <1>4, <2>1
  <2>4. \A i \in DOMAIN pd : (nt \o (ev \o ts))[Len(nt \o ev) + i] = TradeEvent(pd[i], v)
    BY <1>1, <1>2, <1>5
  <2> QED BY <2>2, <2>3, <2>4 DEF Sends
<1> QED BY <1>2, <1>3, <1>6 DEF ts

LoopState == [pending : Seq(Trade), events : Seq(NetEvent)]
ReadLine  == [line : Line, fate : {"whole", "damaged", "lost"}]

(* One turn of the loop.                                                      *)
LEMMA LoopTurn ==
    ASSUME Types, NEW s \in LoopState, NEW nt \in Seq(NetEvent), NEW R, NEW ct, NEW D,
           NEW r \in ReadLine, Loop(nt \o s.events, s.pending, R, ct, D), IsNext(r.line, R),
           r.fate = "damaged" => r.line.kind = "LATENCY",
           r.fate # "whole" /\ r.line.kind = "LATENCY" => r.line.cmd \in ct,
           r.fate # "whole" /\ r.line.kind = "BOOK" => r.line.cmd \in D
    PROVE  /\ HandleLine(s, r) \in LoopState
           /\ Loop(nt \o HandleLine(s, r).events, HandleLine(s, r).pending, R \ {r.line}, ct, D)
<1> DEFINE l == r.line
           h == HandleLine(s, r)
<1>1. /\ l \in Line /\ s.pending \in Seq(Trade) /\ s.events \in Seq(NetEvent)
      /\ l.kind \in {"BOOK", "LATENCY", "CLEAR_ACK", "TRADE"} /\ l.cmd \in Nat
  BY LineTypes DEF ReadLine, LoopState
<1>2. CASE r.fate = "lost"
  <2>1. h = s
    BY <1>2 DEF HandleLine
  <2>2. Loop(nt \o s.events, s.pending, R \ {l}, ct, D)
    BY <1>1, <1>2, LoopDrop
  <2> QED BY <2>1, <2>2
<1>3. CASE r.fate # "lost" /\ l.kind = "BOOK"
  <2> DEFINE e == Event("book_update", l.cmd)
  <2>1. h = [s EXCEPT !.events = Append(@, e)]
    BY <1>3 DEF HandleLine
  <2>2. e \in NetEvent
    BY <1>1 DEF Event, NetEvent
  <2>3. /\ nt \o Append(s.events, e) \in Seq(NetEvent) /\ Append(s.events, e) \in Seq(NetEvent)
        /\ Plus1(nt \o Append(s.events, e), nt \o s.events, e)
    BY <1>1, <2>2, EmitOne
  <2>4. h.pending = s.pending /\ h.events = Append(s.events, e) /\ h \in LoopState
    BY <1>1, <2>1, <2>3 DEF LoopState
  <2>5. Loop(nt \o Append(s.events, e), s.pending, R \ {l}, ct, D)
    BY <1>1, <1>3, <2>3, LoopBook
  <2> QED BY <2>4, <2>5
<1>4. CASE r.fate # "lost" /\ l.kind = "TRADE"
  <2> DEFINE t == [cmd |-> l.cmd, k |-> l.k]
  <2>1. h = [s EXCEPT !.pending = Append(@, t)]
    BY <1>4 DEF HandleLine
  <2>2. t \in Trade
    BY <1>1, <1>4, LineTypes
  <2>3. Append(s.pending, t) \in Seq(Trade) /\ Plus1(Append(s.pending, t), s.pending, t)
    <3> HIDE DEF Trade, t
    <3> QED BY <1>1, <2>2 DEF Plus1
  <2>4. h.pending = Append(s.pending, t) /\ h.events = s.events /\ h \in LoopState
    BY <1>1, <2>1, <2>3 DEF LoopState
  <2>5. Loop(nt \o s.events, Append(s.pending, t), R \ {l}, ct, D)
    BY <1>1, <1>4, <2>3, LoopTrade
  <2> QED BY <2>4, <2>5
<1>5. CASE r.fate # "lost" /\ l.kind = "LATENCY"
  <2> DEFINE v  == Value(r)
             e  == Event("latency", v)
             e1 == Append(s.events, e)
             e2 == e1 \o [i \in DOMAIN s.pending |-> TradeEvent(s.pending[i], v)]
  <2>1. h = [pending |-> <<>>, events |-> e2]
    BY <1>5 DEF HandleLine
  <2>2. v \in Nat /\ (v = l.cmd \/ (v = NoCommand /\ l.cmd \in ct))
    BY <1>1, <1>5 DEF Value, NoCommand
  <2>3. e \in NetEvent /\ e.ev = "latency" /\ e.value <= Answered
    <3>1. l.cmd <= Answered
      BY DEF IsNext, Loop, Past
    <3>2. Answered \in Nat
      BY AnsweredType
    <3> HIDE DEF v
    <3> QED BY <2>2, <3>1, <3>2 DEF Event, NetEvent, NoCommand
  <2> HIDE DEF v
  <2>4. /\ nt \o e1 \in Seq(NetEvent) /\ e1 \in Seq(NetEvent)
        /\ Plus1(nt \o e1, nt \o s.events, e)
    BY <1>1, <2>3, EmitOne
  <2> HIDE DEF e, e1
  <2>5. Loop(nt \o e1, s.pending, R, ct, D)
    BY <2>3, <2>4, LoopEvent
  <2>6. nt \o e2 \in Seq(NetEvent) /\ e2 \in Seq(NetEvent) /\ Sends(nt \o e2, nt \o e1, s.pending, v)
    BY <1>1, <2>2, <2>4, EmitTrades
  <2> HIDE DEF e2
  <2>7. Loop(nt \o e2, <<>>, R, ct, D)
    BY <1>1, <1>5, <2>2, <2>5, <2>6, LoopSend
  <2>8. Loop(nt \o e2, <<>>, R \ {l}, ct, D)
    BY <1>1, <1>5, <2>7, LoopDrop
  <2>9. h.pending = <<>> /\ h.events = e2 /\ h \in LoopState
    BY <2>1, <2>6 DEF LoopState, e2, e1, e, v
  <2> QED BY <2>8, <2>9
<1>6. CASE r.fate # "lost" /\ l.kind = "CLEAR_ACK"
  <2> DEFINE e == Event("cleared", l.cmd)
  <2>1. h = [s EXCEPT !.events = Append(@, e)]
    BY <1>6 DEF HandleLine
  <2>2. e \in NetEvent
    BY <1>1 DEF Event, NetEvent
  <2>3. /\ nt \o Append(s.events, e) \in Seq(NetEvent) /\ Append(s.events, e) \in Seq(NetEvent)
        /\ Plus1(nt \o Append(s.events, e), nt \o s.events, e)
    BY <1>1, <2>2, EmitOne
  <2>4. h.pending = s.pending /\ h.events = Append(s.events, e) /\ h \in LoopState
    BY <1>1, <2>1, <2>3 DEF LoopState
  <2>5. Loop(nt \o Append(s.events, e), s.pending, R \ {l}, ct, D)
    BY <1>1, <1>6, <2>3, LoopClear
  <2> QED BY <2>4, <2>5
<1> QED BY <1>1, <1>2, <1>3, <1>4, <1>5, <1>6

(* The numbers in LATENCY lines that one turn recognises.                     *)
Heard(r) == IF r.fate # "lost" /\ r.line.kind = "LATENCY" THEN {r.line.cmd} ELSE {}

(* A later number does not change what was the first one.                     *)
LEMMA PromptLater ==
    ASSUME NEW s, NEW hd \in SUBSET Nat, NEW ct, NEW n \in Nat, Prompt(s, hd, ct),
           \A x \in hd : x < n
    PROVE  Prompt(s, hd \cup {n}, ct)
<1>1. SUFFICES ASSUME NEW i \in DOMAIN s, IsTrade(s[i]) PROVE ShowsFirst(s[i], hd \cup {n}, ct)
  BY DEF Prompt
<1>2. PICK d \in hd :
        /\ d >= s[i].value.cmd /\ \A x \in hd : x < s[i].value.cmd \/ x >= d
        /\ s[i].latency = d \/ (s[i].latency = NoCommand /\ d \in ct)
  BY <1>1 DEF Prompt, ShowsFirst
<1>3. d \in Nat /\ d < n /\ n >= d
  BY <1>2
<1> QED BY <1>2, <1>3 DEF ShowsFirst

(* What comes after the LATENCY line of a command is of a later command.      *)
LEMMA AfterLatency ==
    ASSUME NEW l \in Line, NEW m \in Line, l.kind = "LATENCY", Before(l, m)
    PROVE  l.cmd < m.cmd
<1>1. /\ l.cmd \in Nat /\ m.cmd \in Nat /\ Place(l).cmd = l.cmd /\ Place(m).cmd = m.cmd
  BY LineTypes
<1>2. MaxTrades \in Nat /\ Place(l).k = MaxTrades + 2
  BY BoundsAssumption DEF Place, Rank, LastRank
<1>3. m.kind = "TRADE" => m.k \in 1 .. MaxTrades
  BY DEF Line
<1>4. Place(m).k \in Int /\ Place(m).k <= MaxTrades + 2
  BY <1>2, <1>3 DEF Place, Rank, LastRank
<1> QED BY <1>1, <1>2, <1>4 DEF Before, Earlier

(* One turn of the loop, for the latencies.                                   *)
LEMMA HearsTurn ==
    ASSUME NEW s \in LoopState, NEW nt \in Seq(NetEvent), NEW R \in SUBSET Line, NEW ct, NEW hd,
           NEW r \in ReadLine, Hears(page.trades, nt \o s.events, s.pending, R, hd, ct),
           IsNext(r.line, R), \A i \in DOMAIN s.pending : Earlier(s.pending[i], Place(r.line)),
           r.fate = "damaged" => r.line.cmd \in ct
    PROVE  Hears(page.trades, nt \o HandleLine(s, r).events, HandleLine(s, r).pending,
                 R \ {r.line}, hd \cup Heard(r), ct)
<1> DEFINE l == r.line
           h == HandleLine(s, r)
<1>1. /\ l \in Line /\ s.pending \in Seq(Trade) /\ s.events \in Seq(NetEvent)
      /\ l.kind \in {"BOOK", "LATENCY", "CLEAR_ACK", "TRADE"} /\ l.cmd \in Nat /\ l \in R
  BY LineTypes DEF ReadLine, LoopState, IsNext
<1>2. /\ hd \in SUBSET Nat /\ Prompt(page.trades, hd, ct) /\ Prompt(nt \o s.events, hd, ct)
      /\ \A d \in hd : (\A i \in DOMAIN s.pending : d < s.pending[i].cmd) /\ \A m \in R : d < m.cmd
  BY DEF Hears, Behind
<1>3. CASE r.fate = "lost"
  <2>1. HandleLine(s, r) = s /\ Heard(r) = {}
    BY <1>3 DEF HandleLine, Heard
  <2>2. Hears(page.trades, nt \o s.events, s.pending, R \ {l}, hd, ct) /\ hd \cup Heard(r) = hd
    BY <1>2, <2>1 DEF Hears, Behind
  <2> QED BY <2>1, <2>2
<1>4. ASSUME r.fate # "lost", l.kind \in {"BOOK", "CLEAR_ACK"},
             NEW ev \in {"book_update", "cleared"}, h = [s EXCEPT !.events = Append(@, Event(ev, l.cmd))]
      PROVE  Hears(page.trades, nt \o h.events, h.pending, R \ {l}, hd \cup Heard(r), ct)
  <2> DEFINE e == Event(ev, l.cmd)
  <2>1. e \in NetEvent /\ ~IsTrade(e)
    BY <1>1 DEF Event, NetEvent, IsTrade
  <2>2. Plus1(nt \o Append(s.events, e), nt \o s.events, e)
    BY <1>1, <2>1, EmitOne
  <2>3. h.pending = s.pending /\ h.events = Append(s.events, e) /\ Heard(r) = {}
    BY <1>1, <1>4 DEF LoopState, Heard
  <2>4. nt \o s.events \in Seq(NetEvent)
    BY <1>1, <2>1, EmitOne
  <2> HIDE DEF h, e
  <2>5. Prompt(nt \o Append(s.events, e), hd, ct)
    <3>1. \A u \in Seq(NetEvent) : DOMAIN u = 1 .. Len(u) /\ Len(u) \in Nat
      <4> HIDE DEF NetEvent
      <4> QED OBVIOUS
    <3>2. \A v, u : u \in Seq(NetEvent) /\ Plus1(v, u, e) /\ Prompt(u, hd, ct) => Prompt(v, hd, ct)
      BY <2>1, <3>1 DEF Plus1, Prompt
    <3> QED BY <1>2, <2>2, <2>4, <3>2
  <2>6. Behind(s.pending, R \ {l}, hd)
    BY <1>2 DEF Behind
  <2>7. Hears(page.trades, nt \o Append(s.events, e), s.pending, R \ {l}, hd, ct)
    BY <1>2, <2>5, <2>6 DEF Hears
  <2>8. hd \cup Heard(r) = hd
    BY <2>3
  <2> QED BY <2>3, <2>7, <2>8
<1>5. CASE r.fate # "lost" /\ l.kind = "TRADE"
  <2> DEFINE t == [cmd |-> l.cmd, k |-> l.k]
  <2>1. h = [s EXCEPT !.pending = Append(@, t)] /\ Heard(r) = {}
    BY <1>5 DEF HandleLine, Heard
  <2>2. t \in Trade /\ t.cmd = l.cmd
    BY <1>1, <1>5, LineTypes
  <2>3. h.pending = Append(s.pending, t) /\ h.events = s.events
    BY <1>1, <2>1 DEF LoopState
  <2> HIDE DEF h, t
  <2>4. \A i \in DOMAIN Append(s.pending, t) :
            (i \in DOMAIN s.pending /\ Append(s.pending, t)[i] = s.pending[i]) \/ Append(s.pending, t)[i] = t
    <3> HIDE DEF Trade
    <3> QED BY <1>1, <2>2
  <2>5. \A d \in hd : \A i \in DOMAIN Append(s.pending, t) : d < Append(s.pending, t)[i].cmd
    BY <1>1, <1>2, <2>2, <2>4
  <2>6. Behind(Append(s.pending, t), R \ {l}, hd)
    BY <1>2, <2>5 DEF Behind
  <2>7. Hears(page.trades, nt \o s.events, Append(s.pending, t), R \ {l}, hd, ct)
    BY <1>2, <2>6 DEF Hears
  <2>8. hd \cup Heard(r) = hd
    BY <2>1
  <2> QED BY <2>3, <2>7, <2>8 DEF h
<1>6. CASE r.fate # "lost" /\ l.kind = "LATENCY"
  <2> DEFINE v  == Value(r)
             e  == Event("latency", v)
             e1 == Append(s.events, e)
             e2 == e1 \o [i \in DOMAIN s.pending |-> TradeEvent(s.pending[i], v)]
             h2 == hd \cup {l.cmd}
  <2>1. h.pending = <<>> /\ h.events = e2 /\ Heard(r) = {l.cmd}
    BY <1>6 DEF HandleLine, Heard
  <2>2. v \in Nat /\ (v = l.cmd \/ (v = NoCommand /\ l.cmd \in ct))
    BY <1>1, <1>6 DEF Value, NoCommand, ReadLine
  <2>3. e \in NetEvent /\ ~IsTrade(e)
    <3> HIDE DEF v
    <3> QED BY <2>2 DEF Event, NetEvent, IsTrade
  <2> HIDE DEF v, h
  <2>4. /\ nt \o e1 \in Seq(NetEvent) /\ e1 \in Seq(NetEvent)
        /\ Plus1(nt \o e1, nt \o s.events, e) /\ nt \o s.events \in Seq(NetEvent)
    BY <1>1, <2>3, EmitOne
  <2> HIDE DEF e, e1
  <2>5. Sends(nt \o e2, nt \o e1, s.pending, v)
    BY <1>1, <2>2, <2>4, EmitTrades
  <2>6. /\ h2 \in SUBSET Nat /\ \A x \in hd : x < l.cmd
    BY <1>1, <1>2
  <2>7. /\ Prompt(page.trades, h2, ct) /\ Prompt(nt \o s.events, h2, ct)
    BY <1>1, <1>2, <2>6, PromptLater
  <2>8. ASSUME NEW i \in DOMAIN s.pending PROVE ShowsFirst(TradeEvent(s.pending[i], v), h2, ct)
    <3>1. s.pending[i].cmd \in Nat /\ s.pending[i].cmd <= l.cmd
      <4>1. s.pending[i] \in Trade
        BY <1>1, ElementOfSeq
      <4>2. s.pending[i].cmd \in Nat /\ Place(l).cmd = l.cmd /\ Earlier(s.pending[i], Place(l))
        BY <1>1, <4>1, TradeTypes, LineTypes
      <4> QED BY <1>1, <4>2 DEF Earlier
    <3>2. \A x \in h2 : x < s.pending[i].cmd \/ x >= l.cmd
      BY <1>1, <1>2
    <3>3. /\ TradeEvent(s.pending[i], v).value.cmd = s.pending[i].cmd
          /\ TradeEvent(s.pending[i], v).latency = v
      BY DEF TradeEvent
    <3>4. l.cmd \in h2 /\ l.cmd >= s.pending[i].cmd
      BY <1>1, <3>1
    <3> HIDE DEF h2, l
    <3> QED BY <2>2, <3>2, <3>3, <3>4 DEF ShowsFirst
  <2> HIDE DEF h2, e2
  <2>9. Prompt(nt \o e1, h2, ct)
    <3>1. \A u \in Seq(NetEvent) : DOMAIN u = 1 .. Len(u) /\ Len(u) \in Nat
      <4> HIDE DEF NetEvent
      <4> QED OBVIOUS
    <3>2. \A w, u : u \in Seq(NetEvent) /\ Plus1(w, u, e) /\ Prompt(u, h2, ct) => Prompt(w, h2, ct)
      BY <2>3, <3>1 DEF Plus1, Prompt
    <3> QED BY <2>4, <2>7, <3>2
  <2>10. Prompt(nt \o e2, h2, ct)
    <3>1. DOMAIN (nt \o e1) = 1 .. Len(nt \o e1) /\ Len(nt \o e1) \in Nat
          /\ DOMAIN s.pending = 1 .. Len(s.pending) /\ Len(s.pending) \in Nat
      BY <1>1, <2>4, LenProperties, Zenon
    <3>2. ASSUME NEW i \in 1 .. Len(nt \o e1) + Len(s.pending)
          PROVE  \/ i \in DOMAIN (nt \o e1)
                 \/ \E j \in DOMAIN s.pending : i = Len(nt \o e1) + j
      <4>1. CASE i <= Len(nt \o e1)
        BY <3>1, <4>1
      <4>2. CASE i > Len(nt \o e1)
        <5>1. PICK n \in Nat, m \in Nat : n = Len(nt \o e1) /\ m = Len(s.pending)
          BY <3>1
        <5>2. i \in 1 .. n + m /\ i > n
          BY <4>2, <5>1
        <5>3. i - n \in 1 .. m /\ i = n + (i - n)
          BY <5>2
        <5> QED BY <3>1, <5>1, <5>3
      <4> QED BY <3>1, <4>1, <4>2
    <3>3. /\ DOMAIN (nt \o e2) = 1 .. Len(nt \o e1) + Len(s.pending)
          /\ \A i \in DOMAIN (nt \o e1) : (nt \o e2)[i] = (nt \o e1)[i]
          /\ \A i \in DOMAIN s.pending :
                 (nt \o e2)[Len(nt \o e1) + i] = TradeEvent(s.pending[i], v)
      BY <2>5, Zenon DEF Sends
    <3> SUFFICES ASSUME NEW i \in DOMAIN (nt \o e2), IsTrade((nt \o e2)[i])
                 PROVE  ShowsFirst((nt \o e2)[i], h2, ct)
      BY Zenon DEF Prompt
    <3>4. CASE i \in DOMAIN (nt \o e1)
      <4>1. (nt \o e2)[i] = (nt \o e1)[i]
        BY <3>3, <3>4, Zenon
      <4> QED BY <2>9, <3>4, <4>1, Zenon DEF Prompt
    <3>5. CASE \E j \in DOMAIN s.pending : i = Len(nt \o e1) + j
      BY <2>8, <3>3, <3>5, Zenon
    <3> QED BY <3>2, <3>3, <3>4, <3>5, Zenon
  <2>11. \A m \in R \ {l} : l.cmd < m.cmd
    BY <1>1, <1>6, AfterLatency DEF IsNext
  <2>12. Behind(<<>>, R \ {l}, h2)
    BY <1>2, <2>11 DEF Behind, h2
  <2>13. Hears(page.trades, nt \o e2, <<>>, R \ {l}, h2, ct)
    BY <2>6, <2>7, <2>10, <2>12 DEF Hears
  <2> QED BY <2>1, <2>13 DEF h, h2
<1>7. CASE r.fate # "lost" /\ l.kind = "BOOK"
  BY <1>4, <1>7 DEF HandleLine
<1>8. CASE r.fate # "lost" /\ l.kind = "CLEAR_ACK"
  BY <1>4, <1>8 DEF HandleLine
<1> QED BY <1>1, <1>3, <1>5, <1>6, <1>7, <1>8

(* The loop as a sequence of turns.                                           *)
LEMMA LoopTurns ==
    ASSUME NEW lines, Len(lines) \in Nat
    PROVE  \E after :
            /\ after[0] = [pending |-> pending, events |-> <<>>]
            /\ \A j \in 1 .. Len(lines) : after[j] = HandleLine(after[j - 1], lines[j])
            /\ Handled(lines) = after[Len(lines)]
<1> DEFINE init == [pending |-> pending, events |-> <<>>]
           N == Len(lines)
           Follow(n, a) == a = [j \in 0 .. n |-> IF j = 0 THEN init ELSE HandleLine(a[j - 1], lines[j])]
           S == {n \in Nat : \E a : Follow(n, a)}
<1>1. 0 \in S
  <2> DEFINE a == [j \in 0 .. 0 |-> init]
  <2>1. Follow(0, a)
    <3>1. \A j \in 0 .. 0 : j = 0
      OBVIOUS
    <3> QED BY <3>1
  <2> QED BY <2>1
<1>2. ASSUME NEW n \in Nat, n \in S PROVE n + 1 \in S
  <2>1. PICK a : Follow(n, a)
    BY <1>2
  <2> DEFINE b == [j \in 0 .. n + 1 |-> IF j = n + 1 THEN HandleLine(a[n], lines[n + 1]) ELSE a[j]]
             g == [j \in 0 .. n + 1 |-> IF j = 0 THEN init ELSE HandleLine(b[j - 1], lines[j])]
  <2>2. \A j \in 0 .. n : a[j] = IF j = 0 THEN init ELSE HandleLine(a[j - 1], lines[j])
    <3> HIDE DEF init
    <3> QED BY <2>1
  <2>3. ASSUME NEW j \in 0 .. n + 1 PROVE b[j] = g[j]
    <3> HIDE DEF init
    <3>1. CASE j = n + 1
      <4>1. j - 1 = n /\ j # 0 /\ n \in 0 .. n + 1 /\ n # n + 1
        BY <3>1
      <4> QED BY <3>1, <4>1
    <3>2. CASE j # n + 1 /\ j # 0
      <4>1. j \in 0 .. n /\ j - 1 \in 0 .. n + 1 /\ j - 1 # n + 1
        BY <3>2
      <4> QED BY <2>2, <3>2, <4>1
    <3>3. CASE j = 0
      <4>1. 0 \in 0 .. n /\ 0 # n + 1
        OBVIOUS
      <4> QED BY <2>2, <3>3, <4>1
    <3> QED BY <3>1, <3>2, <3>3
  <2>4. b = g
    <3> HIDE DEF init
    <3>1. b = [j \in 0 .. n + 1 |-> b[j]] /\ g = [j \in 0 .. n + 1 |-> g[j]]
      OBVIOUS
    <3> HIDE DEF b, g
    <3> QED BY <2>3, <3>1
  <2>5. Follow(n + 1, b)
    BY <2>4
  <2> HIDE DEF Follow, b
  <2> QED BY <2>5
<1> HIDE DEF S
<1>3. Nat \subseteq S
  BY <1>1, <1>2, SetInduction
<1> DEFINE after == CHOOSE a : Follow(N, a)
<1>4. Follow(N, after)
  <2>1. \E a : Follow(N, a)
    BY <1>3 DEF S
  <2> HIDE DEF Follow
  <2> QED BY <2>1
<1>5. Handled(lines) = after[N]
  BY DEF Handled
<1> HIDE DEF after
<1>6. /\ after[0] = init
      /\ \A j \in 1 .. N : after[j] = HandleLine(after[j - 1], lines[j])
  <2> HIDE DEF init
  <2>1. \A j \in 0 .. N : after[j] = IF j = 0 THEN init ELSE HandleLine(after[j - 1], lines[j])
    BY <1>4
  <2> QED BY <2>1
<1> QED BY <1>5, <1>6

(* ------------------------------- The chunk ------------------------------- *)

(* Where the j-th line of a chunk begins.                                     *)
At(j) == 2 * j - 2 + stdout[1].half

LEMMA HalfTypes ==
    ASSUME Types, NEW i \in DOMAIN stdout
    PROVE  /\ stdout[i].line \in Line /\ stdout[i].half \in {1, 2}
           /\ i \in Nat /\ i >= 1 /\ i <= Len(stdout)
<1>1. stdout \in Seq(HalfLine)
  BY DEF Types
<1>2. stdout[i] \in HalfLine /\ i \in 1 .. Len(stdout)
  <2> HIDE DEF HalfLine
  <2> QED BY <1>1
<1>3. Len(stdout) \in Nat
  BY <1>1
<1> QED BY <1>2, <1>3 DEF HalfLine

LEMMA Halving ==
    ASSUME Types, Shape, stdout # <<>>, NEW k \in Nat
    PROVE  /\ At(k + 1) = 2 * k + stdout[1].half /\ stdout[1].half \in {1, 2}
           /\ At(k + 1) \in DOMAIN stdout => stdout[At(k + 1)].half = 1
           /\ At(k + 1) + 1 \in DOMAIN stdout => stdout[At(k + 1) + 1].half = 2
<1> DEFINE h == stdout[1].half
           S == {x \in Nat : /\ 2 * x + h \in DOMAIN stdout => stdout[2 * x + h].half = 1
                             /\ 2 * x + h + 1 \in DOMAIN stdout => stdout[2 * x + h + 1].half = 2}
<1>1. stdout \in Seq(HalfLine) /\ Len(stdout) \in Nat /\ DOMAIN stdout = 1 .. Len(stdout)
      /\ 1 \in DOMAIN stdout
  BY DEF Types
<1>2. h \in {1, 2}
  BY <1>1, HalfTypes
<1>3. \A i \in DOMAIN stdout :
        /\ stdout[i].half = 1 => i + 1 \in DOMAIN stdout /\ stdout[i + 1].half = 2
        /\ stdout[i].half = 2 /\ i + 1 \in DOMAIN stdout => stdout[i + 1].half = 1
  BY DEF Shape
<1> HIDE DEF h
<1>4. 0 \in S
  <2>1. /\ h = 1 => stdout[1 + 1].half = 2
        /\ h = 2 /\ 1 + 1 \in DOMAIN stdout => stdout[1 + 1].half = 1
    BY <1>1, <1>3 DEF h
  <2>2. CASE h = 1
    <3>1. stdout[1].half = 1
      BY <2>2 DEF h
    <3>2. 2 * 0 + h = 1 /\ 2 * 0 + h + 1 = 1 + 1
      BY <2>2
    <3> QED BY <2>1, <2>2, <3>1, <3>2
  <2>3. CASE h = 2
    <3>1. 2 * 0 + h = 1 + 1 /\ 2 * 0 + h + 1 = 1 + 1 + 1
      BY <2>3
    <3>2. 1 + 1 + 1 \in DOMAIN stdout => 1 + 1 \in DOMAIN stdout
      BY <1>1
    <3>3. 1 + 1 + 1 \in DOMAIN stdout => stdout[1 + 1 + 1].half = 2
      BY <1>3, <2>1, <2>3, <3>2
    <3> QED BY <2>1, <2>3, <3>1, <3>3
  <2> QED BY <1>2, <2>2, <2>3
<1>5. ASSUME NEW x \in Nat, x \in S PROVE x + 1 \in S
  <2>1. 2 * (x + 1) + h = 2 * x + h + 1 + 1
    BY <1>2
  <2>2. ASSUME 2 * (x + 1) + h \in DOMAIN stdout PROVE stdout[2 * (x + 1) + h].half = 1
    <3>1. 2 * x + h + 1 \in DOMAIN stdout
      BY <1>1, <1>2, <2>1, <2>2
    <3> QED BY <1>3, <1>5, <2>1, <2>2, <3>1
  <2>3. ASSUME 2 * (x + 1) + h + 1 \in DOMAIN stdout PROVE stdout[2 * (x + 1) + h + 1].half = 2
    <3>1. 2 * (x + 1) + h \in DOMAIN stdout
      BY <1>1, <1>2, <2>3
    <3> QED BY <1>3, <2>2, <3>1
  <2> QED BY <2>2, <2>3
<1>6. k \in S
  BY <1>4, <1>5, SetInduction
<1>7. At(k + 1) = 2 * k + h
  BY <1>2 DEF At, h
<1> QED BY <1>2, <1>6, <1>7 DEF h

(* A line is the next of those that begin where it does or later, and when it *)
(* is handled those that begin later are left.                                *)
LEMMA NextLine ==
    ASSUME Types, Shape, stdout # <<>>, NEW k \in Nat, At(k + 1) \in DOMAIN stdout
    PROVE  /\ stdout[At(k + 1)].half = 1
           /\ IsNext(stdout[At(k + 1)].line, LinesFrom(At(k + 1)))
           /\ LinesFrom(At(k + 1)) \ {stdout[At(k + 1)].line} = LinesFrom(At(k + 2))
<1> DEFINE a == At(k + 1)
           l == stdout[a].line
<1>1. a \in Nat /\ At(k + 2) = a + 2
  <2>1. stdout[1].half \in {1, 2}
    BY Halving
  <2> QED BY <2>1 DEF At
<1>2. stdout[a].half = 1 /\ (a + 1 \in DOMAIN stdout => stdout[a + 1].half = 2)
  BY Halving
<1>3. \A x \in DOMAIN stdout : x \in Nat /\ stdout[x].line \in Line
  BY HalfTypes
<1>4. ASSUME NEW x \in DOMAIN stdout, x >= a, stdout[x].half = 1, x # a
      PROVE  Before(l, stdout[x].line) /\ x >= a + 2
  <2>1. x # a + 1
    BY <1>2, <1>4
  <2> QED BY <1>1, <1>2, <1>3, <1>4, <2>1 DEF Shape
<1>5. ASSUME NEW m \in Line, Before(l, m) PROVE m # l
  <2>1. l \in Line
    BY <1>3
  <2>2. Place(l).cmd \in Nat /\ Place(l).k \in Nat
    BY <2>1, LineTypes
  <2> QED BY <1>5, <2>2 DEF Before, Earlier
<1> HIDE DEF a, l
<1>6. IsNext(l, LinesFrom(a))
  <2>1. l \in LinesFrom(a)
    BY <1>1, <1>2 DEF LinesFrom, l, a
  <2>2. ASSUME NEW m \in LinesFrom(a) PROVE m = l \/ Before(l, m)
    <3>1. PICK x \in DOMAIN stdout : x >= a /\ stdout[x].half = 1 /\ m = stdout[x].line
      BY DEF LinesFrom
    <3> QED BY <1>4, <3>1 DEF l
  <2> QED BY <2>1, <2>2 DEF IsNext
<1>7. ASSUME NEW m \in LinesFrom(a), m # l PROVE m \in LinesFrom(a + 2)
  <2>1. PICK x \in DOMAIN stdout : x >= a /\ stdout[x].half = 1 /\ m = stdout[x].line
    BY DEF LinesFrom
  <2>2. x # a
    BY <1>7, <2>1 DEF l
  <2> QED BY <1>4, <2>1, <2>2 DEF LinesFrom
<1>8. ASSUME NEW m \in LinesFrom(a + 2) PROVE m \in LinesFrom(a) /\ m # l
  <2>1. PICK x \in DOMAIN stdout : x >= a + 2 /\ stdout[x].half = 1 /\ m = stdout[x].line
    BY DEF LinesFrom
  <2>2. x >= a /\ x # a
    BY <1>1, <1>3, <2>1
  <2>3. m \in Line /\ Before(l, m)
    BY <1>3, <1>4, <2>1, <2>2
  <2> QED BY <1>5, <2>1, <2>2, <2>3 DEF LinesFrom
<1>9. LinesFrom(a) \ {l} = LinesFrom(a + 2)
  BY <1>7, <1>8
<1> QED BY <1>1, <1>2, <1>6, <1>9 DEF a, l

(* Where a chunk of n halves begins and ends.                                 *)
ChunkOf(n, fate) ==
    /\ n \in 1 .. Len(stdout)
    /\ fate \in {"whole", "damaged", "lost"}
    /\ fate # "whole" => stdout[n].half = 1
    /\ fate = "damaged" => stdout[n].line.kind = "LATENCY"

LEMMA ChunkLines ==
    ASSUME Types, Shape, NEW n, NEW fate, ChunkOf(n, fate)
    PROVE  LET lines == LinesOf(n, fate)
           IN  /\ lines \in Seq(ReadLine) /\ Len(lines) \in Nat /\ DOMAIN lines = 1 .. Len(lines)
               /\ \A j \in 1 .. Len(lines) :
                    /\ At(j) \in DOMAIN stdout /\ lines[j].line = stdout[At(j)].line
                    /\ lines[j].fate = "damaged" => lines[j].line.kind = "LATENCY"
               /\ Unread = LinesFrom(At(1)) /\ LinesFrom(At(Len(lines) + 1)) = LinesFrom(n + 1)
<1> DEFINE h == stdout[1].half
           N == (n - h) \div 2 + 1
           lines == LinesOf(n, fate)
<1>1. stdout \in Seq(HalfLine) /\ Len(stdout) \in Nat /\ DOMAIN stdout = 1 .. Len(stdout)
      /\ stdout # <<>> /\ n \in Nat /\ n >= 1 /\ n <= Len(stdout) /\ 1 \in DOMAIN stdout
  BY DEF Types, ChunkOf
<1>2. h \in {1, 2} /\ \A k \in Nat : At(k) = 2 * k - 2 + h
  <2>1. h \in {1, 2}
    BY <1>1, HalfTypes
  <2> QED BY <2>1 DEF At
<1> HIDE DEF h
<1>3. /\ N \in Nat /\ 2 * N - 2 + h <= n /\ n < 2 * (N + 1) - 2 + h
  <2> DEFINE d == (n - h) \div 2
  <2>1. n \in Nat /\ n >= 1 /\ h \in {1, 2}
    BY <1>1, <1>2
  <2>2. d \in Int /\ 2 * d <= n - h /\ n - h < 2 * d + 2
    BY <2>1
  <2>3. N = d + 1
    OBVIOUS
  <2> HIDE DEF d, N
  <2> QED BY <2>1, <2>2, <2>3
<1> HIDE DEF N
<1>4. lines = [j \in 1 .. N |-> [line |-> stdout[At(j)].line,
                                 fate |-> IF At(j) = n THEN fate ELSE "whole"]]
  BY DEF LinesOf, At, N, h
<1>5. ASSUME NEW j \in 1 .. N PROVE At(j) \in DOMAIN stdout
  <2>1. 2 * j - 2 + h >= 1 /\ 2 * j - 2 + h <= 2 * N - 2 + h
    BY <1>2, <1>3
  <2>2. At(j) = 2 * j - 2 + h
    BY <1>2
  <2>3. n \in Nat /\ n <= Len(stdout) /\ Len(stdout) \in Nat /\ DOMAIN stdout = 1 .. Len(stdout)
    BY <1>1
  <2> QED BY <1>2, <1>3, <2>1, <2>2, <2>3
<1> HIDE DEF lines
<1>6. \A j \in 1 .. N : lines[j] \in ReadLine
  <2>1. \A j \in 1 .. N : stdout[At(j)].line \in Line
    BY <1>5, HalfTypes
  <2>2. fate \in {"whole", "damaged", "lost"}
    BY DEF ChunkOf
  <2> QED BY <1>4, <2>1, <2>2 DEF ReadLine
<1>7. lines \in Seq(ReadLine) /\ Len(lines) = N /\ DOMAIN lines = 1 .. N
  <2>1. DOMAIN lines = 1 .. N
    BY <1>4
  <2> HIDE DEF ReadLine
  <2>2. lines \in [1 .. N -> ReadLine]
    BY <1>4, <1>6
  <2> QED BY <1>3, <2>1, <2>2
<1>8. \A j \in 1 .. N :
        /\ lines[j].line = stdout[At(j)].line
        /\ lines[j].fate = "damaged" => lines[j].line.kind = "LATENCY"
  BY <1>4 DEF ChunkOf
<1>9. Unread = LinesFrom(At(1))
  <2>1. CASE h = 1
    BY <1>2, <2>1 DEF Unread
  <2>2. CASE h = 2
    <3>1. \A x \in DOMAIN stdout : x >= 1 /\ stdout[x].half = 1 => x >= 2
      BY <1>1, <2>2 DEF h
    <3>2. \A x \in DOMAIN stdout : x >= 2 => x >= 1
      BY <1>1
    <3>3. At(1) = 2
      BY <1>2, <2>2
    <3> QED BY <3>1, <3>2, <3>3 DEF Unread, LinesFrom
  <2> QED BY <1>2, <2>1, <2>2
<1>10. LinesFrom(At(N + 1)) = LinesFrom(n + 1)
  <2>1. At(N + 1) = 2 * N + h
    BY <1>2, <1>3
  <2>2. CASE n + 1 = At(N + 1)
    BY <2>2
  <2>3. CASE n + 1 # At(N + 1)
    <3>1. n + 2 = At(N + 1)
      <4>1. n \in Nat
        BY <1>1
      <4> QED BY <1>2, <1>3, <2>1, <2>3, <4>1
    <3>2. N >= 1 /\ N - 1 \in Nat /\ (N - 1) + 1 = N
      BY <1>1, <1>2, <1>3, <2>1, <3>1
    <3>3. At(N) = n
      <4>1. n \in Nat /\ At(N) = 2 * N - 2 + h
        BY <1>1, <1>2, <1>3
      <4> QED BY <1>2, <1>3, <2>1, <3>1, <4>1
    <3>4. n + 1 \in DOMAIN stdout => stdout[n + 1].half = 2
      <4>1. At((N - 1) + 1) + 1 \in DOMAIN stdout => stdout[At((N - 1) + 1) + 1].half = 2
        BY <1>1, <3>2, Halving
      <4> QED BY <3>2, <3>3, <4>1
    <3>5. \A x \in DOMAIN stdout : x >= n + 1 /\ stdout[x].half = 1 => x >= n + 2
      BY <1>1, <3>4
    <3>6. \A x \in DOMAIN stdout : x >= n + 2 => x >= n + 1
      BY <1>1
    <3> QED BY <3>1, <3>5, <3>6 DEF LinesFrom
  <2> QED BY <2>2, <2>3
<1> QED BY <1>3, <1>5, <1>7, <1>8, <1>9, <1>10 DEF lines

LEMMA DamagedLines ==
    ASSUME NEW lines, NEW j \in DOMAIN lines, lines[j].fate # "whole"
    PROVE  lines[j].line.cmd \in Damaged(lines, lines[j].line.kind)
BY DEF Damaged

(* Before the loop.                                                           *)
LEMMA LoopBegins ==
    ASSUME IInv, NEW ct, cut \subseteq ct, NEW D
    PROVE  Loop(net \o <<>>, pending, Unread, ct, D)
<1>1. net \in Seq(NetEvent) /\ pending \in Seq(Trade) /\ page.trades \in Seq(SentTrade)
  BY DEF IInv, Types
<1>2. net \o <<>> = net
  <2> HIDE DEF NetEvent
  <2> QED BY <1>1, ConcatEmptySeq
<1>3. Unread \in SUBSET Line
  <2>1. \A i \in DOMAIN stdout : stdout[i].line \in Line
    BY HalfTypes DEF IInv
  <2> QED BY <2>1 DEF Unread, LinesFrom
<1>4. Flows(page.trades, cleared, net, pending, Unread, ct)
  <2>1. Begins(net, net)
    BY DEF Begins
  <2> QED BY <1>1, <1>3, <2>1, FlowsLess DEF IInv
<1>5. Answering(pending, Unread, ct)
  BY DEF IInv, Answering
<1> QED BY <1>1, <1>2, <1>3, <1>4, <1>5 DEF IInv, Loop, LastBook

LEMMA HearsMoreCut ==
    ASSUME NEW pt, NEW nt, NEW pd, NEW R, NEW hd, NEW ct, NEW ct2, ct \subseteq ct2,
           Hears(pt, nt, pd, R, hd, ct)
    PROVE  Hears(pt, nt, pd, R, hd, ct2)
<1>1. \A e : ShowsFirst(e, hd, ct) => ShowsFirst(e, hd, ct2)
  BY DEF ShowsFirst
<1> QED BY <1>1 DEF Hears, Prompt

(* What the first j lines of a chunk let be heard.                            *)
RecognisedTo(lines, j) ==
    {lines[k].line.cmd :
        k \in {i \in 1 .. j : lines[i].fate # "lost" /\ lines[i].line.kind = "LATENCY"}}

LEMMA RecognisedNext ==
    ASSUME NEW lines, NEW j \in Nat
    PROVE  RecognisedTo(lines, j + 1) = RecognisedTo(lines, j) \cup Heard(lines[j + 1])
<1>1. \A k : k \in 1 .. j + 1 <=> k \in 1 .. j \/ k = j + 1
  OBVIOUS
<1> QED BY <1>1 DEF RecognisedTo, Heard

(* After it.                                                                  *)
LEMMA ChunkHandled ==
    ASSUME IInv, NEW n, NEW fate, ChunkOf(n, fate)
    PROVE  LET lines == LinesOf(n, fate)
           IN  /\ Handled(lines) \in LoopState
               /\ Loop(net \o Handled(lines).events, Handled(lines).pending, LinesFrom(n + 1),
                       cut \cup Damaged(lines, "LATENCY"), Damaged(lines, "BOOK"))
               /\ Hears(page.trades, net \o Handled(lines).events, Handled(lines).pending,
                        LinesFrom(n + 1), heard \cup Recognised(lines),
                        cut \cup Damaged(lines, "LATENCY"))
<1> DEFINE lines == LinesOf(n, fate)
           ct == cut \cup Damaged(lines, "LATENCY")
           hd(j) == heard \cup RecognisedTo(lines, j)
           D == Damaged(lines, "BOOK")
<1>1. /\ lines \in Seq(ReadLine) /\ Len(lines) \in Nat /\ DOMAIN lines = 1 .. Len(lines)
      /\ \A j \in 1 .. Len(lines) :
            /\ At(j) \in DOMAIN stdout /\ lines[j].line = stdout[At(j)].line
            /\ lines[j].fate = "damaged" => lines[j].line.kind = "LATENCY"
      /\ Unread = LinesFrom(At(1)) /\ LinesFrom(At(Len(lines) + 1)) = LinesFrom(n + 1)
  BY ChunkLines DEF IInv
<1>2. Types /\ Shape /\ net \in Seq(NetEvent) /\ pending \in Seq(Trade)
  BY DEF IInv, Types
<1> HIDE DEF lines
<1>3. PICK after :
        /\ after[0] = [pending |-> pending, events |-> <<>>]
        /\ \A j \in 1 .. Len(lines) : after[j] = HandleLine(after[j - 1], lines[j])
        /\ Handled(lines) = after[Len(lines)]
  BY <1>1, LoopTurns
<1> DEFINE P(j) == /\ after[j] \in LoopState
                   /\ Loop(net \o after[j].events, after[j].pending, LinesFrom(At(j + 1)), ct, D)
                   /\ Hears(page.trades, net \o after[j].events, after[j].pending,
                            LinesFrom(At(j + 1)), hd(j), ct)
           S == {j \in Nat : j <= Len(lines) => P(j)}
<1>4. 0 \in S
  <2>1. after[0].events = <<>> /\ after[0].pending = pending /\ after[0] \in LoopState
    BY <1>2, <1>3 DEF LoopState
  <2>2. cut \subseteq ct
    OBVIOUS
  <2>3. hd(0) = heard
    BY DEF RecognisedTo
  <2> HIDE DEF ct, D, hd
  <2>4. Loop(net \o <<>>, pending, Unread, ct, D)
    BY <2>2, LoopBegins
  <2>5. LinesFrom(At(0 + 1)) = Unread
    BY <1>1
  <2>6. net \o <<>> = net
    <3> HIDE DEF NetEvent
    <3> QED BY <1>2, ConcatEmptySeq
  <2>7. Hears(page.trades, net, pending, Unread, heard, ct)
    BY <2>2, HearsMoreCut DEF IInv, HeardInTime
  <2> QED BY <2>1, <2>3, <2>4, <2>5, <2>6, <2>7
<1>5. ASSUME NEW j \in Nat, j \in S PROVE j + 1 \in S
  <2>1. SUFFICES ASSUME j + 1 <= Len(lines) PROVE P(j + 1)
    OBVIOUS
  <2>2. P(j) /\ j + 1 \in 1 .. Len(lines) /\ (j + 1) - 1 = j
    BY <1>1, <1>5, <2>1
  <2> DEFINE s == after[j]
             r == lines[j + 1]
             R == LinesFrom(At(j + 1))
  <2>3. after[j + 1] = HandleLine(s, r)
    BY <1>3, <2>2
  <2>4. r \in ReadLine /\ r.line = stdout[At(j + 1)].line /\ At(j + 1) \in DOMAIN stdout
    <3> HIDE DEF ReadLine
    <3> QED BY <1>1, <2>2
  <2>5. IsNext(r.line, R) /\ R \ {r.line} = LinesFrom(At(j + 2))
    <3>1. stdout # <<>>
      BY <2>4
    <3> QED BY <1>2, <2>4, <3>1, NextLine
  <2>6. /\ r.fate = "damaged" => r.line.kind = "LATENCY"
        /\ r.fate # "whole" /\ r.line.kind = "LATENCY" => r.line.cmd \in ct
        /\ r.fate # "whole" /\ r.line.kind = "BOOK" => r.line.cmd \in D
    <3>1. r.fate # "whole" => r.line.cmd \in Damaged(lines, r.line.kind)
      BY <1>1, <2>2, DamagedLines
    <3> QED BY <1>1, <2>2, <3>1
  <2>7. /\ s \in LoopState /\ Loop(net \o s.events, s.pending, R, ct, D)
        /\ Hears(page.trades, net \o s.events, s.pending, R, hd(j), ct)
    BY <2>2
  <2>8. hd(j + 1) = hd(j) \cup Heard(r)
    BY RecognisedNext
  <2> HIDE DEF s, r, R, ct, D, P, hd
  <2>9. /\ HandleLine(s, r) \in LoopState
        /\ Loop(net \o HandleLine(s, r).events, HandleLine(s, r).pending, R \ {r.line}, ct, D)
    BY <1>2, <2>4, <2>5, <2>6, <2>7, LoopTurn
  <2>10. Hears(page.trades, net \o HandleLine(s, r).events, HandleLine(s, r).pending,
               R \ {r.line}, hd(j + 1), ct)
    <3>1. \A i \in DOMAIN s.pending : Earlier(s.pending[i], Place(r.line))
      BY <2>5, <2>7 DEF Loop, Flows, Ordered, IsNext
    <3>2. R \in SUBSET Line
      BY <2>7 DEF Loop
    <3>3. r.fate = "damaged" => r.line.cmd \in ct
      BY <2>6
    <3>4. Hears(page.trades, net \o HandleLine(s, r).events, HandleLine(s, r).pending,
                R \ {r.line}, hd(j) \cup Heard(r), ct)
      BY ONLY <1>2, <2>4, <2>5, <2>7, <3>1, <3>2, <3>3, HearsTurn
    <3> QED BY <2>8, <3>4
  <2>11. (j + 1) + 1 = j + 2
    OBVIOUS
  <2> QED BY <2>3, <2>5, <2>9, <2>10, <2>11 DEF P
<1> HIDE DEF S
<1>6. Nat \subseteq S
  BY <1>4, <1>5, SetInduction
<1>7. P(Len(lines))
  <2>1. Len(lines) \in S /\ Len(lines) <= Len(lines)
    BY <1>1, <1>6
  <2> HIDE DEF P
  <2> QED BY <2>1 DEF S
<1>8. hd(Len(lines)) = heard \cup Recognised(lines)
  BY <1>1 DEF RecognisedTo, Recognised
<1> HIDE DEF ct, D, hd
<1>9. /\ Handled(lines) \in LoopState
      /\ Loop(net \o Handled(lines).events, Handled(lines).pending, LinesFrom(n + 1), ct, D)
      /\ Hears(page.trades, net \o Handled(lines).events, Handled(lines).pending,
               LinesFrom(n + 1), heard \cup Recognised(lines), ct)
  BY <1>1, <1>3, <1>7, <1>8
<1> QED BY <1>9 DEF lines, ct, D

(* ------------------------------- The steps ------------------------------- *)

LEMMA InitIInv == Init => IInv
<1>1. SUFFICES ASSUME Init PROVE IInv
  OBVIOUS
<1>2. /\ stdin = <<>> /\ stdout = <<>> /\ pending = <<>> /\ net = <<>> /\ page.trades = <<>>
      /\ page.book = 0 /\ cleared = 0 /\ engine_book = 0 /\ missed = 0 /\ commands = 0 /\ cut = {}
      /\ heard = {}
      /\ engine = "running" /\ bridge = TRUE /\ connected = FALSE
      /\ page = [book |-> 0, trades |-> <<>>, latency |-> 0]
  BY <1>1 DEF Init, EmptyPage, NoCommand
<1>3. Unread = {} /\ Answered = 0
  BY <1>2 DEF Unread, LinesFrom, Answered
<1>4. Types
  <2>1. \A S : <<>> \in Seq(S)
    OBVIOUS
  <2>2. page \in [book : Nat, trades : Seq(SentTrade), latency : Nat]
    <3>1. <<>> \in Seq(SentTrade)
      BY <2>1
    <3> HIDE DEF SentTrade
    <3> QED BY <1>2, <3>1
  <2> QED BY <1>2, <2>1, <2>2 DEF Types
<1>5. Shape /\ Queue /\ Apart /\ LastBook
  BY <1>2, <1>3 DEF Shape, Queue, Apart, LastBook, NoCommand
<1>6. Flows(page.trades, cleared, net, pending, Unread, cut)
  BY <1>2, <1>3 DEF Flows, Ordered, Timed, Cleared
<1>7. Answering(pending, Unread, cut)
  BY <1>2, <1>3 DEF Answering
<1>8. /\ Past(page.trades, cleared, net, pending, Unread, Answered)
      /\ BooksOrdered(page.book, net, Unread, engine_book)
  BY <1>2, <1>3 DEF Past, BooksOrdered
<1>9. HeardInTime
  BY <1>2, <1>3 DEF HeardInTime, Hears, Behind, Prompt
<1> QED BY <1>4, <1>5, <1>6, <1>7, <1>8, <1>9 DEF IInv

(* Nothing is recognised, printed or sent: what was sent earlier may move,    *)
(* and what waits or is unread may be lost.                                   *)
AlreadySent(s) == \A i \in DOMAIN s : \/ \E j \in DOMAIN page.trades : s[i] = page.trades[j]
                                  \/ \E j \in DOMAIN net : s[i] = net[j]
LEMMA HeardKept ==
    ASSUME HeardInTime, heard' = heard, cut' = cut, pending' = pending \/ pending' = <<>>,
           Unread' \subseteq Unread, Answered \in Nat, Answered' \in Nat, Answered <= Answered',
           AlreadySent(page'.trades), AlreadySent(net')
    PROVE  HeardInTime'
<1>1. /\ heard \in SUBSET Nat /\ Prompt(page.trades, heard, cut) /\ Prompt(net, heard, cut)
      /\ \A d \in heard : /\ d <= Answered /\ \A i \in DOMAIN pending : d < pending[i].cmd
                          /\ \A l \in Unread : d < l.cmd
  BY DEF HeardInTime, Hears, Behind
<1>2. Prompt(page'.trades, heard, cut) /\ Prompt(net', heard, cut)
  BY <1>1 DEF Prompt, AlreadySent
<1>3. Behind(pending', Unread', heard)
  BY <1>1 DEF Behind
<1>4. Hears(page.trades, net, pending, Unread, heard, cut)'
  BY <1>1, <1>2, <1>3 DEF Hears
<1>5. \A d \in heard : d <= Answered'
  BY <1>1
<1> QED BY <1>4, <1>5 DEF HeardInTime

(* The types of the parts, and of what is unread.                             *)
LEMMA PartTypes ==
    ASSUME Types
    PROVE  /\ net \in Seq(NetEvent) /\ pending \in Seq(Trade) /\ page.trades \in Seq(SentTrade)
           /\ Unread \in SUBSET Line /\ Answered \in Nat /\ engine_book \in Nat /\ missed \in Nat
           /\ page.book \in Nat /\ cleared \in Nat
<1>1. \A i \in DOMAIN stdout : stdout[i].line \in Line
  BY HalfTypes
<1>2. Unread \in SUBSET Line
  BY <1>1 DEF Unread, LinesFrom
<1> QED BY <1>2, AnsweredType DEF Types

(* Steps that change nothing but the process.                                 *)
LEMMA StutterStep ==
    ASSUME IInv, engine' \in {engine, "noticed", "closed"},
           UNCHANGED <<bridge, stdin, commands, engine_book, stdout, pending, net,
                       connected, page, cleared, cut, heard, missed>>
    PROVE  IInv'
<1>1. Unread' = Unread /\ Answered' = Answered
  BY DEF Unread, LinesFrom, Answered
<1>2. Types' /\ Shape' /\ Queue' /\ Apart'
  BY DEF IInv, Types, Shape, Queue, Apart
<1>3. LastBook'
  BY <1>1 DEF IInv, LastBook
<1>4. Flows(page.trades, cleared, net, pending, Unread, cut)'
  BY <1>1 DEF IInv
<1>5. Answering(pending, Unread, cut)'
  BY <1>1 DEF IInv, Answering
<1>6. Past(page.trades, cleared, net, pending, Unread, Answered)'
  BY <1>1 DEF IInv
<1>7. BooksOrdered(page.book, net, Unread, engine_book)'
  BY <1>1 DEF IInv
<1>8. HeardInTime'
  BY <1>1 DEF IInv, HeardInTime
<1> QED BY <1>2, <1>3, <1>4, <1>5, <1>6, <1>7, <1>8 DEF IInv

(* What Missing computes: the last book missed, if none is later than eb.     *)
LEMMA GreatestIs ==
    ASSUME NEW m \in Nat, NEW B, NEW eb \in Nat, m <= eb, \A b \in B : b \in Nat /\ b <= eb
    PROVE  /\ Max({m} \cup B) \in Nat /\ Max({m} \cup B) <= eb
           /\ eb \in {m} \cup B => Max({m} \cup B) = eb
<1> DEFINE S == {m} \cup B
           N == {n \in Nat : \A y \in S : y <= n => \E x \in S : x <= n /\ \A z \in S : z <= n => x >= z}
<1>1. \A x \in S : x \in Nat /\ x <= eb
  OBVIOUS
<1> HIDE DEF S
<1>2. 0 \in N
  BY <1>1
<1>3. ASSUME NEW n \in Nat, n \in N PROVE n + 1 \in N
  <2>1. CASE n + 1 \in S
    BY <1>1, <2>1
  <2>2. CASE n + 1 \notin S
    <3>1. \A y \in S : y <= n + 1 => y <= n
      BY <1>1, <2>2
    <3>2. \A y \in S : y <= n => y <= n + 1
      BY <1>1
    <3> QED BY <1>3, <3>1, <3>2
  <2> QED BY <2>1, <2>2
<1>4. eb \in N
  <2> HIDE DEF N
  <2> QED BY <1>2, <1>3, SetInduction
<1>5. \E x \in S : \A z \in S : x >= z
  <2>1. m \in S
    BY DEF S
  <2> QED BY <1>1, <1>4, <2>1
<1>6. Max(S) \in S /\ \A z \in S : Max(S) >= z
  BY <1>5 DEF Max
<1>7. Max(S) \in Nat /\ Max(S) <= eb
  BY <1>1, <1>6
<1>8. eb \in S => Max(S) = eb
  BY <1>6, <1>7
<1> QED BY <1>7, <1>8 DEF S

(* A command is written.                                                      *)
LEMMA SubmitStep ==
    ASSUME IInv, NEW kind \in {"order", "clear"}, Submit(kind)
    PROVE  IInv'
<1> DEFINE Request == [kind : {"order", "clear"}, cmd : Cmd]
           new == [kind |-> kind, cmd |-> commands + 1]
<1>1. /\ stdin \in Seq(Request) /\ commands \in Nat /\ Answered \in Nat
      /\ \A i \in DOMAIN stdin : stdin[i].cmd \in Nat /\ stdin[i].cmd <= commands
  <2>1. stdin \in Seq(Request)
    BY DEF IInv, Types
  <2>2. \A i \in DOMAIN stdin : stdin[i] \in Request
    <3> HIDE DEF Request
    <3> QED BY <2>1
  <2> QED BY <2>1, <2>2, AnsweredType DEF IInv, Types, Queue, Cmd
<1>2. /\ stdin' = Append(stdin, new) /\ commands' = commands + 1
      /\ engine' = engine /\ bridge' = bridge /\ engine_book' = engine_book /\ stdout' = stdout
      /\ pending' = pending /\ net' = net /\ connected' = connected /\ page' = page
      /\ cleared' = cleared /\ cut' = cut /\ heard' = heard /\ missed' = missed
  BY DEF Submit, procs
<1>3. new \in Request /\ new.cmd = commands + 1
  BY <1>1 DEF Cmd
<1> HIDE DEF Request, new
<1>4. /\ stdin' \in Seq(Request) /\ Len(stdin') = Len(stdin) + 1 /\ Len(stdin) \in Nat
      /\ DOMAIN stdin = 1 .. Len(stdin) /\ DOMAIN stdin' = 1 .. Len(stdin) + 1
      /\ \A i \in DOMAIN stdin : stdin'[i] = stdin[i]
      /\ stdin'[Len(stdin) + 1] = new
  BY <1>1, <1>2, <1>3
<1>5. Queue'
  <2>1. \A i \in DOMAIN stdin' : (i \in DOMAIN stdin /\ stdin'[i] = stdin[i])
                                 \/ (i = Len(stdin) + 1 /\ stdin'[i] = new)
    BY <1>4
  <2>2. \A i, j \in DOMAIN stdin' : i < j => i \in DOMAIN stdin
    BY <1>4
  <2>3. \A i \in DOMAIN stdin' : stdin'[i].cmd <= commands'
    BY <1>1, <1>2, <1>3, <2>1
  <2>4. ASSUME NEW i \in DOMAIN stdin', NEW j \in DOMAIN stdin', i < j
        PROVE  stdin'[i].cmd < stdin'[j].cmd
    <3>1. i \in DOMAIN stdin /\ stdin'[i] = stdin[i]
      BY <1>4, <2>2, <2>4
    <3>2. CASE j \in DOMAIN stdin
      BY <1>4, <2>4, <3>1, <3>2 DEF IInv, Queue
    <3>3. CASE stdin'[j] = new
      BY <1>1, <1>3, <3>1, <3>3
    <3> QED BY <2>1, <3>2, <3>3
  <2> QED BY <2>3, <2>4 DEF Queue
<1>6. Answered' = Answered
  <2>1. stdin' # <<>>
    BY <1>4
  <2>2. CASE stdin = <<>>
    <3>1. stdin'[1] = new
      BY <1>4, <2>2
    <3> QED BY <1>1, <1>3, <2>1, <2>2, <3>1 DEF Answered
  <2>3. CASE stdin # <<>>
    <3>1. stdin'[1] = stdin[1]
      BY <1>1, <1>4, <2>3
    <3> QED BY <2>1, <2>3, <3>1 DEF Answered
  <2> QED BY <2>2, <2>3
<1>7. Unread' = Unread
  BY <1>2 DEF Unread, LinesFrom
<1>8. Types'
  BY <1>1, <1>2, <1>4 DEF IInv, Types, Request
<1>9. Shape' /\ Apart'
  BY <1>2 DEF IInv, Shape, Apart
<1>10. LastBook'
  BY <1>2, <1>6, <1>7 DEF IInv, LastBook
<1>11. Flows(page.trades, cleared, net, pending, Unread, cut)'
  BY <1>2, <1>7 DEF IInv
<1>12. Answering(pending, Unread, cut)'
  BY <1>2, <1>7 DEF IInv, Answering
<1>13. Past(page.trades, cleared, net, pending, Unread, Answered)'
  BY <1>2, <1>6, <1>7 DEF IInv
<1>14. BooksOrdered(page.book, net, Unread, engine_book)'
  BY <1>2, <1>7 DEF IInv
<1>15. HeardInTime'
  BY <1>2, <1>6, <1>7 DEF IInv, HeardInTime
<1> QED BY <1>5, <1>8, <1>9, <1>10, <1>11, <1>12, <1>13, <1>14, <1>15 DEF IInv

(* What is past stays past.                                                   *)
LEMMA PastLater ==
    ASSUME NEW pt \in Seq(SentTrade), NEW cl \in Nat, NEW nt \in Seq(NetEvent),
           NEW n2 \in Seq(NetEvent), NEW pd \in Seq(Trade), NEW p2, NEW R \in SUBSET Line, NEW R2,
           NEW c \in Nat, NEW d \in Nat, Past(pt, cl, nt, pd, R, c), c <= d,
           Begins(n2, nt), p2 = pd \/ p2 = <<>>, R2 = R \/ R2 = {}
    PROVE  Past(pt, cl, n2, p2, R2, d)
<1>1. \A i \in DOMAIN pt : pt[i].value.cmd <= d
  <2>1. \A i \in DOMAIN pt : pt[i].value.cmd \in Nat
    <3>1. \A i \in DOMAIN pt : pt[i] \in SentTrade
      BY ElementOfSeq
    <3> QED BY <3>1, SentTypes, TradeTypes
  <2> QED BY <2>1 DEF Past
<1>2. ASSUME NEW i \in DOMAIN n2
      PROVE  IF IsTrade(n2[i]) THEN n2[i].value.cmd <= d ELSE n2[i].value <= d
  <2>1. i \in DOMAIN nt /\ n2[i] = nt[i] /\ nt[i] \in NetEvent
    BY ElementOfSeq DEF Begins
  <2>2. /\ IsTrade(nt[i]) => nt[i].value.cmd \in Nat
        /\ ~IsTrade(nt[i]) => nt[i].value \in Nat
    BY <2>1, EventTypes, TradeTypes
  <2>3. IF IsTrade(nt[i]) THEN nt[i].value.cmd <= c ELSE nt[i].value <= c
    BY <2>1 DEF Past
  <2>4. CASE IsTrade(nt[i])
    <3>1. nt[i].value.cmd \in Nat /\ nt[i].value.cmd <= c
      BY <2>2, <2>3, <2>4
    <3>2. \A x \in Nat : x <= c => x <= d
      OBVIOUS
    <3> QED BY <2>1, <2>4, <3>1, <3>2
  <2>5. CASE ~IsTrade(nt[i])
    BY <2>1, <2>2, <2>3, <2>5
  <2> QED BY <2>4, <2>5
<1>3. \A i \in DOMAIN p2 : p2[i].cmd <= d
  <2>1. \A i \in DOMAIN pd : pd[i].cmd \in Nat
    <3>1. \A i \in DOMAIN pd : pd[i] \in Trade
      BY ElementOfSeq
    <3> QED BY <3>1, TradeTypes
  <2> QED BY <2>1 DEF Past
<1>4. \A l \in R2 : l.cmd <= d
  <2>1. \A l \in R : l.cmd \in Nat
    BY LineTypes
  <2> QED BY <2>1 DEF Past
<1>5. cl <= d
  BY DEF Past
<1> QED BY <1>1, <1>2, <1>3, <1>4, <1>5 DEF Past

(* The middleware ends on a write to the engine that is gone.                 *)
LEMMA BrokenPipeStep ==
    ASSUME IInv, SubmitToBrokenPipe
    PROVE  IInv'
<1>1. /\ commands' = commands + 1 /\ bridge' = FALSE /\ connected' = FALSE /\ engine = "exited"
      /\ stdout' = <<>> /\ pending' = <<>> /\ engine' = engine /\ stdin' = stdin
      /\ engine_book' = engine_book /\ page' = page /\ cleared' = cleared /\ cut' = cut
      /\ missed' = missed /\ heard' = heard
  BY DEF SubmitToBrokenPipe
<1>2. PICK k \in 0 .. Len(net) : net' = SubSeq(net, 1, k)
  BY DEF SubmitToBrokenPipe
<1>3. Types
  BY DEF IInv
<1>4. net' \in Seq(NetEvent) /\ Begins(net', net)
  <2>1. net \in Seq(NetEvent)
    BY <1>3 DEF Types
  <2> HIDE DEF NetEvent
  <2> QED BY <1>2, <2>1 DEF Begins
<1>5. <<>> \in Seq(HalfLine) /\ <<>> \in Seq(Trade)
  <2>1. \A S : <<>> \in Seq(S)
    OBVIOUS
  <2> QED BY <2>1
<1>6. Types'
  <2>1. commands' \in Nat
    BY <1>1, <1>3 DEF Types
  <2> QED BY <1>1, <1>3, <1>4, <1>5, <2>1 DEF Types
<1>7. Unread' = {}
  BY <1>1 DEF Unread, LinesFrom
<1>8. Answered' \in Nat /\ Answered <= Answered'
  <2>1. CASE stdin = <<>>
    BY <1>1, <1>3, <2>1 DEF Types, Answered
  <2>2. CASE stdin # <<>>
    BY <1>1, <1>3, <2>2, AnsweredType DEF Answered
  <2> QED BY <2>1, <2>2
<1>9. Queue'
  <2>1. \A i \in DOMAIN stdin : stdin[i].cmd \in Nat
    <3>1. stdin \in Seq([kind : {"order", "clear"}, cmd : Cmd])
      BY <1>3 DEF Types
    <3>2. \A i \in DOMAIN stdin : stdin[i] \in [kind : {"order", "clear"}, cmd : Cmd]
      <4> DEFINE T == [kind : {"order", "clear"}, cmd : Cmd]
      <4> HIDE DEF T
      <4>1. stdin \in Seq(T)
        BY <3>1 DEF T
      <4>2. \A i \in DOMAIN stdin : stdin[i] \in T
        BY <4>1
      <4> QED BY <4>2 DEF T
    <3> QED BY <3>2 DEF Cmd
  <2> QED BY <1>1, <1>3, <2>1 DEF IInv, Types, Queue
<1>10. Flows(page.trades, cleared, net, pending, Unread, cut)'
  <2>1. Flows(page.trades, cleared, net', <<>>, {}, cut)
    BY <1>3, <1>4, PartTypes, FlowsLess DEF IInv
  <2> QED BY <1>1, <1>7, <2>1
<1>11. Past(page.trades, cleared, net, pending, Unread, Answered)'
  <2>1. Past(page.trades, cleared, net', <<>>, {}, Answered')
    BY <1>3, <1>4, <1>8, PartTypes, PastLater DEF IInv
  <2> QED BY <1>1, <1>7, <2>1
<1>12. BooksOrdered(page.book, net, Unread, engine_book)'
  BY <1>1, <1>4, <1>7 DEF IInv, BooksOrdered, Begins
<1>13. LastBook'
  BY <1>1, <1>3, <1>8, PartTypes DEF IInv, LastBook
<1>14. Shape' /\ Apart'
  BY <1>1 DEF Shape, Apart
<1>15. Answering(pending, Unread, cut)'
  BY <1>1 DEF Answering
<1>16. HeardInTime'
  <2>1. AlreadySent(page'.trades) /\ AlreadySent(net')
    BY <1>1, <1>4 DEF AlreadySent, Begins
  <2> QED BY <1>1, <1>3, <1>7, <1>8, <2>1, AnsweredType, HeardKept DEF IInv
<1> QED BY <1>6, <1>9, <1>10, <1>11, <1>12, <1>13, <1>14, <1>15, <1>16 DEF IInv

(* The connection drops.                                                      *)
LEMMA DisconnectStep ==
    ASSUME IInv, Disconnect
    PROVE  IInv'
<1>1. /\ connected' = FALSE /\ net' = <<>> /\ missed' = Max({missed} \cup BooksIn(net))
      /\ engine' = engine /\ bridge' = bridge /\ stdin' = stdin /\ commands' = commands
      /\ engine_book' = engine_book /\ stdout' = stdout /\ pending' = pending /\ page' = page
      /\ cleared' = cleared /\ cut' = cut /\ heard' = heard
  BY DEF Disconnect, Missing, procs
<1>2. Types /\ <<>> \in Seq(NetEvent)
  BY DEF IInv
<1>3. Unread' = Unread /\ Answered' = Answered
  BY <1>1 DEF Unread, LinesFrom, Answered
<1>4. \A b \in BooksIn(net) : b \in Nat /\ b <= engine_book
  <2>1. \A i \in DOMAIN net : IsBook(net[i]) => net[i].value \in Nat
    <3>1. \A i \in DOMAIN net : net[i] \in NetEvent
      BY <1>2, PartTypes
    <3> QED BY <3>1, EventTypes DEF IsBook, IsTrade
  <2> QED BY <2>1 DEF IInv, BooksIn, BooksOrdered, IsBook
<1>5. /\ missed' \in Nat /\ missed' <= engine_book
      /\ engine_book \in {missed} \cup BooksIn(net) => missed' = engine_book
  <2>1. missed \in Nat /\ engine_book \in Nat /\ missed <= engine_book
    BY <1>2, PartTypes DEF IInv, LastBook
  <2> QED BY <1>1, <1>4, <2>1, GreatestIs
<1>6. Types'
  BY <1>1, <1>2, <1>5 DEF Types
<1>7. Flows(page.trades, cleared, net, pending, Unread, cut)'
  <2>1. Begins(<<>>, net)
    BY DEF Begins
  <2>2. Flows(page.trades, cleared, <<>>, pending, Unread, cut)
    BY <1>2, <2>1, PartTypes, FlowsLess DEF IInv
  <2> QED BY <1>1, <1>3, <2>2
<1>8. Past(page.trades, cleared, net, pending, Unread, Answered)'
  BY <1>1, <1>3 DEF IInv, Past
<1>9. BooksOrdered(page.book, net, Unread, engine_book)'
  BY <1>1, <1>3 DEF IInv, BooksOrdered
<1>10. LastBook'
  <2>1. ASSUME NEW i \in DOMAIN net, IsBook(net[i]), net[i].value = engine_book
        PROVE  missed' = engine_book
    BY <1>5, <2>1 DEF BooksIn, IsBook
  <2> QED BY <1>1, <1>3, <1>5, <2>1 DEF IInv, LastBook, OnItsWay
<1>11. Shape' /\ Apart' /\ Queue'
  BY <1>1 DEF IInv, Shape, Apart, Queue
<1>12. Answering(pending, Unread, cut)'
  BY <1>1, <1>3 DEF IInv, Answering
<1>13. HeardInTime'
  <2>1. AlreadySent(page'.trades) /\ AlreadySent(net')
    BY <1>1 DEF AlreadySent
  <2>2. Answered \in Nat /\ Answered <= Answered
    BY <1>2, AnsweredType
  <2> QED BY <1>1, <1>3, <2>1, <2>2, HeardKept DEF IInv
<1> QED BY <1>6, <1>7, <1>8, <1>9, <1>10, <1>11, <1>12, <1>13 DEF IInv

(* A page connects, as it was or loaded anew.                                 *)
LEMMA ConnectStep ==
    ASSUME IInv, NEW loaded \in BOOLEAN, Connect(loaded)
    PROVE  IInv'
<1>1. /\ bridge /\ ~connected /\ connected' = TRUE /\ engine' = engine /\ bridge' = bridge
      /\ stdin' = stdin /\ commands' = commands /\ engine_book' = engine_book /\ stdout' = stdout
      /\ pending' = pending /\ net' = net /\ cut' = cut /\ heard' = heard
  BY DEF Connect, procs
<1>2. Types /\ net = <<>>
  BY <1>1 DEF IInv, Apart
<1>3. Unread' = Unread /\ Answered' = Answered
  BY <1>1 DEF Unread, LinesFrom, Answered
<1>4. Shape' /\ Apart' /\ Queue'
  BY <1>1 DEF IInv, Shape, Apart, Queue
<1>5. Answering(pending, Unread, cut)'
  BY <1>1, <1>3 DEF IInv, Answering
<1>6. HeardInTime'
  <2>1. page'.trades = page.trades \/ page'.trades = <<>>
    BY DEF Connect, EmptyPage
  <2>2. AlreadySent(page'.trades) /\ AlreadySent(net')
    BY <1>1, <2>1 DEF AlreadySent
  <2>3. Answered \in Nat /\ Answered <= Answered
    BY <1>2, AnsweredType
  <2> QED BY <1>1, <1>3, <2>2, <2>3, HeardKept DEF IInv
<1>7. CASE ~loaded
  <2>1. page' = page /\ cleared' = cleared /\ missed' = missed
    BY <1>7 DEF Connect
  <2>2. Types' /\ LastBook'
    BY <1>1, <1>2, <1>3, <2>1 DEF IInv, Types, LastBook
  <2>3. /\ Flows(page.trades, cleared, net, pending, Unread, cut)'
        /\ Past(page.trades, cleared, net, pending, Unread, Answered)'
        /\ BooksOrdered(page.book, net, Unread, engine_book)'
    BY <1>1, <1>3, <2>1 DEF IInv
  <2> QED BY <1>4, <1>5, <1>6, <2>2, <2>3 DEF IInv
<1>8. CASE loaded
  <2>1. page' = EmptyPage /\ cleared' = 0 /\ missed' = Max({missed} \cup {page.book})
    BY <1>8 DEF Connect, Missing, NoCommand
  <2>2. page'.trades = <<>> /\ page'.book = 0
    BY <2>1 DEF EmptyPage, NoCommand
  <2>3. /\ missed' \in Nat /\ missed' <= engine_book
        /\ engine_book \in {missed} \cup {page.book} => missed' = engine_book
    <3>1. /\ missed \in Nat /\ engine_book \in Nat /\ missed <= engine_book
          /\ page.book \in Nat /\ page.book <= engine_book
      BY <1>2, PartTypes DEF IInv, LastBook
    <3>2. \A b \in {page.book} : b \in Nat /\ b <= engine_book
      BY <3>1
    <3> QED BY <2>1, <3>1, <3>2, GreatestIs
  <2>4. \A l \in Unread : l.cmd \in Nat /\ l.cmd >= 1
    BY <1>2, PartTypes, LineTypes
  <2>5. \A i \in DOMAIN pending : pending[i].cmd \in Nat /\ pending[i].cmd >= 1
    <3>1. \A i \in DOMAIN pending : pending[i] \in Trade
      BY <1>2, PartTypes
    <3> QED BY <3>1, TradeTypes
  <2>6. Types'
    <3>1. <<>> \in Seq(SentTrade)
      OBVIOUS
    <3>2. page' \in [book : Nat, trades : Seq(SentTrade), latency : Nat]
      <4> HIDE DEF SentTrade
      <4> QED BY <2>1, <3>1 DEF EmptyPage, NoCommand
    <3> QED BY <1>1, <1>2, <2>1, <2>3, <3>2 DEF Types
  <2>7. LastBook'
    BY <1>1, <1>2, <1>3, <2>2, <2>3, PartTypes DEF IInv, LastBook, OnItsWay
  <2>8. Flows(<<>>, 0, <<>>, pending, Unread, cut)
    <3>1. Ordered(<<>>, <<>>, pending, Unread)
      BY <1>2 DEF IInv, Flows, Ordered
    <3>2. Timed(<<>>, <<>>, pending, Unread, cut)
      BY <1>2 DEF IInv, Flows, Timed
    <3>3. Cleared(<<>>, 0, <<>>, pending, Unread, cut)
      BY <2>4, <2>5 DEF Cleared, Since
    <3> QED BY <3>1, <3>2, <3>3 DEF Flows
  <2>9. /\ Flows(page.trades, cleared, net, pending, Unread, cut)'
        /\ Past(page.trades, cleared, net, pending, Unread, Answered)'
        /\ BooksOrdered(page.book, net, Unread, engine_book)'
    <3>1. Flows(page.trades, cleared, net, pending, Unread, cut)'
      BY <1>1, <1>2, <1>3, <2>1, <2>2, <2>8
    <3>2. Past(page.trades, cleared, net, pending, Unread, Answered)'
      BY <1>1, <1>2, <1>3, <2>1, <2>2, PartTypes DEF IInv, Past
    <3>3. BooksOrdered(page.book, net, Unread, engine_book)'
      BY <1>1, <1>2, <1>3, <2>2, <2>4 DEF IInv, BooksOrdered
    <3> QED BY <3>1, <3>2, <3>3
  <2> QED BY <1>4, <1>5, <1>6, <2>6, <2>7, <2>9 DEF IInv
<1> QED BY <1>7, <1>8

(* What is left of the output after a chunk.                                  *)
LEMMA ChunkRead ==
    ASSUME Types, Shape, NEW n \in 1 .. Len(stdout), stdout' = SubSeq(stdout, n + 1, Len(stdout))
    PROVE  stdout' \in Seq(HalfLine) /\ Shape' /\ Unread' = LinesFrom(n + 1)
<1>1. stdout \in Seq(HalfLine) /\ Len(stdout) \in Nat /\ DOMAIN stdout = 1 .. Len(stdout)
      /\ n \in Nat /\ n <= Len(stdout)
  BY DEF Types
<1>2. stdout' \in Seq(HalfLine) /\ DOMAIN stdout' = 1 .. Len(stdout) - n
      /\ \A i \in 1 .. Len(stdout) - n : stdout'[i] = stdout[n + i]
  <2> HIDE DEF HalfLine
  <2> QED BY <1>1
<1>3. ASSUME NEW i \in DOMAIN stdout'
      PROVE  n + i \in DOMAIN stdout /\ stdout'[i] = stdout[n + i] /\ i \in Nat /\ i >= 1
             /\ (n + i) + 1 = n + (i + 1)
             /\ ((n + i) + 1 \in DOMAIN stdout <=> i + 1 \in DOMAIN stdout')
  <2>1. i \in 1 .. Len(stdout) - n /\ i \in Nat /\ i >= 1
    BY <1>1, <1>2
  <2>2. n + i \in 1 .. Len(stdout) /\ (n + i) + 1 = n + (i + 1)
    BY <1>1, <2>1
  <2>3. (n + i) + 1 \in 1 .. Len(stdout) <=> i + 1 \in 1 .. Len(stdout) - n
    BY <1>1, <2>1
  <2> QED BY <1>1, <1>2, <2>1, <2>2, <2>3
<1>4. ASSUME NEW i \in DOMAIN stdout'
      PROVE  /\ stdout'[i].half = 1 => i + 1 \in DOMAIN stdout' /\ stdout'[i + 1].half = 2
             /\ stdout'[i].half = 2 /\ i + 1 \in DOMAIN stdout' => stdout'[i + 1].half = 1
  <2>1. /\ stdout[n + i].half = 1 => (n + i) + 1 \in DOMAIN stdout /\ stdout[(n + i) + 1].half = 2
        /\ stdout[n + i].half = 2 /\ (n + i) + 1 \in DOMAIN stdout => stdout[(n + i) + 1].half = 1
    BY <1>3 DEF Shape
  <2>2. i + 1 \in DOMAIN stdout' => stdout'[i + 1] = stdout[(n + i) + 1]
    BY <1>3
  <2> QED BY <1>3, <2>1, <2>2
<1>5. ASSUME NEW i \in DOMAIN stdout', NEW j \in DOMAIN stdout', i < j,
             stdout'[i].half = 1, stdout'[j].half = 1
      PROVE  Before(stdout'[i].line, stdout'[j].line)
  <2>1. n + i < n + j
    BY <1>1, <1>3, <1>5
  <2>2. /\ n + i \in DOMAIN stdout /\ stdout'[i] = stdout[n + i]
        /\ n + j \in DOMAIN stdout /\ stdout'[j] = stdout[n + j]
    BY <1>3
  <2>3. Before(stdout[n + i].line, stdout[n + j].line)
    <3>1. stdout[n + i].half = 1 /\ stdout[n + j].half = 1
      BY <1>5, <2>2
    <3> QED BY <2>1, <2>2, <3>1 DEF Shape
  <2> QED BY <2>2, <2>3
<1>6. Shape'
  BY <1>4, <1>5 DEF Shape, Before
<1>7. ASSUME NEW i \in DOMAIN stdout', i >= 1, stdout'[i].half = 1
      PROVE  stdout'[i].line \in LinesFrom(n + 1)
  <2>1. n + i >= n + 1
    BY <1>1, <1>3
  <2> QED BY <1>3, <1>7, <2>1 DEF LinesFrom
<1>8. ASSUME NEW x \in DOMAIN stdout, x >= n + 1, stdout[x].half = 1
      PROVE  stdout[x].line \in Unread'
  <2>1. x - n \in DOMAIN stdout' /\ stdout'[x - n] = stdout[x] /\ x - n >= 1
    <3>1. x - n \in 1 .. Len(stdout) - n /\ n + (x - n) = x
      BY <1>1, <1>8
    <3> QED BY <1>2, <3>1
  <2> QED BY <1>8, <2>1 DEF Unread, LinesFrom
<1>9. Unread' = LinesFrom(n + 1)
  <2>1. \A l \in Unread' : l \in LinesFrom(n + 1)
    BY <1>7 DEF Unread, LinesFrom
  <2>2. \A l \in LinesFrom(n + 1) : l \in Unread'
    BY <1>8 DEF LinesFrom
  <2> QED BY <2>1, <2>2
<1> QED BY <1>2, <1>6, <1>9

(* The lines of a chunk were unread.                                          *)
LEMMA ChunkUnread ==
    ASSUME IInv, NEW n, NEW fate, ChunkOf(n, fate), NEW j \in DOMAIN LinesOf(n, fate)
    PROVE  LinesOf(n, fate)[j].line \in Unread
<1> DEFINE lines == LinesOf(n, fate)
<1>1. Types /\ Shape /\ stdout # <<>>
  BY DEF IInv, ChunkOf
<1>2. j \in Nat /\ j >= 1 /\ At(j) \in DOMAIN stdout /\ lines[j].line = stdout[At(j)].line
  BY <1>1, ChunkLines
<1> HIDE DEF lines
<1>3. stdout[At(j)].half = 1
  <2>1. j - 1 \in Nat /\ (j - 1) + 1 = j
    BY <1>2
  <2>2. At((j - 1) + 1) \in DOMAIN stdout => stdout[At((j - 1) + 1)].half = 1
    BY <1>1, <2>1, Halving
  <2> QED BY <1>2, <2>1, <2>2
<1>4. lines[j].line \in Unread
  <2>1. At(j) >= 1
    BY <1>1, <1>2, HalfTypes
  <2> QED BY <1>2, <1>3, <2>1 DEF Unread, LinesFrom
<1> QED BY <1>4 DEF lines

(* The books damaged in a chunk were printed, and the latencies recognised in *)
(* it are of commands that were answered.                                     *)
LEMMA DamagedBooks ==
    ASSUME IInv, NEW n, NEW fate, ChunkOf(n, fate), NEW b \in Damaged(LinesOf(n, fate), "BOOK")
    PROVE  b \in Nat /\ b <= engine_book
<1> DEFINE lines == LinesOf(n, fate)
<1>1. PICK j \in DOMAIN lines : lines[j].line.kind = "BOOK" /\ b = lines[j].line.cmd
  BY DEF Damaged
<1>2. lines[j].line \in Unread
  BY ChunkUnread
<1> HIDE DEF lines
<1>3. lines[j].line.cmd \in Nat
  BY <1>2, PartTypes, LineTypes DEF IInv
<1> QED BY <1>1, <1>2, <1>3 DEF IInv, BooksOrdered

LEMMA HeardAnswered ==
    ASSUME IInv, NEW n, NEW fate, ChunkOf(n, fate), NEW d \in Recognised(LinesOf(n, fate))
    PROVE  d <= Answered
<1> DEFINE lines == LinesOf(n, fate)
<1>1. PICK j \in DOMAIN lines : d = lines[j].line.cmd
  BY DEF Recognised
<1>2. lines[j].line \in Unread
  BY ChunkUnread
<1> QED BY <1>1, <1>2 DEF IInv, Past

(* stdout 'data'.                                                             *)
LEMMA OnDataStep ==
    ASSUME IInv, bridge, NEW n, NEW fate, ChunkOf(n, fate), OnData(n, fate)
    PROVE  IInv'
<1> DEFINE lines == LinesOf(n, fate)
           events == Handled(lines).events
           pd == Handled(lines).pending
           R == LinesFrom(n + 1)
           ct == cut \cup Damaged(lines, "LATENCY")
           D == Damaged(lines, "BOOK")
           hd == heard \cup Recognised(lines)
<1>1. Types /\ Shape /\ n \in 1 .. Len(stdout)
  BY DEF IInv, ChunkOf
<1>2. /\ stdout' = SubSeq(stdout, n + 1, Len(stdout)) /\ pending' = pd /\ cut' = ct /\ heard' = hd
      /\ net' = IF connected THEN net \o events ELSE net
      /\ missed' = Max({missed} \cup (D \cup IF connected THEN {} ELSE BooksIn(events)))
      /\ engine' = engine /\ bridge' = bridge /\ stdin' = stdin /\ commands' = commands
      /\ engine_book' = engine_book /\ connected' = connected /\ page' = page /\ cleared' = cleared
  BY DEF OnData, Missing, procs
<1>3. stdout' \in Seq(HalfLine) /\ Shape' /\ Unread' = R
  BY <1>1, <1>2, ChunkRead
<1>4. /\ events \in Seq(NetEvent) /\ pd \in Seq(Trade)
      /\ Loop(net \o events, pd, R, ct, D)
      /\ Hears(page.trades, net \o events, pd, R, hd, ct)
  <2>1. /\ Handled(lines) \in LoopState /\ Loop(net \o events, pd, R, ct, D)
        /\ Hears(page.trades, net \o events, pd, R, hd, ct)
    BY ChunkHandled
  <2> HIDE DEF lines, Loop, Hears
  <2> QED BY <2>1 DEF LoopState
<1>5. \A b \in D : b \in Nat /\ b <= engine_book
  BY DamagedBooks
<1>6. cut \subseteq ct
  OBVIOUS
<1>0. \A d \in hd : d <= Answered
  BY HeardAnswered DEF IInv, HeardInTime
<1> HIDE DEF events, pd, R, ct, D, lines, hd
<1>7. Answered' = Answered /\ Queue'
  BY <1>2 DEF Answered, IInv, Queue
<1>8. Answering(pending, Unread, cut)'
  BY <1>2, <1>3, <1>4 DEF Loop, Answering
<1>9. missed \in Nat /\ engine_book \in Nat /\ missed <= engine_book
  BY <1>1, PartTypes DEF IInv, LastBook
<1>12. HeardInTime'
  <2>1. ASSUME ~connected PROVE Hears(page.trades, <<>>, pd, R, hd, ct) /\ net' = <<>>
    BY <1>2, <1>4, <2>1 DEF IInv, Apart, Hears, Prompt
  <2>2. Hears(page.trades, net', pd, R, hd, ct)
    BY <1>2, <1>4, <2>1
  <2> QED BY <1>0, <1>2, <1>3, <1>7, <2>2 DEF HeardInTime
<1>10. CASE connected
  <2>1. net' = net \o events /\ missed' = Max({missed} \cup D)
    BY <1>2, <1>10
  <2>2. /\ missed' \in Nat /\ missed' <= engine_book
        /\ engine_book \in {missed} \cup D => missed' = engine_book
    BY <1>5, <1>9, <2>1, GreatestIs
  <2>3. Types'
    <3>1. net' \in Seq(NetEvent)
      BY <1>4, <2>1 DEF Loop
    <3> QED BY <1>1, <1>2, <1>3, <1>4, <2>2, <3>1 DEF Types
  <2>4. LastBook'
    <3>1. page.book <= engine_book /\ engine_book <= Answered
      BY DEF IInv, LastBook
    <3> QED BY <1>2, <1>3, <1>4, <1>7, <2>1, <2>2, <3>1 DEF LastBook, Loop
  <2>5. /\ Flows(page.trades, cleared, net, pending, Unread, cut)'
        /\ Past(page.trades, cleared, net, pending, Unread, Answered)'
        /\ BooksOrdered(page.book, net, Unread, engine_book)'
    BY <1>2, <1>3, <1>4, <1>7, <2>1 DEF Loop
  <2>6. Apart'
    BY <1>2, <1>10 DEF Apart
  <2> QED BY <1>3, <1>7, <1>8, <1>12, <2>3, <2>4, <2>5, <2>6 DEF IInv
<1>11. CASE ~connected
  <2>1. net = <<>> /\ net' = <<>> /\ missed' = Max({missed} \cup (D \cup BooksIn(events)))
    BY <1>2, <1>11 DEF IInv, Apart
  <2>2. net \o events = events
    <3> HIDE DEF NetEvent
    <3> QED BY <1>4, <2>1, ConcatEmptySeq
  <2>3. Loop(events, pd, R, ct, D)
    BY <1>4, <2>2
  <2>4. \A b \in BooksIn(events) : b \in Nat /\ b <= engine_book
    <3>1. \A i \in DOMAIN events : IsBook(events[i]) => events[i].value \in Nat
      <4>1. \A i \in DOMAIN events : events[i] \in NetEvent
        BY <1>4, ElementOfSeq
      <4> QED BY <4>1, EventTypes DEF IsBook, IsTrade
    <3> QED BY <2>3, <3>1 DEF Loop, BooksIn, BooksOrdered, IsBook
  <2>5. /\ missed' \in Nat /\ missed' <= engine_book
        /\ engine_book \in {missed} \cup (D \cup BooksIn(events)) => missed' = engine_book
    <3>1. \A b \in D \cup BooksIn(events) : b \in Nat /\ b <= engine_book
      BY <1>5, <2>4
    <3> QED BY <1>9, <2>1, <3>1, GreatestIs
  <2>6. Begins(<<>>, events) /\ <<>> \in Seq(NetEvent)
    BY DEF Begins
  <2>7. Types'
    BY <1>1, <1>2, <1>3, <1>4, <2>1, <2>5, <2>6 DEF Types
  <2>8. LastBook'
    <3>1. page.book <= engine_book /\ engine_book <= Answered
      BY DEF IInv, LastBook
    <3>2. ASSUME NEW i \in DOMAIN events, IsBook(events[i]), events[i].value = engine_book
          PROVE  engine_book \in BooksIn(events)
      BY <3>2 DEF BooksIn, IsBook
    <3>3. engine_book # NoCommand =>
            \/ PlainLine("BOOK", engine_book) \in R \/ page.book = engine_book \/ missed' = engine_book
      BY <2>3, <2>5, <3>2 DEF Loop, OnItsWay
    <3> QED BY <1>2, <1>3, <1>7, <2>5, <3>1, <3>3 DEF LastBook, OnItsWay
  <2>9. Flows(page.trades, cleared, net, pending, Unread, cut)'
    <3>1. Flows(page.trades, cleared, <<>>, pd, R, ct)
      BY <1>1, <1>4, <2>3, <2>6, PartTypes, FlowsLess DEF Loop
    <3> QED BY <1>2, <1>3, <2>1, <3>1
  <2>10. Past(page.trades, cleared, net, pending, Unread, Answered)'
    BY <1>2, <1>3, <1>7, <2>1, <2>3 DEF Loop, Past
  <2>11. BooksOrdered(page.book, net, Unread, engine_book)'
    BY <1>2, <1>3, <2>1, <2>3 DEF Loop, BooksOrdered
  <2>12. Apart'
    BY <2>1 DEF Apart
  <2> QED BY <1>3, <1>7, <1>8, <1>12, <2>7, <2>8, <2>9, <2>10, <2>11, <2>12 DEF IInv
<1> QED BY <1>10, <1>11

LEMMA ReadChunkStep ==
    ASSUME IInv, ReadChunk
    PROVE  IInv'
<1> DEFINE F(n) == IF stdout[n].half = 1 THEN Fates(stdout[n].line.kind) ELSE {"whole"}
<1>1. PICK n \in 1 .. Len(stdout) : \E fate \in F(n) : OnData(n, fate)
  BY DEF ReadChunk
<1>2. PICK fate \in F(n) : OnData(n, fate)
  BY <1>1
<1>3. ChunkOf(n, fate)
  BY DEF ChunkOf, Fates
<1> QED BY <1>2, <1>3, OnDataStep DEF ReadChunk

(* Lines of one command, printed in their order.                              *)
Printed(lines, c) ==
    /\ lines \in Seq(Line)
    /\ \A i \in DOMAIN lines : lines[i].cmd = c
    /\ \A i, j \in DOMAIN lines : i < j => Before(lines[i], lines[j])
    /\ \A i, j \in DOMAIN lines :
        lines[i].kind = "TRADE" /\ Ends(lines[j]) => \E m \in DOMAIN lines : lines[m] = Latency(c)
InAnswer(lines) == {lines[i] : i \in DOMAIN lines}

LEMMA HalvesAre ==
    ASSUME NEW lines \in Seq(Line)
    PROVE  /\ Halves(lines) \in Seq(HalfLine) /\ Len(Halves(lines)) = 2 * Len(lines)
           /\ \A i \in DOMAIN lines :
                /\ 2 * i - 1 \in 1 .. 2 * Len(lines) /\ 2 * i \in 1 .. 2 * Len(lines)
                /\ Halves(lines)[2 * i - 1].line = lines[i] /\ Halves(lines)[2 * i - 1].half = 1
                /\ Halves(lines)[2 * i].line = lines[i] /\ Halves(lines)[2 * i].half = 2
           /\ \A x \in 1 .. 2 * Len(lines) : \E i \in DOMAIN lines : x = 2 * i - 1 \/ x = 2 * i
<1> DEFINE n == Len(lines)
<1>1. n \in Nat /\ DOMAIN lines = 1 .. n /\ \A i \in 1 .. n : lines[i] \in Line
  <2> HIDE DEF Line
  <2> QED OBVIOUS
<1> HIDE DEF n
<1>2. Halves(lines) =
        [i \in 1 .. 2 * n |-> [line |-> lines[(i + 1) \div 2], half |-> 2 - (i % 2)]]
  BY DEF Halves, n
<1>3. \A x \in 1 .. 2 * n : (x + 1) \div 2 \in 1 .. n /\ 2 - (x % 2) \in {1, 2}
                            /\ (x = 2 * ((x + 1) \div 2) - 1 \/ x = 2 * ((x + 1) \div 2))
  BY <1>1
<1>4. \A i \in 1 .. n : /\ 2 * i - 1 \in 1 .. 2 * n /\ 2 * i \in 1 .. 2 * n
                        /\ ((2 * i - 1) + 1) \div 2 = i /\ (2 * i + 1) \div 2 = i
                        /\ 2 - ((2 * i - 1) % 2) = 1 /\ 2 - ((2 * i) % 2) = 2
  BY <1>1
<1>5. \A x \in 1 .. 2 * n : Halves(lines)[x] \in HalfLine
  BY <1>1, <1>2, <1>3 DEF HalfLine
<1>6. Halves(lines) \in [1 .. 2 * n -> HalfLine]
  <2>1. Halves(lines) = [x \in 1 .. 2 * n |-> Halves(lines)[x]]
    BY <1>2
  <2> HIDE DEF HalfLine
  <2> QED BY <1>5, <2>1
<1>7. Halves(lines) \in Seq(HalfLine) /\ Len(Halves(lines)) = 2 * n
  <2> HIDE DEF HalfLine
  <2> QED BY <1>1, <1>6
<1>8. ASSUME NEW i \in 1 .. n
      PROVE  /\ Halves(lines)[2 * i - 1].line = lines[i] /\ Halves(lines)[2 * i - 1].half = 1
             /\ Halves(lines)[2 * i].line = lines[i] /\ Halves(lines)[2 * i].half = 2
  <2>1. /\ Halves(lines)[2 * i - 1] = [line |-> lines[i], half |-> 1]
        /\ Halves(lines)[2 * i] = [line |-> lines[i], half |-> 2]
    BY <1>2, <1>4
  <2> QED BY <2>1
<1>9. ASSUME NEW x \in 1 .. 2 * n PROVE \E i \in 1 .. n : x = 2 * i - 1 \/ x = 2 * i
  <2> DEFINE i == (x + 1) \div 2
  <2>1. i \in 1 .. n /\ (x = 2 * i - 1 \/ x = 2 * i)
    BY <1>3, Zenon
  <2> HIDE DEF i
  <2> QED BY <2>1, Zenon
<1>10. \A i \in 1 .. n : 2 * i - 1 \in 1 .. 2 * n /\ 2 * i \in 1 .. 2 * n
  BY <1>4, Zenon
<1> QED BY <1>1, <1>7, <1>8, <1>9, <1>10, Zenon DEF n

(* The output with the lines appended.                                        *)
LEMMA Appended ==
    ASSUME Types, Shape, NEW lines, NEW c, Printed(lines, c), stdout' = stdout \o Halves(lines),
           \A l \in Unread : \A i \in DOMAIN lines : Before(l, lines[i])
    PROVE  stdout' \in Seq(HalfLine) /\ Shape' /\ Unread' = Unread \cup InAnswer(lines)
<1> DEFINE L == Len(stdout)
           n == Len(lines)
           H == Halves(lines)
<1>1. lines \in Seq(Line) /\ n \in Nat /\ DOMAIN lines = 1 .. n
  BY DEF Printed
<1>2. stdout \in Seq(HalfLine) /\ L \in Nat /\ DOMAIN stdout = 1 .. L
  BY DEF Types
<1>3. /\ H \in Seq(HalfLine) /\ Len(H) = 2 * n
      /\ \A i \in 1 .. n :
            /\ 2 * i - 1 \in 1 .. 2 * n /\ 2 * i \in 1 .. 2 * n
            /\ H[2 * i - 1].line = lines[i] /\ H[2 * i - 1].half = 1
            /\ H[2 * i].line = lines[i] /\ H[2 * i].half = 2
      /\ \A x \in 1 .. 2 * n : \E i \in 1 .. n : x = 2 * i - 1 \/ x = 2 * i
  BY <1>1, HalvesAre
<1> HIDE DEF H
<1>4. /\ stdout' \in Seq(HalfLine) /\ Len(stdout') = L + 2 * n
      /\ \A x \in 1 .. L + 2 * n : stdout'[x] = IF x <= L THEN stdout[x] ELSE H[x - L]
  <2>1. stdout' = stdout \o H
    BY DEF H
  <2> HIDE DEF HalfLine, n
  <2>2. /\ stdout \o H \in Seq(HalfLine) /\ Len(stdout \o H) = Len(stdout) + Len(H)
        /\ \A x \in 1 .. Len(stdout) + Len(H) :
            (stdout \o H)[x] = IF x <= Len(stdout) THEN stdout[x] ELSE H[x - Len(stdout)]
    <3>1. stdout \in Seq(HalfLine) /\ H \in Seq(HalfLine)
      BY <1>2, <1>3
    <3> QED BY <3>1, ConcatProperties, Zenon
  <2> QED BY <1>3, <2>1, <2>2
<1> HIDE DEF n, L
<1>5. DOMAIN stdout' = 1 .. L + 2 * n
  <2>1. Len(stdout') \in Nat /\ DOMAIN stdout' = 1 .. Len(stdout')
    BY <1>4
  <2> QED BY <1>4, <2>1
<1>6. \A x \in 1 .. L : x \in DOMAIN stdout' /\ stdout'[x] = stdout[x]
  BY <1>1, <1>2, <1>4, <1>5
<1>7. ASSUME NEW i \in 1 .. n
      PROVE  /\ L + 2 * i - 1 \in DOMAIN stdout' /\ L + 2 * i \in DOMAIN stdout'
             /\ stdout'[L + 2 * i - 1].half = 1 /\ stdout'[L + 2 * i - 1].line = lines[i]
             /\ stdout'[L + 2 * i].half = 2
  <2>1. /\ L + 2 * i - 1 \in 1 .. L + 2 * n /\ L + 2 * i \in 1 .. L + 2 * n
        /\ ~(L + 2 * i - 1 <= L) /\ ~(L + 2 * i <= L)
        /\ (L + 2 * i - 1) - L = 2 * i - 1 /\ (L + 2 * i) - L = 2 * i
    BY <1>1, <1>2
  <2>2. stdout'[L + 2 * i - 1] = H[2 * i - 1] /\ stdout'[L + 2 * i] = H[2 * i]
    BY <1>4, <2>1
  <2>3. /\ H[2 * i - 1].half = 1 /\ H[2 * i - 1].line = lines[i] /\ H[2 * i].half = 2
    BY <1>3
  <2> QED BY <1>5, <2>1, <2>2, <2>3
<1>8. ASSUME NEW x \in DOMAIN stdout'
      PROVE  x \in 1 .. L \/ \E i \in 1 .. n : x = L + 2 * i - 1 \/ x = L + 2 * i
  <2>1. x \in 1 .. L \/ x - L \in 1 .. 2 * n
    BY <1>1, <1>2, <1>5
  <2>2. CASE x - L \in 1 .. 2 * n
    <3>1. PICK i \in 1 .. n : x - L = 2 * i - 1 \/ x - L = 2 * i
      BY <1>3, <2>2
    <3>2. x = L + (x - L)
      BY <1>1, <1>2, <1>5
    <3>3. L + (2 * i - 1) = L + 2 * i - 1
      BY <1>1, <1>2
    <3> QED BY <3>1, <3>2, <3>3
  <2> QED BY <2>1, <2>2
<1>9. ASSUME NEW x \in DOMAIN stdout'
      PROVE  /\ stdout'[x].half = 1 => x + 1 \in DOMAIN stdout' /\ stdout'[x + 1].half = 2
             /\ stdout'[x].half = 2 /\ x + 1 \in DOMAIN stdout' => stdout'[x + 1].half = 1
  <2>1. CASE x \in 1 .. L
    <3>1. /\ stdout[x].half = 1 => x + 1 \in 1 .. L /\ stdout[x + 1].half = 2
          /\ stdout[x].half = 2 /\ x + 1 \in 1 .. L => stdout[x + 1].half = 1
      BY <1>2, <2>1 DEF Shape
    <3>2. CASE x + 1 \in 1 .. L
      BY <1>6, <2>1, <3>1, <3>2
    <3>3. CASE x + 1 \notin 1 .. L
      <4>1. x + 1 = L + 1
        BY <1>2, <2>1, <3>3
      <4>2. x + 1 \in DOMAIN stdout' => 1 \in 1 .. n
        BY <1>1, <1>2, <1>5, <4>1
      <4>3. x + 1 \in DOMAIN stdout' => stdout'[L + 2 * 1 - 1].half = 1
        BY <1>7, <4>2
      <4>4. L + 2 * 1 - 1 = L + 1
        BY <1>2
      <4> QED BY <1>6, <2>1, <3>1, <3>3, <4>1, <4>3, <4>4
    <3> QED BY <3>2, <3>3
  <2>2. ASSUME NEW i \in 1 .. n, x = L + 2 * i - 1
        PROVE  stdout'[x].half = 1 /\ x + 1 \in DOMAIN stdout' /\ stdout'[x + 1].half = 2
    <3>1. x + 1 = L + 2 * i
      BY <1>1, <1>2, <2>2
    <3> QED BY <1>7, <2>2, <3>1
  <2>3. ASSUME NEW i \in 1 .. n, x = L + 2 * i
        PROVE  stdout'[x].half = 2 /\ (x + 1 \in DOMAIN stdout' => stdout'[x + 1].half = 1)
    <3>1. x + 1 = L + 2 * (i + 1) - 1
      BY <1>1, <1>2, <2>3
    <3>2. x + 1 \in DOMAIN stdout' => i + 1 \in 1 .. n
      BY <1>1, <1>2, <1>5, <2>3
    <3> QED BY <1>7, <2>3, <3>1, <3>2
  <2>4. CASE x \notin 1 .. L
    <3>1. PICK i \in 1 .. n : x = L + 2 * i - 1 \/ x = L + 2 * i
      BY <1>8, <2>4
    <3>2. CASE x = L + 2 * i - 1
      BY <2>2, <3>2
    <3>3. CASE x = L + 2 * i
      BY <2>3, <3>3
    <3> QED BY <3>1, <3>2, <3>3
  <2> QED BY <2>1, <2>4
<1>10. ASSUME NEW x \in DOMAIN stdout', stdout'[x].half = 1
       PROVE  \/ x \in 1 .. L /\ stdout[x].half = 1 /\ stdout'[x].line = stdout[x].line
              \/ \E i \in 1 .. n : x = L + 2 * i - 1 /\ stdout'[x].line = lines[i]
  <2>1. CASE x \in 1 .. L
    BY <1>6, <1>10, <2>1
  <2>2. CASE x \notin 1 .. L
    <3>1. PICK i \in 1 .. n : x = L + 2 * i - 1 \/ x = L + 2 * i
      BY <1>8, <2>2
    <3>2. x # L + 2 * i
      BY <1>7, <1>10
    <3>3. x = L + 2 * i - 1 /\ stdout'[x].line = lines[i]
      BY <1>7, <3>1, <3>2
    <3> QED BY <3>3
  <2> QED BY <2>1, <2>2
<1>11. ASSUME NEW x \in DOMAIN stdout', NEW y \in DOMAIN stdout', x < y,
              stdout'[x].half = 1, stdout'[y].half = 1
       PROVE  Before(stdout'[x].line, stdout'[y].line)
  <2>1. CASE y \in 1 .. L
    <3>1. x \in 1 .. L
      BY <1>2, <1>5, <1>11, <2>1
    <3>2. stdout[x].half = 1 /\ stdout[y].half = 1 /\ x \in DOMAIN stdout /\ y \in DOMAIN stdout
      BY <1>2, <1>6, <1>11, <2>1, <3>1
    <3>3. Before(stdout[x].line, stdout[y].line)
      BY <1>11, <3>2 DEF Shape
    <3> QED BY <1>6, <2>1, <3>1, <3>3
  <2>2. ASSUME NEW j \in 1 .. n, y = L + 2 * j - 1, stdout'[y].line = lines[j]
        PROVE  Before(stdout'[x].line, stdout'[y].line)
    <3>1. CASE x \in 1 .. L /\ stdout[x].half = 1 /\ stdout'[x].line = stdout[x].line
      <4>1. stdout[x].line \in Unread
        BY <1>2, <3>1 DEF Unread, LinesFrom
      <4> QED BY <1>1, <2>2, <3>1, <4>1
    <3>2. ASSUME NEW i \in 1 .. n, x = L + 2 * i - 1, stdout'[x].line = lines[i]
          PROVE  Before(stdout'[x].line, stdout'[y].line)
      <4>1. i < j
        BY <1>1, <1>2, <1>11, <2>2, <3>2
      <4>2. Before(lines[i], lines[j])
        BY <1>1, <4>1 DEF Printed
      <4> QED BY <2>2, <3>2, <4>2
    <3> QED BY <1>10, <1>11, <3>1, <3>2
  <2> QED BY <1>10, <1>11, <2>1, <2>2
<1>12. Shape'
  BY <1>9, <1>11 DEF Shape, Before
<1>13. ASSUME NEW l \in Unread' PROVE l \in Unread \cup InAnswer(lines)
  <2>1. PICK x \in DOMAIN stdout' : stdout'[x].half = 1 /\ l = stdout'[x].line
    BY DEF Unread, LinesFrom
  <2>2. x \in 1 .. L /\ stdout[x].half = 1 => stdout[x].line \in Unread
    BY <1>2 DEF Unread, LinesFrom
  <2>3. \A i \in 1 .. n : lines[i] \in InAnswer(lines)
    BY <1>1 DEF InAnswer
  <2> QED BY <1>10, <2>1, <2>2, <2>3
<1>14. ASSUME NEW l \in Unread PROVE l \in Unread'
  <2>1. PICK x \in DOMAIN stdout : x >= 1 /\ stdout[x].half = 1 /\ l = stdout[x].line
    BY DEF Unread, LinesFrom
  <2>2. x \in DOMAIN stdout' /\ stdout'[x].half = 1 /\ l = stdout'[x].line
    BY <1>2, <1>6, <2>1
  <2> QED BY <2>1, <2>2 DEF Unread, LinesFrom
<1>15. ASSUME NEW l \in InAnswer(lines) PROVE l \in Unread'
  <2>1. PICK i \in 1 .. n : l = lines[i]
    BY <1>1 DEF InAnswer
  <2>2. /\ L + 2 * i - 1 \in DOMAIN stdout' /\ stdout'[L + 2 * i - 1].half = 1
        /\ l = stdout'[L + 2 * i - 1].line /\ L + 2 * i - 1 >= 1
    <3>1. L + 2 * i - 1 >= 1
      BY <1>1, <1>2
    <3> QED BY <1>7, <2>1, <3>1
  <2> QED BY <2>2 DEF Unread, LinesFrom
<1>16. Unread' = Unread \cup InAnswer(lines)
  BY <1>13, <1>14, <1>15
<1> QED BY <1>4, <1>12, <1>16

(* The engine, which runs, prints lines about a command that is later than    *)
(* everything on its way.                                                     *)
LEMMA FlowsPrint ==
    ASSUME NEW pt \in Seq(SentTrade), NEW cl \in Nat, NEW nt \in Seq(NetEvent), NEW pd \in Seq(Trade),
           NEW R \in SUBSET Line, NEW ct, NEW a \in Nat, NEW lines, NEW c \in Cmd, a < c,
           Flows(pt, cl, nt, pd, R, ct), Past(pt, cl, nt, pd, R, a), Printed(lines, c),
           \A i \in DOMAIN pd : pd[i].cmd \in ct \/ Latency(pd[i].cmd) \in R,
           \A t \in R : t.kind = "TRADE" => Latency(t.cmd) \in R
    PROVE  Flows(pt, cl, nt, pd, R \cup InAnswer(lines), ct)
<1> DEFINE R2 == R \cup InAnswer(lines)
<1>1. Ordered(pt, nt, pd, R) /\ Timed(pt, nt, pd, R, ct) /\ Cleared(pt, cl, nt, pd, R, ct)
  BY DEF Flows
<1>2. lines \in Seq(Line) /\ \A i \in DOMAIN lines : lines[i] \in Line /\ lines[i].cmd = c
  BY ElementOfSeq DEF Printed
<1>3. \A l \in InAnswer(lines) : l \in Line /\ l.cmd = c /\ Place(l).cmd = c
  <2>1. ASSUME NEW l \in InAnswer(lines) PROVE l \in Line /\ l.cmd = c /\ Place(l).cmd = c
    <3>1. PICK i \in DOMAIN lines : l = lines[i]
      BY DEF InAnswer
    <3>2. l \in Line /\ l.cmd = c
      BY <1>2, <3>1
    <3> QED BY <3>2, LineTypes
  <2> QED BY <2>1
<1>4. c \in Nat
  BY DEF Cmd
<1>5. \A t \in Trade : t.cmd <= a => \A l \in InAnswer(lines) : Earlier(t, Place(l))
  <2>1. ASSUME NEW t \in Trade, t.cmd <= a, NEW l \in InAnswer(lines) PROVE Earlier(t, Place(l))
    <3>1. t.cmd \in Nat
      BY TradeTypes
    <3>2. t.cmd < c
      BY <1>4, <2>1, <3>1
    <3> QED BY <1>3, <3>2 DEF Earlier
  <2> QED BY <2>1
<1>6. Ordered(pt, nt, pd, R2)
  <2>1. ASSUME NEW l \in InAnswer(lines)
        PROVE  /\ \A i \in DOMAIN pt : Earlier(pt[i].value, Place(l))
               /\ \A i \in DOMAIN nt : IsTrade(nt[i]) => Earlier(nt[i].value, Place(l))
               /\ \A i \in DOMAIN pd : Earlier(pd[i], Place(l))
    <3>1. \A i \in DOMAIN pt : pt[i].value \in Trade /\ pt[i].value.cmd <= a
      <4>1. \A i \in DOMAIN pt : pt[i] \in SentTrade
        BY ElementOfSeq
      <4> QED BY <4>1, SentTypes DEF Past
    <3>2. \A i \in DOMAIN nt : IsTrade(nt[i]) => nt[i].value \in Trade /\ nt[i].value.cmd <= a
      <4>1. \A i \in DOMAIN nt : nt[i] \in NetEvent
        BY ElementOfSeq
      <4> QED BY <4>1, EventTypes DEF Past
    <3>3. \A i \in DOMAIN pd : pd[i] \in Trade /\ pd[i].cmd <= a
      BY ElementOfSeq DEF Past
    <3> QED BY <1>5, <3>1, <3>2, <3>3
  <2> QED BY <1>1, <2>1 DEF Ordered
<1>7. Timed(pt, nt, pd, R2, ct)
  <2>1. ASSUME NEW t \in R2, NEW l \in R2, t.kind = "TRADE", Ends(l), Before(t, l)
        PROVE  Latency(t.cmd) \in R2
    <3>1. CASE t \in R
      BY <2>1, <3>1
    <3>2. CASE t \in InAnswer(lines) /\ l \in R
      <4>1. l.cmd <= a /\ l.cmd \in Nat /\ Place(l).cmd = l.cmd /\ Place(t).cmd = c
        BY <1>3, <3>2, LineTypes DEF Past
      <4> QED BY <1>4, <2>1, <4>1 DEF Before, Earlier
    <3>3. CASE t \in InAnswer(lines) /\ l \in InAnswer(lines)
      <4>1. \E m \in DOMAIN lines : lines[m] = Latency(c)
        BY <2>1, <3>3 DEF InAnswer, Printed
      <4>2. Latency(c) \in InAnswer(lines)
        BY <4>1 DEF InAnswer
      <4> QED BY <1>3, <3>3, <4>2
    <3> QED BY <2>1, <3>1, <3>2, <3>3
  <2>2. \A i \in DOMAIN pd : \A l \in R2 : Ends(l) => pd[i].cmd \in ct \/ Latency(pd[i].cmd) \in R2
    OBVIOUS
  <2> QED BY <1>1, <2>1, <2>2 DEF Timed
<1>8. Cleared(pt, cl, nt, pd, R2, ct)
  <2>1. ASSUME NEW l \in InAnswer(lines)
        PROVE  cl < l.cmd /\ \A i \in DOMAIN nt : IsCleared(nt[i]) => nt[i].value < l.cmd
    <3>1. cl < c
      BY <1>4 DEF Past
    <3>2. ASSUME NEW i \in DOMAIN nt, IsCleared(nt[i]) PROVE nt[i].value < c
      <4>1. ~IsTrade(nt[i]) /\ nt[i] \in NetEvent
        BY <3>2, ElementOfSeq DEF IsCleared, IsTrade
      <4>2. nt[i].value \in Nat /\ nt[i].value <= a
        BY <4>1, EventTypes DEF Past
      <4> QED BY <1>4, <4>2
    <3> QED BY <1>3, <3>1, <3>2
  <2> QED BY <1>1, <2>1 DEF Cleared
<1> QED BY <1>6, <1>7, <1>8 DEF Flows

LEMMA PrintStep ==
    ASSUME IInv, engine = "running", NEW lines, NEW c \in Cmd, Printed(lines, c), PutOut(lines),
           Answered < c, Answered' \in Nat, Answered <= Answered', lines # <<>> => c <= Answered',
           stdin' \in Seq([kind : {"order", "clear"}, cmd : Cmd]), Queue',
           engine' \in {"running", "exited"},
           engine' = "running" =>
               \A i \in DOMAIN lines : lines[i].kind = "TRADE" =>
                   \E m \in DOMAIN lines : lines[m] = Latency(c),
           engine_book' = IF \E i \in DOMAIN lines : lines[i].kind = "BOOK" THEN c ELSE engine_book
    PROVE  IInv'
<1> DEFINE N == InAnswer(lines)
<1>1. /\ Types /\ Shape /\ stdout' = stdout \o Halves(lines) /\ bridge' = bridge /\ commands' = commands
      /\ pending' = pending /\ net' = net /\ connected' = connected /\ page' = page
      /\ cleared' = cleared /\ cut' = cut /\ heard' = heard /\ missed' = missed
  BY DEF IInv, PutOut
<1>2. /\ net \in Seq(NetEvent) /\ pending \in Seq(Trade) /\ page.trades \in Seq(SentTrade)
      /\ Unread \in SUBSET Line /\ Answered \in Nat /\ engine_book \in Nat /\ missed \in Nat
      /\ page.book \in Nat /\ cleared \in Nat /\ c \in Nat
  BY <1>1, PartTypes DEF Cmd
<1>3. /\ lines \in Seq(Line)
      /\ \A l \in N : l \in Line /\ l.cmd = c /\ Place(l).cmd = c
      /\ \A i \in DOMAIN lines : lines[i] \in N
  <2>1. lines \in Seq(Line) /\ \A i \in DOMAIN lines : lines[i] \in Line /\ lines[i].cmd = c
    BY ElementOfSeq DEF Printed
  <2> QED BY <2>1, LineTypes DEF InAnswer
<1>4. stdout' \in Seq(HalfLine) /\ Shape' /\ Unread' = Unread \cup N
  <2>1. ASSUME NEW l \in Unread, NEW i \in DOMAIN lines PROVE Before(l, lines[i])
    <3>1. l.cmd \in Nat /\ Place(l).cmd = l.cmd /\ l.cmd <= Answered
      BY <1>2, LineTypes DEF IInv, Past
    <3>2. Place(lines[i]).cmd = c
      BY <1>3
    <3>3. l.cmd < c
      BY <1>2, <3>1
    <3> QED BY <3>1, <3>2, <3>3 DEF Before, Earlier
  <2> QED BY <1>1, <2>1, Appended
<1>5. N # {} => lines # <<>>
  BY DEF InAnswer
<1>6. Flows(page.trades, cleared, net, pending, Unread, cut)'
  <2>1. Flows(page.trades, cleared, net, pending, Unread \cup N, cut)
    <3>1. /\ Flows(page.trades, cleared, net, pending, Unread, cut)
          /\ Past(page.trades, cleared, net, pending, Unread, Answered)
          /\ \A i \in DOMAIN pending : pending[i].cmd \in cut \/ Latency(pending[i].cmd) \in Unread
          /\ \A t \in Unread : t.kind = "TRADE" => Latency(t.cmd) \in Unread
      BY DEF IInv, Answering
    <3> QED BY <1>2, <3>1, FlowsPrint
  <2> QED BY <1>1, <1>4, <2>1
<1>7. Answering(pending, Unread, cut)'
  <2>1. ASSUME engine' = "running", NEW l \in N, l.kind = "TRADE" PROVE Latency(l.cmd) \in N
    <3>1. PICK i \in DOMAIN lines : l = lines[i]
      BY DEF InAnswer
    <3>2. PICK m \in DOMAIN lines : lines[m] = Latency(c)
      BY <2>1, <3>1
    <3> QED BY <1>3, <3>2
  <2>2. /\ \A i \in DOMAIN pending : pending[i].cmd \in cut \/ Latency(pending[i].cmd) \in Unread
        /\ \A t \in Unread : t.kind = "TRADE" => Latency(t.cmd) \in Unread
    BY DEF IInv, Answering
  <2> HIDE DEF N
  <2> QED BY <1>1, <1>4, <2>1, <2>2 DEF Answering
<1>8. Past(page.trades, cleared, net, pending, Unread, Answered)'
  <2>1. Begins(net, net)
    BY DEF Begins
  <2>2. Past(page.trades, cleared, net, pending, Unread, Answered')
    BY <1>2, <2>1, PastLater DEF IInv
  <2>3. \A l \in N : l.cmd <= Answered'
    BY <1>3, <1>5
  <2> HIDE DEF N
  <2> QED BY <1>1, <1>4, <2>2, <2>3 DEF Past
<1>9. /\ engine_book' \in Nat /\ engine_book <= engine_book' /\ engine_book' <= Answered'
      /\ engine_book <= Answered /\ page.book <= engine_book /\ missed <= engine_book
      /\ \A l \in N : l.kind = "BOOK" => engine_book' = c
      /\ engine_book' # engine_book => engine_book' = c /\ PlainLine("BOOK", c) \in N
  <2>1. engine_book <= Answered /\ page.book <= engine_book /\ missed <= engine_book
    BY DEF IInv, LastBook
  <2>2. ASSUME NEW i \in DOMAIN lines, lines[i].kind = "BOOK"
        PROVE  engine_book' = c /\ PlainLine("BOOK", c) \in N /\ c <= Answered'
    <3>1. lines[i] \in Line /\ lines[i].cmd = c /\ lines[i] \in N
      BY <1>3
    <3>2. lines[i] = PlainLine("BOOK", c)
      BY <2>2, <3>1, LineTypes
    <3>3. lines # <<>>
      BY <1>3, <1>5, <3>1
    <3> QED BY <2>2, <3>1, <3>2, <3>3
  <2>3. \A l \in N : l.kind = "BOOK" => engine_book' = c
    BY <2>2 DEF InAnswer
  <2> HIDE DEF N
  <2>4. CASE \E i \in DOMAIN lines : lines[i].kind = "BOOK"
    <3>1. engine_book' = c /\ PlainLine("BOOK", c) \in N /\ c <= Answered'
      BY <2>2, <2>4
    <3> QED BY <1>2, <2>1, <2>3, <3>1
  <2>5. CASE ~\E i \in DOMAIN lines : lines[i].kind = "BOOK"
    BY <1>2, <2>1, <2>3, <2>5
  <2> QED BY <2>4, <2>5
<1> HIDE DEF N
<1>10. BooksOrdered(page.book, net, Unread, engine_book)'
  <2>1. BooksOrdered(page.book, net, Unread, engine_book)
    BY DEF IInv
  <2>2. \A i \in DOMAIN net : IsBook(net[i]) => net[i].value \in Nat
    <3>1. \A i \in DOMAIN net : net[i] \in NetEvent
      BY <1>2, ElementOfSeq
    <3> QED BY <3>1, EventTypes DEF IsBook, IsTrade
  <2>3. \A i \in DOMAIN net : IsBook(net[i]) =>
            net[i].value <= engine_book' /\ net[i].value < c
    <3>1. ASSUME NEW i \in DOMAIN net, IsBook(net[i])
          PROVE  net[i].value <= engine_book' /\ net[i].value < c
      <4>1. net[i].value \in Nat /\ net[i].value <= engine_book
        BY <2>1, <2>2, <3>1 DEF BooksOrdered
      <4>2. \A x \in Nat : x <= engine_book => x <= engine_book' /\ x < c
        BY <1>2, <1>9
      <4> QED BY <4>1, <4>2
    <3> QED BY <3>1
  <2>4. \A l \in Unread : l.kind = "BOOK" => l.cmd <= engine_book'
    <3>1. \A l \in Unread : l.cmd \in Nat
      BY <1>2, LineTypes
    <3> QED BY <1>2, <1>9, <2>1, <3>1 DEF BooksOrdered
  <2>5. \A l \in N : l.kind = "BOOK" =>
            /\ l.cmd <= engine_book' /\ page.book < l.cmd
            /\ \A i \in DOMAIN net : IsBook(net[i]) => net[i].value < l.cmd
    <3>1. page.book < c
      BY <1>2, <1>9
    <3>2. \A l \in N : l.kind = "BOOK" => l.cmd = c /\ c <= engine_book'
      BY <1>2, <1>3, <1>9
    <3> QED BY <2>3, <3>1, <3>2
  <2> QED BY <1>1, <1>4, <2>1, <2>3, <2>4, <2>5 DEF BooksOrdered
<1>11. LastBook'
  <2>1. page.book <= engine_book' /\ missed <= engine_book'
    BY <1>2, <1>9
  <2>2. bridge /\ engine_book' # NoCommand =>
            \/ OnItsWay(net, Unread \cup N, engine_book') \/ page.book = engine_book'
            \/ missed = engine_book'
    <3>1. CASE engine_book' = engine_book
      BY <3>1 DEF IInv, LastBook, OnItsWay
    <3>2. CASE engine_book' # engine_book
      BY <1>9, <3>2 DEF OnItsWay
    <3> QED BY <3>1, <3>2
  <2> QED BY <1>1, <1>4, <1>9, <2>1, <2>2 DEF LastBook
<1>12. Types'
  BY <1>1, <1>4, <1>9 DEF Types
<1>13. Apart'
  BY <1>1 DEF IInv, Apart
<1>14. HeardInTime'
  <2>1. /\ Hears(page.trades, net, pending, Unread, heard, cut)
        /\ heard \in SUBSET Nat /\ \A d \in heard : d <= Answered
    BY DEF IInv, HeardInTime, Hears
  <2>2. \A d \in heard : d < c /\ d <= Answered'
    BY <1>2, <2>1
  <2>3. Behind(pending, Unread \cup N, heard)
    BY <1>3, <2>1, <2>2 DEF Hears, Behind
  <2>4. Hears(page.trades, net, pending, Unread \cup N, heard, cut)
    BY <2>1, <2>3 DEF Hears
  <2> QED BY <1>1, <1>4, <2>2, <2>4 DEF HeardInTime
<1> QED BY <1>4, <1>6, <1>7, <1>8, <1>10, <1>11, <1>12, <1>13, <1>14 DEF IInv

LEMMA TradePlace ==
    ASSUME NEW c, NEW i
    PROVE  /\ TradeLine(c, i).kind = "TRADE" /\ TradeLine(c, i).cmd = c
           /\ Place(TradeLine(c, i)).cmd = c /\ Place(TradeLine(c, i)).k = i
BY DEF TradeLine, Place, Rank

LEMMA PlainPlace ==
    ASSUME NEW c, NEW kind \in {"BOOK", "LATENCY", "CLEAR_ACK"}
    PROVE  /\ PlainLine(kind, c).kind = kind /\ PlainLine(kind, c).cmd = c
           /\ Place(PlainLine(kind, c)).cmd = c
           /\ Place(PlainLine(kind, c)).k = IF kind = "BOOK" THEN MaxTrades + 1 ELSE MaxTrades + 2
BY DEF PlainLine, Place, Rank, LastRank

(* What the engine prints for a command.                                      *)
LEMMA OrderPrinted ==
    ASSUME NEW c \in Cmd, NEW n \in 0 .. MaxTrades
    PROVE  LET lines == OrderLines(c, n)
           IN  /\ Printed(lines, c) /\ Len(lines) = n + 2
               /\ lines[n + 1].kind = "BOOK" /\ lines[n + 2] = Latency(c)
               /\ n + 1 \in DOMAIN lines /\ n + 2 \in DOMAIN lines
               /\ \A i \in DOMAIN lines : lines[i].kind = "BOOK" => i = n + 1
               /\ \A i \in DOMAIN lines : Ends(lines[i]) => i = n + 2
<1> DEFINE lines == OrderLines(c, n)
           trades == [i \in 1 .. n |-> TradeLine(c, i)]
           last == <<PlainLine("BOOK", c), PlainLine("LATENCY", c)>>
<1>1. n \in Nat /\ n <= MaxTrades /\ MaxTrades \in Nat /\ c \in Nat
  BY BoundsAssumption DEF Cmd
<1>2. \A i \in 1 .. n : TradeLine(c, i) \in Line
  BY <1>1 DEF TradeLine, Line
<1>3. PlainLine("BOOK", c) \in Line /\ PlainLine("LATENCY", c) \in Line
  BY DEF PlainLine, Line
<1>4. trades \in Seq(Line) /\ Len(trades) = n
  <2>1. trades \in [1 .. n -> Line]
    <3> HIDE DEF Line
    <3> QED BY <1>2
  <2> HIDE DEF Line, trades
  <2>2. trades \in Seq(Line)
    BY <1>1, <2>1
  <2> QED BY <1>1, <2>1, <2>2
<1>5. last \in Seq(Line) /\ Len(last) = 2 /\ last[1] = PlainLine("BOOK", c)
      /\ last[2] = PlainLine("LATENCY", c)
  <2> HIDE DEF Line
  <2> QED BY <1>3
<1>6. \A i \in 1 .. n : trades[i] = TradeLine(c, i)
  OBVIOUS
<1>7. lines = trades \o last
  BY DEF OrderLines
<1> HIDE DEF lines, trades, last
<1>8. /\ lines \in Seq(Line) /\ Len(lines) = Len(trades) + Len(last)
      /\ \A i \in 1 .. Len(trades) + Len(last) :
            lines[i] = IF i <= Len(trades) THEN trades[i] ELSE last[i - Len(trades)]
  BY <1>4, <1>5, <1>7, ConcatProperties, Zenon
<1>9. lines \in Seq(Line) /\ Len(lines) = n + 2 /\ DOMAIN lines = 1 .. n + 2
  <2>1. DOMAIN lines = 1 .. Len(lines)
    BY <1>8, LenProperties, Zenon
  <2> QED BY <1>4, <1>5, <1>8, <2>1
<1>10. \A i \in 1 .. n : i \in 1 .. n + 2 /\ lines[i] = TradeLine(c, i)
  BY <1>1, <1>4, <1>5, <1>6, <1>8
<1>11. lines[n + 1] = PlainLine("BOOK", c) /\ n + 1 \in 1 .. n + 2
  <2>1. n + 1 \in 1 .. n + 2 /\ ~(n + 1 <= n) /\ (n + 1) - n = 1
    BY <1>1
  <2> QED BY <1>4, <1>5, <1>8, <2>1
<1>12. lines[n + 2] = PlainLine("LATENCY", c) /\ n + 2 \in 1 .. n + 2
  <2>1. n + 2 \in 1 .. n + 2 /\ ~(n + 2 <= n) /\ (n + 2) - n = 2
    BY <1>1
  <2> QED BY <1>4, <1>5, <1>8, <2>1
<1>13. \A i \in 1 .. n + 2 : i \in 1 .. n \/ i = n + 1 \/ i = n + 2
  BY <1>1
<1>14. /\ \A i \in 1 .. n : /\ lines[i].kind = "TRADE" /\ lines[i].cmd = c
                            /\ Place(lines[i]).cmd = c /\ Place(lines[i]).k = i
       /\ lines[n + 1].kind = "BOOK" /\ lines[n + 1].cmd = c
       /\ Place(lines[n + 1]).cmd = c /\ Place(lines[n + 1]).k = MaxTrades + 1
       /\ lines[n + 2].kind = "LATENCY" /\ lines[n + 2].cmd = c
       /\ Place(lines[n + 2]).cmd = c /\ Place(lines[n + 2]).k = MaxTrades + 2
  BY <1>10, <1>11, <1>12, TradePlace, PlainPlace
<1>15. \A i, j \in 1 .. n + 2 : i < j => Before(lines[i], lines[j])
  <2>1. ASSUME NEW i \in 1 .. n + 2, NEW j \in 1 .. n + 2, i < j
        PROVE  /\ Place(lines[i]).cmd = c /\ Place(lines[j]).cmd = c
               /\ Place(lines[i]).k < Place(lines[j]).k
    <3>1. CASE j \in 1 .. n
      BY <1>1, <1>14, <2>1, <3>1
    <3>2. CASE j = n + 1
      <4>1. i \in 1 .. n
        BY <1>1, <2>1, <3>2
      <4> QED BY <1>1, <1>14, <3>2, <4>1
    <3>3. CASE j = n + 2
      <4>1. i \in 1 .. n \/ i = n + 1
        BY <1>1, <2>1, <3>3
      <4> QED BY <1>1, <1>14, <3>3, <4>1
    <3> QED BY <1>13, <3>1, <3>2, <3>3
  <2> QED BY <2>1 DEF Before, Earlier
<1>16. /\ \A i \in 1 .. n + 2 : lines[i].cmd = c
       /\ \A i \in 1 .. n + 2 : lines[i].kind = "BOOK" => i = n + 1
       /\ \A i \in 1 .. n + 2 : Ends(lines[i]) => i = n + 2
  BY <1>13, <1>14 DEF Ends
<1>17. Printed(lines, c)
  BY <1>9, <1>12, <1>15, <1>16 DEF Printed, Latency
<1> QED BY <1>9, <1>11, <1>12, <1>14, <1>16, <1>17 DEF lines, Latency

LEMMA ClearPrinted ==
    ASSUME NEW c \in Cmd
    PROVE  LET lines == ClearLines(c)
           IN  /\ Printed(lines, c) /\ Len(lines) = 2 /\ DOMAIN lines = {1, 2}
               /\ lines[1].kind = "BOOK" /\ lines[2].kind = "CLEAR_ACK"
<1> DEFINE lines == ClearLines(c)
<1>1. PlainLine("BOOK", c) \in Line /\ PlainLine("CLEAR_ACK", c) \in Line
  BY DEF PlainLine, Line
<1>2. /\ lines \in Seq(Line) /\ Len(lines) = 2 /\ DOMAIN lines = {1, 2}
      /\ lines[1] = PlainLine("BOOK", c) /\ lines[2] = PlainLine("CLEAR_ACK", c)
  <2> HIDE DEF Line
  <2> QED BY <1>1 DEF ClearLines
<1> HIDE DEF lines
<1>3. /\ lines[1].kind = "BOOK" /\ lines[1].cmd = c /\ Place(lines[1]).cmd = c
      /\ Place(lines[1]).k = MaxTrades + 1
      /\ lines[2].kind = "CLEAR_ACK" /\ lines[2].cmd = c /\ Place(lines[2]).cmd = c
      /\ Place(lines[2]).k = MaxTrades + 2
  BY <1>2 DEF PlainLine, Place, Rank, LastRank
<1>4. Before(lines[1], lines[2])
  BY <1>3, BoundsAssumption DEF Before, Earlier
<1>5. \A i, j \in {1, 2} : i < j => i = 1 /\ j = 2
  OBVIOUS
<1>6. Printed(lines, c)
  BY <1>2, <1>3, <1>4, <1>5 DEF Printed
<1> QED BY <1>2, <1>3, <1>6 DEF lines

(* Of a dying engine's answer, some lines may come out.                       *)
LEMMA PrefixPrinted ==
    ASSUME NEW lines, NEW c, Printed(lines, c), NEW k \in 0 .. Len(lines),
           \/ \A i \in DOMAIN lines : Ends(lines[i]) => lines[i] = Latency(c)
           \/ \A i \in DOMAIN lines : lines[i].kind # "TRADE"
    PROVE  /\ Printed(SubSeq(lines, 1, k), c) /\ DOMAIN SubSeq(lines, 1, k) = 1 .. k
           /\ \A i \in 1 .. k : i \in DOMAIN lines /\ SubSeq(lines, 1, k)[i] = lines[i]
<1> DEFINE s == SubSeq(lines, 1, k)
<1>1. lines \in Seq(Line)
  BY DEF Printed
<1>2. s \in Seq(Line) /\ DOMAIN s = 1 .. k /\ \A i \in 1 .. k : i \in DOMAIN lines /\ s[i] = lines[i]
  <2> HIDE DEF Line
  <2> QED BY <1>1
<1> HIDE DEF s
<1>3. \A i, j \in DOMAIN s : i < j => Before(s[i], s[j])
  BY <1>2 DEF Printed
<1>4. ASSUME NEW i \in DOMAIN s, NEW j \in DOMAIN s, s[i].kind = "TRADE", Ends(s[j])
      PROVE  s[j] = Latency(c)
  BY <1>2, <1>4
<1>5. \A i \in DOMAIN s : s[i].cmd = c
  BY <1>2 DEF Printed
<1>6. Printed(s, c)
  BY <1>2, <1>3, <1>4, <1>5 DEF Printed
<1> QED BY <1>2, <1>6 DEF s

(* The command that the engine reads, and those that wait after it.           *)
LEMMA FirstCommand ==
    ASSUME IInv, stdin # <<>>
    PROVE  /\ stdin[1].cmd \in Cmd /\ stdin[1].cmd \in Nat /\ stdin[1].kind \in {"order", "clear"}
           /\ Answered = stdin[1].cmd - 1 /\ stdin[1].cmd <= commands /\ commands \in Nat
<1> DEFINE Request == [kind : {"order", "clear"}, cmd : Cmd]
<1>1. stdin \in Seq(Request) /\ commands \in Nat
  BY DEF IInv, Types
<1> HIDE DEF Request
<1>2. 1 \in DOMAIN stdin
  BY <1>1
<1>3. stdin[1] \in Request
  BY <1>1, <1>2, ElementOfSeq
<1>4. stdin[1].cmd <= commands
  BY <1>2 DEF IInv, Queue
<1> QED BY <1>1, <1>3, <1>4 DEF Request, Cmd, Answered

LEMMA NextCommand ==
    ASSUME IInv, stdin # <<>>, stdin' = Tail(stdin), commands' = commands
    PROVE  /\ stdin' \in Seq([kind : {"order", "clear"}, cmd : Cmd]) /\ Queue'
           /\ Answered' \in Nat /\ stdin[1].cmd <= Answered'
<1> DEFINE Request == [kind : {"order", "clear"}, cmd : Cmd]
<1>1. stdin \in Seq(Request)
  BY DEF IInv, Types
<1>2. /\ stdin[1].cmd \in Nat /\ stdin[1].cmd <= commands /\ commands \in Nat
  BY FirstCommand
<1>3. \A r \in Request : r.cmd \in Nat
  BY DEF Cmd
<1> HIDE DEF Request
<1>4. /\ stdin' \in Seq(Request) /\ Len(stdin) \in Nat /\ DOMAIN stdin = 1 .. Len(stdin)
      /\ DOMAIN stdin' = 1 .. Len(stdin) - 1 /\ \A i \in DOMAIN stdin' : stdin'[i] = stdin[i + 1]
  BY <1>1
<1>5. \A i \in DOMAIN stdin' : i + 1 \in DOMAIN stdin
  BY <1>4
<1>6. Queue'
  <2>1. \A i, j \in DOMAIN stdin' : i < j => stdin'[i].cmd < stdin'[j].cmd
    <3>1. ASSUME NEW i \in DOMAIN stdin', NEW j \in DOMAIN stdin', i < j
          PROVE  stdin'[i].cmd < stdin'[j].cmd
      <4>1. i + 1 < j + 1
        BY <1>4, <3>1
      <4>2. stdin[i + 1].cmd < stdin[j + 1].cmd
        BY <1>5, <4>1 DEF IInv, Queue
      <4> QED BY <1>4, <4>2
    <3> QED BY <3>1
  <2>2. \A i \in DOMAIN stdin' : stdin'[i].cmd <= commands'
    BY <1>4, <1>5 DEF IInv, Queue
  <2> QED BY <2>1, <2>2 DEF Queue
<1>7. ASSUME stdin' = <<>> PROVE Answered' \in Nat /\ stdin[1].cmd <= Answered'
  BY <1>2, <1>7 DEF Answered
<1>8. ASSUME stdin' # <<>> PROVE Answered' \in Nat /\ stdin[1].cmd <= Answered'
  <2>1. 1 \in DOMAIN stdin' /\ 2 \in DOMAIN stdin /\ 1 \in DOMAIN stdin /\ stdin'[1] = stdin[2]
    <3>1. 1 \in DOMAIN stdin' /\ 1 + 1 = 2
      BY <1>4, <1>8
    <3>2. 1 + 1 \in DOMAIN stdin /\ stdin'[1] = stdin[1 + 1]
      BY <1>4, <1>5, <3>1
    <3> QED BY <1>4, <3>1, <3>2
  <2>2. stdin[1].cmd < stdin[2].cmd /\ stdin[2].cmd \in Nat
    <3>1. stdin[2] \in Request
      BY <1>1, <1>4, <2>1, ElementOfSeq
    <3> QED BY <1>3, <2>1, <3>1 DEF IInv, Queue
  <2>3. Answered' = stdin[2].cmd - 1
    BY <1>8, <2>1 DEF Answered
  <2>4. \A x, y \in Nat : x < y => y - 1 \in Nat /\ x <= y - 1
    OBVIOUS
  <2> QED BY <1>2, <2>2, <2>3, <2>4
<1> QED BY <1>4, <1>6, <1>7, <1>8 DEF Request

LEMMA EmptyPrinted == \A c : Printed(<<>>, c)
<1>1. <<>> \in Seq(Line)
  <2> HIDE DEF Line
  <2> QED OBVIOUS
<1>2. DOMAIN <<>> = {}
  OBVIOUS
<1> QED BY <1>1, <1>2 DEF Printed

(* The engine answers a command, or refuses it.                               *)
LEMMA AnswerStep ==
    ASSUME IInv, NEW kind, Reads(kind), NEW lines, Answer(lines), Printed(lines, stdin[1].cmd),
           lines # <<>> => \E i \in DOMAIN lines : lines[i].kind = "BOOK",
           \A i \in DOMAIN lines : lines[i].kind = "TRADE" =>
               \E m \in DOMAIN lines : lines[m] = Latency(stdin[1].cmd)
    PROVE  IInv'
<1>1. /\ PutOut(lines) /\ stdin' = Tail(stdin) /\ engine' = engine /\ commands' = commands
      /\ engine_book' = IF lines = <<>> THEN engine_book ELSE stdin[1].cmd
      /\ engine = "running" /\ stdin # <<>>
  BY DEF Answer, PutOut, Reads
<1>2. /\ stdin[1].cmd \in Cmd /\ stdin[1].cmd \in Nat /\ Answered = stdin[1].cmd - 1
  BY <1>1, FirstCommand
<1>3. /\ stdin' \in Seq([kind : {"order", "clear"}, cmd : Cmd]) /\ Queue'
      /\ Answered' \in Nat /\ stdin[1].cmd <= Answered'
  BY <1>1, NextCommand
<1>4. Answered < stdin[1].cmd /\ Answered <= Answered'
  BY <1>2, <1>3
<1>5. engine_book' = IF \E i \in DOMAIN lines : lines[i].kind = "BOOK" THEN stdin[1].cmd ELSE engine_book
  <2>1. lines = <<>> => ~\E i \in DOMAIN lines : lines[i].kind = "BOOK"
    OBVIOUS
  <2> QED BY <1>1, <2>1
<1> QED BY <1>1, <1>2, <1>3, <1>4, <1>5, PrintStep

LEMMA EngineStepKeeps ==
    ASSUME IInv, EngineStep
    PROVE  IInv'
<1>1. ASSUME NEW n \in 0 .. MaxTrades, MatchOrder(n) PROVE IInv'
  <2> DEFINE lines == OrderLines(stdin[1].cmd, n)
  <2>1. Reads("order") /\ Answer(lines) /\ stdin[1].cmd \in Cmd
    BY <1>1, FirstCommand DEF MatchOrder, Reads
  <2>2. /\ Printed(lines, stdin[1].cmd) /\ n + 1 \in DOMAIN lines /\ lines[n + 1].kind = "BOOK"
        /\ n + 2 \in DOMAIN lines /\ lines[n + 2] = Latency(stdin[1].cmd)
    BY <2>1, OrderPrinted
  <2> HIDE DEF lines
  <2>3. \E i \in DOMAIN lines : lines[i].kind = "BOOK"
    BY <2>2
  <2>4. \E m \in DOMAIN lines : lines[m] = Latency(stdin[1].cmd)
    BY <2>2
  <2> QED BY <2>1, <2>2, <2>3, <2>4, AnswerStep
<1>2. ASSUME RefuseOrder PROVE IInv'
  <2>1. Reads("order") /\ Answer(<<>>)
    BY <1>2 DEF RefuseOrder
  <2>2. DOMAIN <<>> = {}
    OBVIOUS
  <2> QED BY <2>1, <2>2, EmptyPrinted, AnswerStep
<1>3. ASSUME ClearBook PROVE IInv'
  <2> DEFINE lines == ClearLines(stdin[1].cmd)
  <2>1. Reads("clear") /\ Answer(lines) /\ stdin[1].cmd \in Cmd
    BY <1>3, FirstCommand DEF ClearBook, Reads
  <2>2. /\ Printed(lines, stdin[1].cmd) /\ DOMAIN lines = {1, 2}
        /\ lines[1].kind = "BOOK" /\ lines[2].kind = "CLEAR_ACK"
    BY <2>1, ClearPrinted
  <2> HIDE DEF lines
  <2>3. \E i \in DOMAIN lines : lines[i].kind = "BOOK"
    BY <2>2
  <2>4. \A i \in DOMAIN lines : lines[i].kind # "TRADE"
    BY <2>2
  <2> QED BY <2>1, <2>2, <2>3, <2>4, AnswerStep
<1> QED BY <1>1, <1>2, <1>3 DEF EngineStep

(* The engine dies, with nothing or something of an answer printed.           *)
LEMMA EngineExitsStep ==
    ASSUME IInv, EngineExits
    PROVE  IInv'
<1>1. engine = "running" /\ engine' = "exited" /\ stdin' = <<>>
  BY DEF EngineExits
<1>2. PICK lines \in Answers : \E k \in 0 .. Len(lines) :
           /\ PutOut(SubSeq(lines, 1, k))
           /\ engine_book' = IF \E i \in 1 .. k : lines[i].kind = "BOOK" THEN stdin[1].cmd
                                                                       ELSE engine_book
  BY DEF EngineExits
<1>3. PICK k \in 0 .. Len(lines) :
           /\ PutOut(SubSeq(lines, 1, k))
           /\ engine_book' = IF \E i \in 1 .. k : lines[i].kind = "BOOK" THEN stdin[1].cmd
                                                                       ELSE engine_book
  BY <1>2
<1> DEFINE s == SubSeq(lines, 1, k)
<1>4. /\ commands \in Nat /\ commands' = commands /\ Answered \in Nat
      /\ <<>> \in Seq([kind : {"order", "clear"}, cmd : Cmd])
  <2>1. \A S : <<>> \in Seq(S)
    OBVIOUS
  <2> QED BY <1>3, <2>1, AnsweredType DEF IInv, Types, PutOut
<1>5. Answered' = commands /\ Queue'
  BY <1>1, <1>4 DEF Answered, Queue
<1>6. ASSUME NEW c \in Cmd, Printed(s, c), DOMAIN s = 1 .. k, \A i \in 1 .. k : s[i] = lines[i],
             Answered < c, Answered <= commands, s # <<>> => c <= commands,
             engine_book' = IF \E i \in 1 .. k : lines[i].kind = "BOOK" THEN c ELSE engine_book
      PROVE  IInv'
  <2> HIDE DEF s
  <2>1. engine_book' = IF \E i \in DOMAIN s : s[i].kind = "BOOK" THEN c ELSE engine_book
    BY <1>6
  <2>2. Answered' \in Nat /\ Answered <= Answered' /\ (s # <<>> => c <= Answered')
    BY <1>4, <1>5, <1>6
  <2>3. PutOut(s)
    BY <1>3 DEF s
  <2>4. /\ engine' \in {"running", "exited"} /\ engine' # "running"
        /\ stdin' \in Seq([kind : {"order", "clear"}, cmd : Cmd])
    BY <1>1, <1>4
  <2> QED BY <1>1, <1>5, <1>6, <2>1, <2>2, <2>3, <2>4, PrintStep
<1>7. CASE stdin = <<>>
  <2>1. lines = <<>>
    BY <1>7 DEF Answers
  <2>2. k = 0 /\ s = <<>> /\ Answered = commands
    BY <1>7, <2>1 DEF Answered
  <2>3. commands + 1 \in Cmd /\ Answered < commands + 1 /\ Answered <= commands
    BY <1>4, <2>2 DEF Cmd
  <2>4. engine_book' = IF \E i \in 1 .. k : lines[i].kind = "BOOK" THEN commands + 1 ELSE engine_book
    BY <1>3, <2>2
  <2>5. DOMAIN s = 1 .. k /\ \A i \in 1 .. k : s[i] = lines[i]
    BY <2>2
  <2> HIDE DEF s
  <2> QED BY <1>6, <2>2, <2>3, <2>4, <2>5, EmptyPrinted
<1>8. CASE stdin # <<>>
  <2>1. /\ stdin[1].cmd \in Cmd /\ stdin[1].cmd \in Nat /\ stdin[1].kind \in {"order", "clear"}
        /\ Answered = stdin[1].cmd - 1 /\ stdin[1].cmd <= commands
    BY <1>8, FirstCommand
  <2>2. Answered < stdin[1].cmd /\ Answered <= commands
    BY <1>4, <2>1
  <2>3. /\ Printed(lines, stdin[1].cmd)
        /\ \/ \A i \in DOMAIN lines : Ends(lines[i]) => lines[i] = Latency(stdin[1].cmd)
           \/ \A i \in DOMAIN lines : lines[i].kind # "TRADE"
    <3>1. CASE stdin[1].kind = "order"
      <4>1. PICK n \in 0 .. MaxTrades : lines = OrderLines(stdin[1].cmd, n)
        BY <1>8, <3>1 DEF Answers
      <4> QED BY <2>1, <4>1, OrderPrinted
    <3>2. CASE stdin[1].kind = "clear"
      <4>1. lines = ClearLines(stdin[1].cmd)
        BY <1>8, <3>2 DEF Answers
      <4>2. /\ Printed(lines, stdin[1].cmd) /\ DOMAIN lines = {1, 2}
            /\ lines[1].kind = "BOOK" /\ lines[2].kind = "CLEAR_ACK"
        BY <2>1, <4>1, ClearPrinted
      <4> QED BY <4>2
    <3> QED BY <2>1, <3>1, <3>2
  <2>4. Printed(s, stdin[1].cmd) /\ DOMAIN s = 1 .. k /\ \A i \in 1 .. k : s[i] = lines[i]
    BY <2>3, PrefixPrinted
  <2> HIDE DEF s
  <2> QED BY <1>3, <1>6, <2>1, <2>2, <2>4
<1> QED BY <1>7, <1>8

(* The first event on its way arrives: the rest of them.                      *)
Rest(n2, nt) ==
    /\ nt # <<>>
    /\ \A i \in DOMAIN n2 : i + 1 \in DOMAIN nt /\ n2[i] = nt[i + 1] /\ i \in Nat /\ i >= 1

LEMMA FlowsRest ==
    ASSUME NEW pt \in Seq(SentTrade), NEW cl, NEW nt \in Seq(NetEvent), NEW n2 \in Seq(NetEvent),
           NEW pd \in Seq(Trade), NEW R \in SUBSET Line, NEW ct,
           Flows(pt, cl, nt, pd, R, ct), Rest(n2, nt)
    PROVE  Flows(pt, cl, n2, pd, R, ct)
<1>1. Ordered(pt, nt, pd, R) /\ Timed(pt, nt, pd, R, ct) /\ Cleared(pt, cl, nt, pd, R, ct)
  BY DEF Flows
<1>2. \A i \in DOMAIN n2 : i + 1 \in DOMAIN nt /\ n2[i] = nt[i + 1]
  BY DEF Rest
<1>3. \A i, j \in DOMAIN n2 : i < j => i + 1 < j + 1
  BY DEF Rest
<1>4. Ordered(pt, n2, pd, R)
  <2>1. ASSUME NEW i \in DOMAIN n2, NEW j \in DOMAIN n2, i < j, IsTrade(n2[i]), IsTrade(n2[j])
        PROVE  Earlier(n2[i].value, n2[j].value)
    <3>1. i + 1 < j + 1 /\ IsTrade(nt[i + 1]) /\ IsTrade(nt[j + 1])
      BY <1>2, <1>3, <2>1
    <3>2. Earlier(nt[i + 1].value, nt[j + 1].value)
      BY <1>1, <1>2, <3>1 DEF Ordered
    <3> QED BY <1>2, <3>2
  <2> QED BY <1>1, <1>2, <2>1 DEF Ordered
<1>5. Timed(pt, n2, pd, R, ct)
  BY <1>1, <1>2 DEF Timed
<1>6. Cleared(pt, cl, n2, pd, R, ct)
  <2>1. ASSUME NEW i \in DOMAIN n2, NEW j \in DOMAIN n2, i < j, IsCleared(n2[i]), IsTrade(n2[j])
        PROVE  Since(n2[j].value.cmd, n2[i].value, ct)
    <3>1. i + 1 < j + 1 /\ IsCleared(nt[i + 1]) /\ IsTrade(nt[j + 1])
      BY <1>2, <1>3, <2>1
    <3>2. Since(nt[j + 1].value.cmd, nt[i + 1].value, ct)
      BY <1>1, <1>2, <3>1 DEF Cleared
    <3> QED BY <1>2, <3>2
  <2> QED BY <1>1, <1>2, <2>1 DEF Cleared
<1> QED BY <1>4, <1>5, <1>6 DEF Flows

(* It is a trade, and the page shows it before the others.                    *)
FirstThen(p2, e, pt) ==
    \A i \in DOMAIN p2 : i \in Nat /\ i >= 1
                         /\ (i = 1 => p2[i] = e)
                         /\ (i # 1 => i - 1 \in DOMAIN pt /\ p2[i] = pt[i - 1])

LEMMA FlowsShow ==
    ASSUME NEW pt \in Seq(SentTrade), NEW p2 \in Seq(SentTrade), NEW cl, NEW nt \in Seq(NetEvent),
           NEW n2 \in Seq(NetEvent), NEW pd \in Seq(Trade), NEW R \in SUBSET Line, NEW ct,
           Flows(pt, cl, nt, pd, R, ct), Rest(n2, nt), IsTrade(nt[1]), FirstThen(p2, nt[1], pt)
    PROVE  Flows(p2, cl, n2, pd, R, ct)
<1> DEFINE e == nt[1]
<1>1. Ordered(pt, nt, pd, R) /\ Timed(pt, nt, pd, R, ct) /\ Cleared(pt, cl, nt, pd, R, ct)
  BY DEF Flows
<1>2. Flows(pt, cl, n2, pd, R, ct)
  BY FlowsRest
<1>3. Ordered(pt, n2, pd, R) /\ Timed(pt, n2, pd, R, ct) /\ Cleared(pt, cl, n2, pd, R, ct)
  BY <1>2 DEF Flows
<1>4. 1 \in DOMAIN nt /\ IsTrade(e)
  BY DEF Rest
<1>5. \A i \in DOMAIN n2 : i + 1 \in DOMAIN nt /\ n2[i] = nt[i + 1] /\ 1 < i + 1
  BY DEF Rest
<1>6. /\ \A j \in DOMAIN pt : Earlier(pt[j].value, e.value)
      /\ \A j \in DOMAIN n2 : IsTrade(n2[j]) => Earlier(e.value, n2[j].value)
      /\ \A j \in DOMAIN pd : Earlier(e.value, pd[j])
      /\ \A l \in R : Earlier(e.value, Place(l))
  BY <1>1, <1>4, <1>5 DEF Ordered
<1>7. OwnLatency(e, ct) /\ Since(e.value.cmd, cl, ct)
  BY <1>1, <1>4 DEF Timed, Cleared
<1>8. \A i \in DOMAIN p2 : p2[i] = e \/ \E j \in DOMAIN pt : p2[i] = pt[j]
  BY DEF FirstThen
<1> HIDE DEF e
<1>9. \A i, j \in DOMAIN p2 : i < j => Earlier(p2[j].value, p2[i].value)
  <2>1. ASSUME NEW i \in DOMAIN p2, NEW j \in DOMAIN p2, i < j
        PROVE  Earlier(p2[j].value, p2[i].value)
    <3>1. j # 1 /\ j - 1 \in DOMAIN pt /\ p2[j] = pt[j - 1]
      BY <2>1 DEF FirstThen
    <3>2. CASE i = 1
      <4>1. p2[i] = e
        BY <3>2 DEF FirstThen, e
      <4> QED BY <1>6, <3>1, <4>1
    <3>3. CASE i # 1
      <4>1. i - 1 \in DOMAIN pt /\ p2[i] = pt[i - 1] /\ i - 1 < j - 1
        BY <2>1, <3>3 DEF FirstThen
      <4> QED BY <1>1, <3>1, <4>1 DEF Ordered
    <3> QED BY <3>2, <3>3
  <2> QED BY <2>1
<1>10. Ordered(p2, n2, pd, R)
  BY <1>3, <1>6, <1>8, <1>9 DEF Ordered
<1>11. Timed(p2, n2, pd, R, ct)
  BY <1>3, <1>7, <1>8 DEF Timed
<1>12. Cleared(p2, cl, n2, pd, R, ct)
  BY <1>3, <1>7, <1>8 DEF Cleared
<1> QED BY <1>10, <1>11, <1>12 DEF Flows

(* It is CLEAR's acknowledgement, and the page drops its trades.              *)
LEMMA FlowsEmptied ==
    ASSUME NEW pt \in Seq(SentTrade), NEW cl, NEW nt \in Seq(NetEvent),
           NEW n2 \in Seq(NetEvent), NEW pd \in Seq(Trade), NEW R \in SUBSET Line, NEW ct,
           Flows(pt, cl, nt, pd, R, ct), Rest(n2, nt), IsCleared(nt[1])
    PROVE  Flows(<<>>, nt[1].value, n2, pd, R, ct)
<1>1. Ordered(pt, nt, pd, R) /\ Timed(pt, nt, pd, R, ct) /\ Cleared(pt, cl, nt, pd, R, ct)
  BY DEF Flows
<1>2. Flows(pt, cl, n2, pd, R, ct)
  BY FlowsRest
<1>3. Ordered(pt, n2, pd, R) /\ Timed(pt, n2, pd, R, ct) /\ Cleared(pt, cl, n2, pd, R, ct)
  BY <1>2 DEF Flows
<1>4. 1 \in DOMAIN nt
  BY DEF Rest
<1>5. \A i \in DOMAIN n2 : i + 1 \in DOMAIN nt /\ n2[i] = nt[i + 1] /\ 1 < i + 1
  BY DEF Rest
<1>6. /\ \A j \in DOMAIN n2 : IsTrade(n2[j]) => Since(n2[j].value.cmd, nt[1].value, ct)
      /\ \A j \in DOMAIN pd : Since(pd[j].cmd, nt[1].value, ct)
      /\ \A l \in R : nt[1].value < l.cmd
  BY <1>1, <1>4, <1>5 DEF Cleared
<1>7. DOMAIN <<>> = {}
  OBVIOUS
<1>8. Ordered(<<>>, n2, pd, R) /\ Timed(<<>>, n2, pd, R, ct)
  BY <1>3, <1>7 DEF Ordered, Timed
<1>9. Cleared(<<>>, nt[1].value, n2, pd, R, ct)
  BY <1>3, <1>6, <1>7 DEF Cleared
<1> QED BY <1>8, <1>9 DEF Flows

(* What the page shows when an event has arrived.                             *)
LEMMA PageHandles ==
    ASSUME NEW p \in [book : Nat, trades : Seq(SentTrade), latency : Nat], NEW e \in NetEvent
    PROVE  /\ HandledBy(p, e) \in [book : Nat, trades : Seq(SentTrade), latency : Nat]
           /\ IsBook(e) => HandledBy(p, e).book = e.value
           /\ ~IsBook(e) => HandledBy(p, e).book = p.book
           /\ IsTrade(e) => FirstThen(HandledBy(p, e).trades, e, p.trades)
           /\ IsCleared(e) => HandledBy(p, e).trades = <<>>
           /\ ~IsTrade(e) /\ ~IsCleared(e) => HandledBy(p, e).trades = p.trades
<1> DEFINE Page == [book : Nat, trades : Seq(SentTrade), latency : Nat]
<1>1. /\ p.trades \in Seq(SentTrade) /\ p.book \in Nat /\ p.latency \in Nat /\ p \in Page
      /\ p = [book |-> p.book, trades |-> p.trades, latency |-> p.latency]
  OBVIOUS
<1>2. <<>> \in Seq(SentTrade)
  OBVIOUS
<1>3. CASE e.ev = "book_update"
  <2>1. e.value \in Nat /\ IsBook(e) /\ ~IsTrade(e) /\ ~IsCleared(e)
    BY <1>3, EventTypes DEF IsBook, IsTrade, IsCleared
  <2>2. HandledBy(p, e) = [p EXCEPT !.book = e.value]
    BY <1>3 DEF HandledBy
  <2> HIDE DEF SentTrade
  <2> QED BY <1>1, <2>1, <2>2
<1>4. CASE e.ev = "latency"
  <2>1. e.value \in Nat /\ ~IsBook(e) /\ ~IsTrade(e) /\ ~IsCleared(e)
    BY <1>4, EventTypes DEF IsBook, IsTrade, IsCleared
  <2>2. HandledBy(p, e) = [p EXCEPT !.latency = e.value]
    BY <1>4 DEF HandledBy
  <2> HIDE DEF SentTrade
  <2> QED BY <1>1, <2>1, <2>2
<1>5. CASE e.ev = "cleared"
  <2>1. ~IsBook(e) /\ ~IsTrade(e) /\ IsCleared(e)
    BY <1>5 DEF IsBook, IsTrade, IsCleared
  <2>2. HandledBy(p, e) = [p EXCEPT !.trades = <<>>, !.latency = 0]
    BY <1>5 DEF HandledBy, NoCommand
  <2>3. HandledBy(p, e) = [book |-> p.book, trades |-> <<>>, latency |-> 0]
    BY <1>1, <2>2
  <2> HIDE DEF SentTrade
  <2> QED BY <1>1, <1>2, <2>1, <2>3
<1>6. CASE e.ev = "trade"
  <2> DEFINE n == Len(p.trades)
             m == IF n < Shown THEN n + 1 ELSE Shown
             all == <<e>> \o p.trades
  <2>1. e \in SentTrade /\ ~IsBook(e) /\ IsTrade(e) /\ ~IsCleared(e)
    BY <1>6, EventTypes DEF IsBook, IsTrade, IsCleared
  <2>2. HandledBy(p, e) = [p EXCEPT !.trades = SubSeq(all, 1, m)]
    BY <1>6 DEF HandledBy
  <2>3. <<e>> \in Seq(SentTrade) /\ Len(<<e>>) = 1 /\ <<e>>[1] = e
    <3> HIDE DEF SentTrade
    <3> QED BY <2>1
  <2>4. n \in Nat /\ m \in Nat /\ m <= n + 1 /\ DOMAIN p.trades = 1 .. n
    <3>1. n \in Nat /\ DOMAIN p.trades = 1 .. n
      <4> HIDE DEF SentTrade
      <4> QED BY <1>1
    <3> HIDE DEF n
    <3> QED BY <3>1, ShownAssumption
  <2>5. /\ all \in Seq(SentTrade) /\ Len(all) = 1 + n
        /\ \A i \in 1 .. 1 + n : all[i] = IF i <= 1 THEN <<e>>[i] ELSE p.trades[i - 1]
    <3>1. /\ all \in Seq(SentTrade) /\ Len(all) = Len(<<e>>) + Len(p.trades)
          /\ \A i \in 1 .. Len(<<e>>) + Len(p.trades) :
                all[i] = IF i <= Len(<<e>>) THEN <<e>>[i] ELSE p.trades[i - Len(<<e>>)]
      BY <1>1, <2>3, ConcatProperties, Zenon
    <3> HIDE DEF all
    <3> QED BY <2>3, <3>1
  <2> HIDE DEF n, m, all
  <2> DEFINE shown == SubSeq(all, 1, m)
  <2>6. shown \in Seq(SentTrade) /\ DOMAIN shown = 1 .. m /\ \A i \in 1 .. m : shown[i] = all[i]
    <3> HIDE DEF SentTrade
    <3> QED BY <2>4, <2>5
  <2> HIDE DEF shown
  <2>7. FirstThen(shown, e, p.trades)
    <3>1. ASSUME NEW i \in DOMAIN shown
          PROVE  /\ i \in Nat /\ i >= 1
                 /\ (i = 1 => shown[i] = e)
                 /\ (i # 1 => i - 1 \in DOMAIN p.trades /\ shown[i] = p.trades[i - 1])
      <4>1. i \in 1 .. 1 + n /\ shown[i] = all[i]
        BY <2>4, <2>6
      <4>2. i = 1 => all[i] = e
        BY <2>3, <2>5, <4>1
      <4>3. i # 1 => ~(i <= 1) /\ i - 1 \in 1 .. n
        BY <2>4, <4>1
      <4> QED BY <2>4, <2>5, <4>1, <4>2, <4>3
    <3> QED BY <3>1 DEF FirstThen
  <2>8. /\ HandledBy(p, e).trades = shown /\ HandledBy(p, e).book = p.book
        /\ HandledBy(p, e) \in Page
    <3> HIDE DEF SentTrade
    <3> QED BY <1>1, <2>2, <2>6 DEF shown
  <2> QED BY <2>1, <2>7, <2>8
<1> QED BY <1>3, <1>4, <1>5, <1>6, EventTypes

LEMMA ReceiveStep ==
    ASSUME IInv, Receive
    PROVE  IInv'
<1> DEFINE e == net[1]
<1>1. /\ net # <<>> /\ net' = Tail(net) /\ page' = HandledBy(page, e)
      /\ cleared' = IF IsCleared(e) THEN e.value ELSE cleared
      /\ engine' = engine /\ bridge' = bridge /\ stdin' = stdin /\ commands' = commands
      /\ engine_book' = engine_book /\ stdout' = stdout /\ pending' = pending
      /\ connected' = connected /\ cut' = cut /\ heard' = heard /\ missed' = missed
  BY DEF Receive, procs, IsCleared
<1>2. Types
  BY DEF IInv
<1>3. /\ net \in Seq(NetEvent) /\ pending \in Seq(Trade) /\ page.trades \in Seq(SentTrade)
      /\ Unread \in SUBSET Line /\ Answered \in Nat /\ engine_book \in Nat /\ missed \in Nat
      /\ page.book \in Nat /\ cleared \in Nat
  BY <1>2, PartTypes
<1>4. /\ net' \in Seq(NetEvent) /\ Len(net) \in Nat /\ DOMAIN net = 1 .. Len(net)
      /\ DOMAIN net' = 1 .. Len(net) - 1 /\ \A i \in DOMAIN net' : net'[i] = net[i + 1]
  <2> HIDE DEF NetEvent
  <2> QED BY <1>1, <1>3
<1>5. Rest(net', net) /\ 1 \in DOMAIN net
  <2>1. \A i \in 1 .. Len(net) - 1 : i + 1 \in 1 .. Len(net) /\ i \in Nat /\ i >= 1
    BY <1>4
  <2>2. 1 \in DOMAIN net
    BY <1>1, <1>3, <1>4
  <2> QED BY <1>1, <1>4, <2>1, <2>2 DEF Rest
<1>6. e \in NetEvent
  BY <1>3, <1>5, ElementOfSeq
<1> HIDE DEF e
<1>7. /\ page' \in [book : Nat, trades : Seq(SentTrade), latency : Nat]
      /\ IsBook(e) => page'.book = e.value
      /\ ~IsBook(e) => page'.book = page.book
      /\ IsTrade(e) => FirstThen(page'.trades, e, page.trades)
      /\ IsCleared(e) => page'.trades = <<>>
      /\ ~IsTrade(e) /\ ~IsCleared(e) => page'.trades = page.trades
  BY <1>1, <1>2, <1>6, PageHandles DEF Types
<1>8. page'.trades \in Seq(SentTrade)
  BY <1>7
<1>9. /\ IsTrade(e) => ~IsBook(e) /\ ~IsCleared(e)
      /\ IsBook(e) => ~IsTrade(e) /\ ~IsCleared(e)
      /\ IsCleared(e) => ~IsTrade(e) /\ ~IsBook(e)
      /\ ~IsTrade(e) => e.value \in Nat
  BY <1>6, EventTypes DEF IsTrade, IsBook, IsCleared
<1>10. Unread' = Unread /\ Answered' = Answered
  BY <1>1 DEF Unread, LinesFrom, Answered
<1>11. Flows(page.trades, cleared, net, pending, Unread, cut)
  BY DEF IInv
<1>12. Flows(page.trades, cleared, net, pending, Unread, cut)'
  <2>1. Flows(page'.trades, cleared', net', pending, Unread, cut)
    <3>1. CASE IsTrade(e)
      <4>1. cleared' = cleared /\ FirstThen(page'.trades, e, page.trades)
        BY <1>1, <1>7, <1>9, <3>1
      <4>2. Flows(page'.trades, cleared, net', pending, Unread, cut)
        BY <1>3, <1>4, <1>5, <1>8, <1>11, <3>1, <4>1, FlowsShow DEF e
      <4> QED BY <4>1, <4>2
    <3>2. CASE IsCleared(e)
      <4>1. cleared' = e.value /\ page'.trades = <<>>
        BY <1>1, <1>7, <3>2
      <4>2. Flows(<<>>, e.value, net', pending, Unread, cut)
        BY <1>3, <1>4, <1>5, <1>11, <3>2, FlowsEmptied DEF e
      <4> QED BY <4>1, <4>2
    <3>3. CASE ~IsTrade(e) /\ ~IsCleared(e)
      <4>1. cleared' = cleared /\ page'.trades = page.trades
        BY <1>1, <1>7, <3>3
      <4>2. Flows(page.trades, cleared, net', pending, Unread, cut)
        BY <1>3, <1>4, <1>5, <1>11, FlowsRest
      <4> QED BY <4>1, <4>2
    <3> QED BY <3>1, <3>2, <3>3
  <2> QED BY <1>1, <1>10, <2>1
<1>13. Past(page.trades, cleared, net, pending, Unread, Answered)
  BY DEF IInv
<1>14. \A i \in DOMAIN net' : i + 1 \in DOMAIN net /\ net'[i] = net[i + 1] /\ 1 < i + 1
  BY <1>5 DEF Rest
<1>15. Past(page.trades, cleared, net, pending, Unread, Answered)'
  <2>1. \A i \in DOMAIN page'.trades : page'.trades[i].value.cmd <= Answered
    <3>1. CASE IsTrade(e)
      <4>1. e.value.cmd <= Answered
        BY <1>5, <1>13, <3>1 DEF Past, e
      <4>2. \A i \in DOMAIN page'.trades :
                page'.trades[i] = e \/ \E j \in DOMAIN page.trades : page'.trades[i] = page.trades[j]
        BY <1>7, <3>1 DEF FirstThen
      <4> QED BY <1>13, <4>1, <4>2 DEF Past
    <3>2. CASE IsCleared(e)
      BY <1>7, <3>2
    <3>3. CASE ~IsTrade(e) /\ ~IsCleared(e)
      BY <1>7, <1>13, <3>3 DEF Past
    <3> QED BY <3>1, <3>2, <3>3
  <2>2. cleared' <= Answered
    <3>1. IsCleared(e) => e.value <= Answered
      BY <1>5, <1>9, <1>13 DEF Past, e
    <3> QED BY <1>1, <1>13, <3>1 DEF Past
  <2>3. \A i \in DOMAIN net' : IF IsTrade(net'[i]) THEN net'[i].value.cmd <= Answered
                                                   ELSE net'[i].value <= Answered
    BY <1>13, <1>14 DEF Past
  <2> QED BY <1>1, <1>10, <1>13, <2>1, <2>2, <2>3 DEF Past
<1>16. BooksOrdered(page.book, net, Unread, engine_book)
  BY DEF IInv
<1>17. IsBook(e) => /\ e.value <= engine_book
                    /\ \A i \in DOMAIN net' : IsBook(net'[i]) => e.value < net'[i].value
                    /\ \A l \in Unread : l.kind = "BOOK" => e.value < l.cmd
  BY <1>5, <1>14, <1>16 DEF BooksOrdered, e
<1>18. BooksOrdered(page.book, net, Unread, engine_book)'
  <2>1. \A i, j \in DOMAIN net' :
            i < j /\ IsBook(net'[i]) /\ IsBook(net'[j]) => net'[i].value < net'[j].value
    <3>1. ASSUME NEW i \in DOMAIN net', NEW j \in DOMAIN net', i < j, IsBook(net'[i]), IsBook(net'[j])
          PROVE  net'[i].value < net'[j].value
      <4>1. i + 1 < j + 1 /\ IsBook(net[i + 1]) /\ IsBook(net[j + 1])
        BY <1>4, <1>14, <3>1
      <4>2. net[i + 1].value < net[j + 1].value
        BY <1>14, <1>16, <4>1 DEF BooksOrdered
      <4> QED BY <1>14, <4>2
    <3> QED BY <3>1
  <2>2. /\ \A i \in DOMAIN net' : IsBook(net'[i]) =>
              page'.book < net'[i].value /\ net'[i].value <= engine_book
        /\ \A l \in Unread : l.kind = "BOOK" => l.cmd <= engine_book /\ page'.book < l.cmd
        /\ \A l \in Unread : l.kind = "BOOK" =>
              \A i \in DOMAIN net' : IsBook(net'[i]) => net'[i].value < l.cmd
    BY <1>7, <1>14, <1>16, <1>17 DEF BooksOrdered
  <2> QED BY <1>1, <1>10, <2>1, <2>2 DEF BooksOrdered
<1>19. LastBook'
  <2>1. page'.book <= engine_book
    BY <1>7, <1>17 DEF IInv, LastBook
  <2>2. OnItsWay(net, Unread, engine_book) =>
            OnItsWay(net', Unread, engine_book) \/ page'.book = engine_book
    <3>1. ASSUME NEW i \in DOMAIN net, IsBook(net[i]), net[i].value = engine_book
          PROVE  OnItsWay(net', Unread, engine_book) \/ page'.book = engine_book
      <4>1. CASE i = 1
        BY <1>7, <3>1, <4>1 DEF e
      <4>2. CASE i # 1
        <5>1. i - 1 \in DOMAIN net' /\ (i - 1) + 1 = i
          BY <1>4, <4>2
        <5>2. net'[i - 1] = net[i]
          BY <1>14, <5>1
        <5> QED BY <3>1, <5>1, <5>2 DEF OnItsWay
      <4> QED BY <4>1, <4>2
    <3> QED BY <3>1 DEF OnItsWay
  <2>3. page.book = engine_book => page'.book = engine_book
    <3>1. IsBook(e) => page.book < e.value
      BY <1>5, <1>16 DEF BooksOrdered, e
    <3> QED BY <1>3, <1>7, <1>9, <1>17, <3>1
  <2> QED BY <1>1, <1>10, <2>1, <2>2, <2>3 DEF IInv, LastBook
<1>20. Types'
  <2>1. cleared' \in Nat
    BY <1>1, <1>3, <1>9
  <2> QED BY <1>1, <1>2, <1>4, <1>7, <2>1 DEF Types
<1>21. Shape' /\ Queue'
  BY <1>1 DEF IInv, Shape, Queue
<1>22. Apart'
  BY <1>1 DEF IInv, Apart
<1>23. Answering(pending, Unread, cut)'
  BY <1>1, <1>10 DEF IInv, Answering
<1>24. HeardInTime'
  <2>1. AlreadySent(page'.trades)
    <3>1. CASE IsTrade(e)
      BY <1>5, <1>7, <3>1 DEF AlreadySent, FirstThen, e
    <3>2. CASE IsCleared(e)
      BY <1>7, <3>2 DEF AlreadySent
    <3>3. CASE ~IsTrade(e) /\ ~IsCleared(e)
      BY <1>7, <3>3 DEF AlreadySent
    <3> QED BY <3>1, <3>2, <3>3
  <2>2. AlreadySent(net')
    BY <1>14 DEF AlreadySent
  <2>3. Answered <= Answered
    BY <1>3
  <2> QED BY <1>1, <1>3, <1>10, <2>1, <2>2, <2>3, HeardKept DEF IInv
<1> QED BY <1>12, <1>15, <1>18, <1>19, <1>20, <1>21, <1>22, <1>23, <1>24 DEF IInv

(* ------------------------------- Theorems -------------------------------- *)

(* Every step of the two processes, of the page and of the connection keeps   *)
(* the inductive invariant.                                                   *)
LEMMA NextKeepsIInv ==
    ASSUME IInv, [Next]_vars
    PROVE  IInv'
<1>1. ASSUME NEW kind \in {"order", "clear"}, Submit(kind) PROVE IInv'
  BY <1>1, SubmitStep
<1>2. CASE SubmitToBrokenPipe
  BY <1>2, BrokenPipeStep
<1>3. CASE EngineStep
  BY <1>3, EngineStepKeeps
<1>4. CASE EngineExits
  BY <1>4, EngineExitsStep
<1>5. CASE ReadChunk
  BY <1>5, ReadChunkStep
<1>6. CASE NoticeExit
  BY <1>6, StutterStep DEF NoticeExit
<1>7. CASE CloseEngine
  BY <1>7, StutterStep DEF CloseEngine
<1>8. CASE Receive
  BY <1>8, ReceiveStep
<1>9. CASE Disconnect
  BY <1>9, DisconnectStep
<1>10. ASSUME NEW loaded \in BOOLEAN, Connect(loaded) PROVE IInv'
  BY <1>10, ConnectStep
<1>11. CASE UNCHANGED vars
  BY <1>11, StutterStep DEF vars, procs
<1> QED BY <1>1, <1>2, <1>3, <1>4, <1>5, <1>6, <1>7, <1>8, <1>9, <1>10, <1>11 DEF Next

(* In every behaviour of the engine's output, the middleware's loop over the  *)
(* lines of a chunk (web/middleware/server.js, the 'data' handler of stdout)  *)
(* and the page's socket handlers (web/frontend/src/App.jsx), the inductive   *)
(* invariant holds.                                                           *)
THEOREM Invariance == Spec => []IInv
<1>1. Init => IInv
  BY InitIInv
<1>2. IInv /\ [Next]_vars => IInv'
  BY NextKeepsIInv
<1> QED BY <1>1, <1>2, PTL DEF Spec

(* What was sent, by where it is now.                                         *)
LEMMA SentAre ==
    ASSUME IInv
    PROVE  LET n == Len(page.trades)
           IN  /\ n \in Nat /\ Len(net) \in Nat /\ Sent \in Seq(NetEvent)
               /\ Len(Sent) = n + Len(net) /\ DOMAIN Sent = 1 .. n + Len(net)
               /\ \A i \in DOMAIN Sent :
                    /\ i <= n => /\ (n - i) + 1 \in DOMAIN page.trades
                                 /\ Sent[i] = page.trades[(n - i) + 1]
                    /\ ~(i <= n) => i - n \in DOMAIN net /\ Sent[i] = net[i - n]
<1> DEFINE n == Len(page.trades)
           shown == Reverse(page.trades)
<1>1. page.trades \in Seq(SentTrade) /\ net \in Seq(NetEvent)
  BY PartTypes DEF IInv
<1>2. /\ n \in Nat /\ DOMAIN page.trades = 1 .. n /\ \A j \in 1 .. n : page.trades[j] \in SentTrade
      /\ Len(net) \in Nat /\ DOMAIN net = 1 .. Len(net)
  <2> HIDE DEF SentTrade, NetEvent
  <2> QED BY <1>1
<1> HIDE DEF n
<1>3. \A j \in 1 .. n : (n - j) + 1 \in 1 .. n
  BY <1>2
<1>4. shown = [j \in 1 .. n |-> page.trades[(n - j) + 1]]
  BY DEF Reverse, n
<1>5. shown \in Seq(NetEvent) /\ Len(shown) = n
  <2>1. \A j \in 1 .. n : shown[j] \in NetEvent
    BY <1>2, <1>3, <1>4, SentTypes
  <2>2. shown \in [1 .. n -> NetEvent]
    <3> HIDE DEF NetEvent
    <3> QED BY <1>4, <2>1
  <2> HIDE DEF NetEvent, shown
  <2> QED BY <1>2, <2>2
<1> HIDE DEF shown
<1>6. Sent = shown \o net
  BY DEF Sent, shown
<1>7. /\ Sent \in Seq(NetEvent) /\ Len(Sent) = Len(shown) + Len(net)
      /\ \A j \in 1 .. Len(shown) + Len(net) :
            Sent[j] = IF j <= Len(shown) THEN shown[j] ELSE net[j - Len(shown)]
  BY <1>1, <1>5, <1>6, ConcatProperties, Zenon
<1>8. DOMAIN Sent = 1 .. n + Len(net)
  <2>1. DOMAIN Sent = 1 .. Len(Sent)
    BY <1>7, LenProperties, Zenon
  <2> QED BY <1>5, <1>7, <2>1
<1>9. ASSUME NEW i \in DOMAIN Sent, i <= n
      PROVE  (n - i) + 1 \in DOMAIN page.trades /\ Sent[i] = page.trades[(n - i) + 1]
  <2>1. i \in 1 .. n
    BY <1>2, <1>8, <1>9
  <2> QED BY <1>2, <1>3, <1>4, <1>5, <1>7, <1>8, <1>9, <2>1
<1>10. ASSUME NEW i \in DOMAIN Sent, ~(i <= n)
       PROVE  i - n \in DOMAIN net /\ Sent[i] = net[i - n]
  BY <1>2, <1>5, <1>7, <1>8, <1>10
<1> QED BY <1>2, <1>5, <1>7, <1>8, <1>9, <1>10 DEF n

(* A trade is shown with the number in the first LATENCY line that the 'data' *)
(* handler of server.js recognised from the trade's own order on, wherever    *)
(* the chunks were cut: its own order's unless that line was destroyed, and a *)
(* wrong number only if the line was damaged.                                 *)
THEOREM LatenciesAreOwn == Spec => []LatencyIsOwn
<1>1. IInv => LatencyIsOwn
  <2>1. SUFFICES ASSUME IInv, NEW i \in DOMAIN Sent, IsTrade(Sent[i])
                 PROVE  LET c == Sent[i].value.cmd
                        IN  \E d \in heard :
                                /\ FirstHeard(d, c) /\ (d # c => c \in cut)
                                /\ \/ Sent[i].latency = d
                                   \/ Sent[i].latency = NoCommand /\ d \in cut
    BY DEF LatencyIsOwn, IsTrade
  <2>2. OwnLatency(Sent[i], cut)
    <3>1. Timed(page.trades, net, pending, Unread, cut)
      BY <2>1 DEF IInv, Flows
    <3> QED BY <2>1, <3>1, SentAre DEF Timed
  <2>3. ShowsFirst(Sent[i], heard, cut)
    <3>1. Prompt(page.trades, heard, cut) /\ Prompt(net, heard, cut)
      BY <2>1 DEF IInv, HeardInTime, Hears
    <3> QED BY <2>1, <3>1, SentAre DEF Prompt
  <2>4. Sent[i].value.cmd # NoCommand
    <3>1. Sent[i] \in NetEvent
      BY <2>1, SentAre, ElementOfSeq
    <3> QED BY <2>1, <3>1, EventTypes, TradeTypes DEF NoCommand
  <2> QED BY <2>2, <2>3, <2>4 DEF OwnLatency, ShowsFirst, FirstHeard
<1> QED BY <1>1, Invariance, PTL

(* After the page has handled 'cleared' (App.jsx) it shows no trade of an     *)
(* order before that CLEAR, but of those whose LATENCY line was destroyed:    *)
(* pendingTrades of server.js is not emptied by CLEAR_ACK.                    *)
THEOREM ClearEmpties == Spec => []ClearEmptiesPage
<1>1. IInv => ClearEmptiesPage
  BY DEF IInv, Flows, Cleared, Since, ClearEmptiesPage
<1> QED BY <1>1, Invariance, PTL

(* When all that the engine printed has arrived, the page shows the last book *)
(* printed, unless that line was cut apart or came while the page was away,   *)
(* since server.js sends nothing to a page that connects.                     *)
THEOREM PageIsCurrent == Spec => []PageBookCurrent
<1>1. IInv => PageBookCurrent
  <2>1. SUFFICES ASSUME IInv, bridge, stdout = <<>>, net = <<>>, engine_book # NoCommand
                 PROVE  page.book = engine_book \/ missed = engine_book
    BY DEF PageBookCurrent
  <2>2. ~OnItsWay(net, Unread, engine_book)
    BY <2>1 DEF OnItsWay, Unread, LinesFrom
  <2> QED BY <2>1, <2>2 DEF IInv, LastBook
<1> QED BY <1>1, Invariance, PTL

(* The trades that the page shows, those on their way and those that wait in  *)
(* pendingTrades are in the order in which main.cpp printed them, and none is *)
(* there twice, wherever 'data' events cut the output and whatever the        *)
(* connection lost.                                                           *)
THEOREM TradesStayInOrder == Spec => []TradesInOrder
<1>1. ASSUME IInv PROVE TradesInOrder
  <2> DEFINE waiting == [x \in DOMAIN pending |-> TradeEvent(pending[x], NoCommand)]
             all == Sent \o waiting
             n == Len(page.trades)
             m == Len(Sent)
  <2>1. /\ Ordered(page.trades, net, pending, Unread) /\ pending \in Seq(Trade)
        /\ net \in Seq(NetEvent) /\ page.trades \in Seq(SentTrade)
    BY <1>1, PartTypes DEF IInv, Flows
  <2>2. Len(pending) \in Nat /\ DOMAIN pending = 1 .. Len(pending)
    <3> HIDE DEF Trade
    <3> QED BY <2>1
  <2>3. waiting \in Seq(NetEvent) /\ Len(waiting) = Len(pending)
    <3>1. \A x \in DOMAIN pending : TradeEvent(pending[x], NoCommand) \in NetEvent
      <4>1. \A x \in DOMAIN pending : pending[x] \in Trade
        BY <2>1, ElementOfSeq
      <4> QED BY <4>1 DEF TradeEvent, NoCommand, NetEvent, SentTrade
    <3>2. waiting \in [1 .. Len(pending) -> NetEvent]
      <4> HIDE DEF NetEvent
      <4> QED BY <2>2, <3>1
    <3> HIDE DEF NetEvent, waiting
    <3> QED BY <2>2, <3>2
  <2>4. \A x \in DOMAIN pending : waiting[x].value = pending[x]
    BY DEF TradeEvent
  <2>5. /\ Sent \in Seq(NetEvent) /\ m \in Nat /\ n \in Nat /\ Len(net) \in Nat /\ m = n + Len(net)
        /\ DOMAIN Sent = 1 .. m
        /\ \A x \in 1 .. m :
            /\ x <= n => (n - x) + 1 \in DOMAIN page.trades /\ Sent[x] = page.trades[(n - x) + 1]
            /\ ~(x <= n) => x - n \in DOMAIN net /\ Sent[x] = net[x - n]
    BY <1>1, SentAre
  <2> HIDE DEF waiting, n, all
  <2>6. /\ all \in Seq(NetEvent) /\ Len(all) = Len(Sent) + Len(waiting)
        /\ \A x \in 1 .. Len(Sent) + Len(waiting) :
            all[x] = IF x <= Len(Sent) THEN Sent[x] ELSE waiting[x - Len(Sent)]
    <3>1. Sent \in Seq(NetEvent) /\ waiting \in Seq(NetEvent)
      BY <2>3, <2>5
    <3> QED BY <3>1, ConcatProperties, Zenon DEF all
  <2>7. DOMAIN all = 1 .. m + Len(pending)
    <3>1. DOMAIN all = 1 .. Len(all)
      BY <2>6, LenProperties, Zenon
    <3> QED BY <2>3, <2>6, <3>1
  <2> HIDE DEF m
  <2> DEFINE OnPage(x) == (n - x) + 1 \in DOMAIN page.trades /\ all[x] = page.trades[(n - x) + 1]
             OnNet(x)  == x - n \in DOMAIN net /\ all[x] = net[x - n]
             Waits(x)  == x - m \in DOMAIN pending /\ all[x].value = pending[x - m]
  <2>8. ASSUME NEW x \in DOMAIN all
        PROVE  /\ x <= n => OnPage(x)
               /\ n < x /\ x <= m => OnNet(x)
               /\ m < x => Waits(x)
    <3>1. x \in Nat /\ x >= 1 /\ x <= m + Len(pending)
      BY <2>2, <2>5, <2>7
    <3>2. CASE x <= m
      <4>1. x \in 1 .. m /\ all[x] = Sent[x]
        BY <2>3, <2>6, <2>7, <3>1, <3>2 DEF m
      <4>2. ~(m < x) /\ (n < x => ~(x <= n))
        BY <2>5, <3>1, <3>2
      <4> QED BY <2>5, <4>1, <4>2
    <3>3. CASE ~(x <= m)
      <4>1. all[x] = waiting[x - m]
        BY <2>3, <2>6, <2>7, <3>3 DEF m
      <4>2. x - m \in DOMAIN pending /\ m < x
        BY <2>2, <2>5, <3>1, <3>3
      <4>3. all[x].value = pending[x - m]
        BY <2>4, <4>1, <4>2
      <4>4. ~(x <= n)
        BY <2>5, <3>1, <3>3
      <4> QED BY <3>3, <4>2, <4>3, <4>4
    <3> QED BY <3>2, <3>3
  <2> HIDE DEF OnPage, OnNet, Waits
  <2>9. ASSUME NEW i \in DOMAIN all, NEW j \in DOMAIN all, i < j, IsTrade(all[i]), IsTrade(all[j])
        PROVE  Earlier(all[i].value, all[j].value)
    <3>1. i \in Nat /\ j \in Nat /\ n <= m /\ n \in Nat /\ m \in Nat
      BY <2>2, <2>5, <2>7
    <3>2. CASE j <= n
      <4>1. OnPage(i) /\ OnPage(j)
        BY <2>8, <2>9, <3>1, <3>2
      <4>2. (n - j) + 1 < (n - i) + 1
        BY <2>9, <3>1
      <4> QED BY <2>1, <4>1, <4>2 DEF Ordered, OnPage
    <3>3. CASE n < j /\ j <= m
      <4>1. OnNet(j)
        BY <2>8, <3>3
      <4>2. CASE i <= n
        <5>1. OnPage(i)
          BY <2>8, <4>2
        <5> QED BY <2>1, <2>9, <4>1, <5>1 DEF Ordered, OnPage, OnNet
      <4>3. CASE n < i
        <5>1. OnNet(i) /\ i - n < j - n
          BY <2>8, <2>9, <3>1, <3>3, <4>3
        <5> QED BY <2>1, <2>9, <4>1, <5>1 DEF Ordered, OnNet
      <4> QED BY <3>1, <4>2, <4>3
    <3>4. CASE m < j
      <4>1. Waits(j)
        BY <2>8, <3>4
      <4>2. CASE i <= n
        <5>1. OnPage(i)
          BY <2>8, <4>2
        <5> QED BY <2>1, <4>1, <5>1 DEF Ordered, OnPage, Waits
      <4>3. CASE n < i /\ i <= m
        <5>1. OnNet(i)
          BY <2>8, <4>3
        <5> QED BY <2>1, <2>9, <4>1, <5>1 DEF Ordered, OnNet, Waits
      <4>4. CASE m < i
        <5>1. Waits(i) /\ i - m < j - m
          BY <2>8, <2>9, <3>1, <4>4
        <5> QED BY <2>1, <4>1, <5>1 DEF Ordered, Waits
      <4> QED BY <3>1, <4>2, <4>3, <4>4
    <3> QED BY <3>1, <3>2, <3>3, <3>4
  <2> QED BY <2>9 DEF TradesInOrder, IsTrade, all, waiting
<1> QED BY <1>1, Invariance, PTL

=============================================================================
