---------------------------- MODULE MCComponents ----------------------------
(* The sequential components that share no state with each other: the memory  *)
(* managers, the portfolio, the signals and the clock.  Each is explored on   *)
(* its own, so a behaviour is one of the pool, of an arena with its heap, of  *)
(* vectors, of a portfolio, of a rolling window, of the signals of a book, or *)
(* of the clock.                                                              *)
EXTENDS MemoryPool, PoolAllocator, SmallVector, Portfolio, RollingStats, Signals,
        Calibration

MCNsDefault == Ratio(31, 100)

VARIABLE component

mcVars == <<component, poolVars, arenaVars, vectorVars, portfolioVars, statsVars, signalVars, clockVars>>

MCInit ==
    /\ component \in {"pool", "arena", "vector", "portfolio", "stats", "signals", "clock"}
    /\ PoolInit /\ ArenaBuilt /\ VectorInit
    /\ PortfolioInit /\ StatsInit /\ SignalInit /\ ClockInit

MCNext ==
    \/ /\ component = "pool" /\ PoolNext
       /\ UNCHANGED <<component, arenaVars, vectorVars, portfolioVars, statsVars, signalVars, clockVars>>
    \/ /\ component = "arena" /\ ArenaNext
       /\ UNCHANGED <<component, poolVars, vectorVars, portfolioVars, statsVars, signalVars, clockVars>>
    \/ /\ component = "vector" /\ VectorNext
       /\ UNCHANGED <<component, poolVars, arenaVars, portfolioVars, statsVars, signalVars, clockVars>>
    \/ /\ component = "portfolio" /\ PortfolioNext
       /\ UNCHANGED <<component, poolVars, arenaVars, vectorVars, statsVars, signalVars, clockVars>>
    \/ /\ component = "stats" /\ StatsNext
       /\ UNCHANGED <<component, poolVars, arenaVars, vectorVars, portfolioVars, signalVars, clockVars>>
    \/ /\ component = "signals" /\ SignalNext
       /\ UNCHANGED <<component, poolVars, arenaVars, vectorVars, portfolioVars, statsVars, clockVars>>
    \/ /\ component = "clock" /\ ClockNext
       /\ UNCHANGED <<component, poolVars, arenaVars, vectorVars, portfolioVars, statsVars, signalVars>>

MCSpec == MCInit /\ [][MCNext]_mcVars

(* The variables of the seven components have their types: freelists point    *)
(* into their slabs, a vector's elements have storage, an index is in range.  *)
ComponentsTypeOK ==
    /\ PoolTypeOK /\ ArenaTypeOK /\ VectorTypeOK
    /\ PortfolioTypeOK /\ StatsTypeOK /\ SignalTypeOK /\ ClockTypeOK
=============================================================================
