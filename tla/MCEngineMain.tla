--------------------------- MODULE MCEngineMain ---------------------------
(* A small instance of EngineMain for TLC.                                    *)
EXTENDS EngineMain

\* Thousandths: negative, zero, and positive prices that round to ticks 0, 1, 2.
MCPriceInput == {-10, 0, 4, 14, 15}
MCQtyInput   == {-1, 0, 1, 2}
=============================================================================
