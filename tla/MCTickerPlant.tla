--------------------------- MODULE MCTickerPlant ----------------------------
(* Bounds for TLC: two tables, messages for both, of which the feed has    *)
(* stamped one, and two connections.                                       *)
EXTENDS TickerPlant

CONSTANTS trade, quote, m1, m2, m3, r1, h1, h2

MCTableSeq == <<quote, trade>>
MCTabOf == [m \in Messages |-> IF m = m2 THEN quote ELSE trade]
MCStamped == {m3} \cap Messages

BatchMode == [batch |-> TRUE, logging |-> TRUE, feedEnds |-> FALSE]
ZeroLatencyMode == [batch |-> FALSE, logging |-> TRUE, feedEnds |-> FALSE]
ZeroLatencyFeedEndsMode == [batch |-> FALSE, logging |-> TRUE, feedEnds |-> TRUE]
FeedEndsBatchMode == [batch |-> TRUE, logging |-> TRUE, feedEnds |-> TRUE]
NoLogMode == [batch |-> TRUE, logging |-> FALSE, feedEnds |-> FALSE]

LoggedModes == {BatchMode, ZeroLatencyMode}
DeliveryModes == {BatchMode, ZeroLatencyFeedEndsMode, NoLogMode}
FeedEndsModes == {FeedEndsBatchMode}

=============================================================================
