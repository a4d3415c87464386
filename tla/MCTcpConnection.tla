--------------------------- MODULE MCTcpConnection ---------------------------
EXTENDS TcpConnection

\* No bytes, one segment of two bytes, two segments of one, and three segments,
\* which is more than a batch may have.
MCBatches == {<<>>, <<1, 1>>, <<1, 2>>, <<1, 2, 3>>}

MCShortBatches == {<<>>, <<1, 1>>}
==============================================================================
