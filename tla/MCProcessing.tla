---------------------------- MODULE MCProcessing ----------------------------
\* Three messages, two pods, a breaker that opens at the second failure, one
\* fault and one outage.
EXTENDS Processing

MCOffsets == 1..3

\* A failure between two events, and one after an empty message.
MCContents == {<<"event", "garbled", "event">>, <<"empty", "garbled", "event">>}

=============================================================================
