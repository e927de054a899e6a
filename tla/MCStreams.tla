------------------------------- MODULE MCStreams -------------------------------
EXTENDS Streams
=============================================================================
