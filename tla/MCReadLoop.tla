----------------------------- MODULE MCReadLoop -----------------------------
\* ReadLoop on three bytes: a line feed, a letter and one above 127.
EXTENDS ReadLoop
=============================================================================
