----------------------------- MODULE MCCapture -----------------------------
EXTENDS Capture
\* A short answer, and one longer than any budget with a character of three
\* bytes across its end.
SmallBodies == {<<1>>, <<1, 3, 0, 0, 1>>}
=============================================================================
