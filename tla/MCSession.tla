----------------------------- MODULE MCSession -----------------------------
\* Session has no parameters: its instance for TLC is the module itself.
EXTENDS Session
=============================================================================
