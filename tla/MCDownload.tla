---------------------------- MODULE MCDownload ----------------------------
\* The constants of Download are numbers: its instance for TLC is the module itself.
EXTENDS Download
=============================================================================
