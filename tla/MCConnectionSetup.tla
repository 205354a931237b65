--------------------------- MODULE MCConnectionSetup ---------------------------
\* ConnectionSetup with a host of two addresses, an FTP worker that asks for
\* it once, and a --timeout unset, below and above the cap on a candidate.
EXTENDS ConnectionSetup
=============================================================================
