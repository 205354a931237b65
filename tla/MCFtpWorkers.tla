----------------------------- MODULE MCFtpWorkers -----------------------------
\* FtpWorkers on two slots and three transfers.
EXTENDS FtpWorkers
=============================================================================
