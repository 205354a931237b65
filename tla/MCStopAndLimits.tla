--------------------------- MODULE MCStopAndLimits ---------------------------
\* StopAndLimits on a page of two links.
EXTENDS StopAndLimits

Plain == [maxtime |-> 0, timeGrace |-> 0, maxsite |-> 0, sizeGrace |-> 0, timeout |-> 0,
          ftp |-> {}, untyped |-> {}, update |-> FALSE]

SomeDelays == {-1, 1, 3}
SomeOptions == {
    [Plain EXCEPT !.untyped = {2}],
    [Plain EXCEPT !.ftp = {1}, !.update = TRUE],
    [Plain EXCEPT !.timeout = 1, !.untyped = {2}, !.ftp = {1}],
    [Plain EXCEPT !.maxtime = 1, !.timeGrace = 1, !.untyped = {1}],
    [Plain EXCEPT !.maxsite = 2, !.sizeGrace = 1, !.timeout = 1],
    [Plain EXCEPT !.maxsite = 2, !.sizeGrace = 1]}
=============================================================================
