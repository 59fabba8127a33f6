------------------------- MODULE MCShakescapeMarket -------------------------
(***************************************************************************)
(* ShakescapeMarket for TLC.  The relay transport runs inside the service, *)
(* which handles one request at a time: one thread.  The peer transport    *)
(* runs in a thread per peer.                                              *)
(***************************************************************************)
EXTENDS ShakescapeMarket

CONSTANTS o1, f1, t1, t2

\* Other sellers' messages are in force throughout, but for one that is only
\* from the second moment on, or has lapsed by then.
Throughout == [m \in ForeignMessages |-> [from |-> 0, until |-> 2]]
Early(m) == [Throughout EXCEPT ![m].from = 1]
Lapsing(m) == [Throughout EXCEPT ![m].until = 1]

Setup(transport, cast, threads) ==
    [transport |-> transport, cast |-> cast, threads |-> threads, window |-> Throughout]

Dated(setup0, windows) == {[setup0 EXCEPT !.window = w] : w \in windows}
AllSetups ==
    LET listing == [id |-> f1, seq |-> 1]
        cancel == [id |-> f1, seq |-> 2]
    IN  {Setup("relay", {o1}, {t1}), Setup("peers", {o1}, {t1, t2})}
        \cup Dated(Setup("relay", {f1}, {t1}), {Throughout, Early(cancel), Lapsing(listing)})
        \cup Dated(Setup("peers", {o1, f1}, {t1}), {Early(cancel)})
RelayOnly == {Setup("relay", {f1}, {t1})}
=============================================================================
