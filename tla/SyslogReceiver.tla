--------------------------- MODULE SyslogReceiver ---------------------------
(***************************************************************************)
(* Syslog sources on one address: SyslogReceiver (syslog.go) as the Manager*)
(* starts and stops it, down to Store.Insert.  A receiver has one loop per *)
(* transport and per loop a helper goroutine that closes the socket when   *)
(* the context is cancelled; an accepted TCP connection has a goroutine of *)
(* its own, which no one waits for.                                        *)
(*                                                                         *)
(* Closing a socket takes two steps (package net): blocked calls return,   *)
(* and then the port is given back, once nobody uses the descriptor.       *)
(***************************************************************************)
EXTENDS Integers, FiniteSets

CONSTANTS
    Conns,         \* TCP connections that clients make
    None,          \* no receiver, no proto
    MaxStarts,     \* bound on receivers started
    MaxLines,      \* bound on log lines sent
    MaxFaults      \* bound on failed calls and crashes

Protos    == {"udp", "tcp", "both"}
Receivers == 1..MaxStarts
Handlers  == Receivers \cup Conns      \* a receiver stands for its UDP loop

ASSUME SyslogConstants ==
    /\ IsFiniteSet(Conns) /\ Conns \cap Receivers = {}
    /\ None \notin Receivers /\ None \notin Protos
    /\ MaxStarts \in Nat /\ MaxLines \in Nat /\ MaxFaults \in Nat

VARIABLES
    started,   \* receivers started so far
    proto,     \* what each receiver listens on
    running,   \* receivers with an entry in m.running
    stopping,  \* the receiver whose done channel Apply waits for, or None
    cancelled, \* whether each receiver's context is cancelled
    loop,      \* per receiver and transport: "off", "bind", "read" or "done"
    sock,      \* its socket: "none", "bound", "closing" or "closed"
    owner,     \* the receiver that accepted each connection, or None
    open,      \* whether the goroutine of each connection runs
    queue,     \* lines sent to each handler and not read yet
    at,        \* what each handler is doing: "idle", "insert" or "hit"
    rows,      \* rows in requests
    hits,      \* rows in keyword_hits; every line sent matches one keyword
    sent, faults,
    cut,       \* lines between their two statements when the process died
    late       \* rows each connection inserted since its receiver was cancelled

control  == <<started, proto, running, stopping, cancelled>>
sockets  == <<loop, sock>>
handlers == <<owner, open, queue, at>>
tables   == <<rows, hits, cut, late>>
vars     == <<control, sockets, handlers, tables, sent, faults>>

Transports(p) == IF p = "both" THEN {"udp", "tcp"} ELSE {p}

TypeOK ==
    /\ started \in 0..MaxStarts
    /\ proto \in [Receivers -> Protos \cup {None}]
    /\ running \in SUBSET Receivers
    /\ stopping \in running \cup {None}
    /\ cancelled \in [Receivers -> BOOLEAN]
    /\ loop \in [Receivers -> [{"udp", "tcp"} -> {"off", "bind", "read", "done"}]]
    /\ sock \in [Receivers -> [{"udp", "tcp"} -> {"none", "bound", "closing", "closed"}]]
    /\ owner \in [Conns -> Receivers \cup {None}]
    /\ open \in [Conns -> BOOLEAN]
    /\ queue \in [Handlers -> 0..MaxLines]
    /\ at \in [Handlers -> {"idle", "insert", "hit"}]
    /\ rows \in 0..MaxLines /\ hits \in 0..MaxLines
    /\ cut \in 0..MaxLines
    /\ sent \in 0..MaxLines /\ faults \in 0..MaxFaults
    /\ late \in [Conns -> 0..MaxLines]

Init ==
    /\ started = 0
    /\ proto = [r \in Receivers |-> None]
    /\ running = {} /\ stopping = None
    /\ cancelled = [r \in Receivers |-> FALSE]
    /\ loop = [r \in Receivers |-> [t \in {"udp", "tcp"} |-> "off"]]
    /\ sock = [r \in Receivers |-> [t \in {"udp", "tcp"} |-> "none"]]
    /\ owner = [c \in Conns |-> None]
    /\ open = [c \in Conns |-> FALSE]
    /\ queue = [h \in Handlers |-> 0]
    /\ at = [h \in Handlers |-> "idle"]
    /\ rows = 0 /\ hits = 0 /\ cut = 0 /\ sent = 0 /\ faults = 0
    /\ late = [c \in Conns |-> 0]

Between == Cardinality({h \in Handlers : at[h] = "hit"})

Fault == faults < MaxFaults /\ faults' = faults + 1

-----------------------------------------------------------------------------
(* The manager.                                                            *)

\* startLocked.  The key of a source holds its proto, so sources that differ
\* in it run side by side, whatever ports they share.
Start(p) ==
    /\ stopping = None /\ started < MaxStarts
    /\ \A r \in running : proto[r] # p
    /\ LET r == started + 1
       IN  /\ started' = r
           /\ proto' = [proto EXCEPT ![r] = p]
           /\ running' = running \cup {r}
           /\ loop' = [loop EXCEPT ![r] =
                 [t \in {"udp", "tcp"} |-> IF t \in Transports(p) THEN "bind" ELSE "off"]]
    /\ UNCHANGED <<stopping, cancelled, sock, handlers, tables, sent, faults>>

\* stopLocked cancels the context ...
Cancel(r) ==
    /\ stopping = None /\ r \in running
    /\ cancelled' = [cancelled EXCEPT ![r] = TRUE]
    /\ stopping' = r
    /\ UNCHANGED <<started, proto, running, sockets, handlers, tables, sent, faults>>

\* Listen returns when no loop of the receiver is left.
Returned(r) == \A t \in Transports(proto[r]) : loop[r][t] = "done"

\* ... and waits for done; connections are not waited for.
Stopped(r) ==
    /\ stopping = r /\ Returned(r)
    /\ running' = running \ {r}
    /\ stopping' = None
    /\ UNCHANGED <<started, proto, cancelled, sockets, handlers, tables, sent, faults>>

\* The process dies, with its sockets and goroutines, and is started again.
Crash ==
    /\ running # {} /\ Fault
    /\ running' = {} /\ stopping' = None
    /\ cancelled' = [r \in Receivers |-> r <= started]
    /\ loop' = [r \in Receivers |-> [t \in {"udp", "tcp"} |->
                   IF loop[r][t] = "off" THEN "off" ELSE "done"]]
    /\ sock' = [r \in Receivers |-> [t \in {"udp", "tcp"} |->
                   IF sock[r][t] = "none" THEN "none" ELSE "closed"]]
    /\ open' = [c \in Conns |-> FALSE]
    /\ queue' = [h \in Handlers |-> 0]
    /\ at' = [h \in Handlers |-> "idle"]
    /\ cut' = cut + Between
    /\ UNCHANGED <<started, proto, owner, rows, hits, late, sent>>

-----------------------------------------------------------------------------
(* The sockets.                                                            *)

\* The port of transport t is in use by some receiver.
InUse(t) == \E r \in Receivers : sock[r][t] \in {"bound", "closing"}

\* net.ListenUDP or net.Listen.  An error, as for a port in use, ends the loop,
\* and nothing tries it again.
Bind(r, t) ==
    /\ loop[r][t] = "bind"
    /\ \/ loop' = [loop EXCEPT ![r][t] = "done"] /\ UNCHANGED sock
       \/ /\ ~InUse(t)
          /\ loop' = [loop EXCEPT ![r][t] = "read"]
          /\ sock' = [sock EXCEPT ![r][t] = "bound"]
    /\ UNCHANGED <<control, handlers, tables, sent, faults>>

\* Mutant: only the UDP socket has a helper goroutine.
CloseSocketUDP(r, t) ==
    /\ cancelled[r] /\ sock[r][t] = "bound" /\ t = "udp"
    /\ sock' = [sock EXCEPT ![r][t] = "closing"]
    /\ UNCHANGED <<control, loop, handlers, tables, sent, faults>>

\* Mutant: the loop closes the socket, when it finds the context done.
CloseSocketWhileReading(r, t) ==
    /\ cancelled[r] /\ sock[r][t] = "bound" /\ loop[r][t] = "read"
    /\ sock' = [sock EXCEPT ![r][t] = "closing"]
    /\ UNCHANGED <<control, loop, handlers, tables, sent, faults>>

\* The helper goroutine finds the context done and calls Close: blocked calls
\* return.
CloseSocket(r, t) ==
    /\ cancelled[r] /\ sock[r][t] = "bound"
    /\ sock' = [sock EXCEPT ![r][t] = "closing"]
    /\ UNCHANGED <<control, loop, handlers, tables, sent, faults>>

\* Close returns and the port is free.
ReleasePort(r, t) ==
    /\ sock[r][t] = "closing"
    /\ sock' = [sock EXCEPT ![r][t] = "closed"]
    /\ UNCHANGED <<control, loop, handlers, tables, sent, faults>>

\* ReadFromUDP or Accept fails on the closed socket; the context is done, so
\* the loop returns nil.
LoopEnds(r, t) ==
    /\ loop[r][t] = "read" /\ sock[r][t] \in {"closing", "closed"}
    /\ t = "udp" => at[r] = "idle"
    /\ loop' = [loop EXCEPT ![r][t] = "done"]
    /\ queue' = [queue EXCEPT ![r] = IF t = "udp" THEN 0 ELSE @]
    /\ UNCHANGED <<control, sock, owner, open, at, tables, sent, faults>>

\* It fails of itself: the loop returns, but the socket stays bound, and takes
\* datagrams and connections, until the context is cancelled.
LoopFails(r, t) ==
    /\ loop[r][t] = "read" /\ sock[r][t] = "bound" /\ Fault
    /\ t = "udp" => at[r] = "idle"
    /\ loop' = [loop EXCEPT ![r][t] = "done"]
    /\ UNCHANGED <<control, sock, handlers, tables, sent>>

-----------------------------------------------------------------------------
(* The clients.                                                            *)

\* A datagram reaches a bound socket.
Datagram(r) ==
    /\ sock[r]["udp"] = "bound" /\ sent < MaxLines
    /\ queue' = [queue EXCEPT ![r] = @ + 1]
    /\ sent' = sent + 1
    /\ UNCHANGED <<control, sockets, owner, open, at, tables, faults>>

\* A client connects; Accept hands the connection to a goroutine.  One that
\* Accept has not taken is reset when the listener closes.
Accept(r, c) ==
    /\ loop[r]["tcp"] = "read" /\ sock[r]["tcp"] = "bound"
    /\ owner[c] = None
    /\ owner' = [owner EXCEPT ![c] = r]
    /\ open' = [open EXCEPT ![c] = TRUE]
    /\ UNCHANGED <<control, sockets, queue, at, tables, sent, faults>>

\* A line on a connection, long-lived or not.
Line(c) ==
    /\ open[c] /\ sent < MaxLines
    /\ queue' = [queue EXCEPT ![c] = @ + 1]
    /\ sent' = sent + 1
    /\ UNCHANGED <<control, sockets, owner, open, at, tables, faults>>

\* handleTCPConn returns; what the scanner and the connection hold is lost.
Close(c) ==
    /\ open' = [open EXCEPT ![c] = FALSE]
    /\ queue' = [queue EXCEPT ![c] = 0]

\* The client hangs up after its last line is read.
HangUp(c) ==
    /\ open[c] /\ at[c] = "idle" /\ queue[c] = 0
    /\ Close(c)
    /\ UNCHANGED <<control, sockets, owner, at, tables, sent, faults>>

-----------------------------------------------------------------------------
(* The handlers.                                                           *)

\* processMessage: a line that is blank or does not parse is dropped.
Take(h) ==
    /\ queue' = [queue EXCEPT ![h] = @ - 1]
    /\ at' \in {at, [at EXCEPT ![h] = "insert"]}

\* ReadFromUDP returns a datagram.  The loop never looks at the context: until
\* the socket is closed it goes on.
ReadDatagram(r) ==
    /\ loop[r]["udp"] = "read" /\ sock[r]["udp"] = "bound"
    /\ at[r] = "idle" /\ queue[r] > 0
    /\ Take(r)
    /\ UNCHANGED <<control, sockets, owner, open, tables, sent, faults>>

\* Mutant: the context is not looked at between two lines.
ScanUnchecked(c) ==
    /\ open[c] /\ at[c] = "idle" /\ queue[c] > 0
    /\ Take(c) /\ UNCHANGED open
    /\ UNCHANGED <<control, sockets, owner, tables, sent, faults>>

\* The scanner returns a line; of a cancelled receiver it is dropped, and the
\* connection with it.
Scan(c) ==
    /\ open[c] /\ at[c] = "idle" /\ queue[c] > 0
    /\ IF cancelled[owner[c]]
       THEN Close(c) /\ UNCHANGED at
       ELSE Take(c) /\ UNCHANGED open
    /\ UNCHANGED <<control, sockets, owner, tables, sent, faults>>

\* A line longer than the scanner's buffer ends the connection.
ScanTooLong(c) ==
    /\ open[c] /\ at[c] = "idle" /\ queue[c] > 0 /\ Fault
    /\ Close(c)
    /\ UNCHANGED <<control, sockets, owner, at, tables, sent>>

\* Whether a row inserted by h counts as late.
Late(h) == h \in Conns /\ cancelled[owner[h]]

\* Mutant: the row and its hits are written in the opposite order.
InsertRowLast(h) ==
    /\ at[h] = "insert"
    /\ hits' = hits + 1
    /\ late' = [c \in Conns |-> IF c = h /\ Late(c) THEN late[c] + 1 ELSE late[c]]
    /\ at' = [at EXCEPT ![h] = "hit"]
    /\ UNCHANGED <<control, sockets, owner, open, queue, rows, cut, sent, faults>>

\* Insert: first the row in requests ...
InsertRow(h) ==
    /\ at[h] = "insert"
    /\ rows' = rows + 1
    /\ late' = [c \in Conns |-> IF c = h /\ Late(c) THEN late[c] + 1 ELSE late[c]]
    /\ at' = [at EXCEPT ![h] = "hit"]
    /\ UNCHANGED <<control, sockets, owner, open, queue, hits, cut, sent, faults>>

\* ... then, in a transaction of its own, the row in keyword_hits.
InsertHit(h) ==
    /\ at[h] = "hit"
    /\ hits' = hits + 1
    /\ at' = [at EXCEPT ![h] = "idle"]
    /\ UNCHANGED <<control, sockets, owner, open, queue, rows, cut, late, sent, faults>>

\* Mutant: a line whose insert failed is processed again.
InsertFailsAndRetries(h) ==
    /\ at[h] # "idle" /\ Fault
    /\ at' = [at EXCEPT ![h] = "insert"]
    /\ UNCHANGED <<control, sockets, owner, open, queue, tables, sent>>

\* Either statement fails: the error is logged and the next line is read.
InsertFails(h) ==
    /\ at[h] # "idle" /\ Fault
    /\ at' = [at EXCEPT ![h] = "idle"]
    /\ UNCHANGED <<control, sockets, owner, open, queue, tables, sent>>

-----------------------------------------------------------------------------
Serve(r, t) == Bind(r, t) \/ CloseSocket(r, t) \/ ReleasePort(r, t) \/ LoopEnds(r, t)

Process(h) == InsertRow(h) \/ InsertHit(h)

Next ==
    \/ \E p \in Protos : Start(p)
    \/ \E r \in Receivers :
          \/ Cancel(r) \/ Stopped(r) \/ Datagram(r) \/ ReadDatagram(r)
          \/ \E t \in {"udp", "tcp"} : Serve(r, t) \/ LoopFails(r, t)
          \/ \E c \in Conns : Accept(r, c)
    \/ \E c \in Conns : Line(c) \/ HangUp(c) \/ Scan(c) \/ ScanTooLong(c)
    \/ \E h \in Handlers : Process(h) \/ InsertFails(h)
    \/ Crash

Spec == Init /\ [][Next]_vars

\* Goroutines are scheduled; Close wakes the calls it interrupts; statements
\* come back.  Nothing is asked of clients or of the reading of lines.
FairSpec ==
    /\ Spec
    /\ \A r \in Receivers :
          /\ WF_vars(Stopped(r))
          /\ \A t \in {"udp", "tcp"} : WF_vars(Serve(r, t))
    /\ \A h \in Handlers : WF_vars(Process(h))

-----------------------------------------------------------------------------
(* Properties.                                                             *)

\* A connection that outlives its receiver writes at most one more row, with
\* the keywords and the parser the administrator has replaced: the line it was
\* processing when the context was cancelled.
AtMostOneLateRow == \A c \in Conns : late[c] <= 1

\* Every row has its keyword hit, except for one hit per failed statement, and
\* where a handler is between the two statements or was when the process died.
\* No hit has no row.
HitsAreComplete == hits <= rows /\ rows <= hits + faults + cut + Between

\* A save that stops a receiver comes back from the wait for it, whatever its
\* loops and its connections are doing.
ReceiverStops == []<>(stopping = None)

\* A port that a cancelled receiver held is free in the end, also when one of
\* its loops had failed: a later source can listen on it.
PortsReleased ==
    \A r \in Receivers : \A t \in {"udp", "tcp"} :
        []<>(cancelled[r] => sock[r][t] \in {"none", "closed"})
=============================================================================
