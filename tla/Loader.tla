------------------------------- MODULE Loader --------------------------------
(***************************************************************************)
(* duckdb_pgwire_extension.cpp: LoadInternal and start_server.  Each load  *)
(* of the extension into a database starts a detached thread; the first    *)
(* one to find g_started unset opens the log and the port and serves ITS   *)
(* database, the others return.                                            *)
(*                                                                         *)
(* The threads run concurrently with each other and with the host program, *)
(* which loads databases and may close them.  The thread that serves keeps *)
(* a reference to its database, not a share in its ownership.              *)
(***************************************************************************)
EXTENDS Naturals, FiniteSets

CONSTANTS
    Databases,      \* the databases of the host program
    PortTaken,      \* does another program listen on port 15432?
    LogFails        \* can duckdb_pgwire.log not be opened?

ASSUME LoaderAssumption ==
    PortTaken \in BOOLEAN /\ LogFails \in BOOLEAN

VARIABLES
    db,             \* a database: "new", "open" or "closed"
    pc,             \* its thread: "none", a step of start_server, "serve", "returned"
    g_started,
    port,           \* the database whose server listens on the port (or Nobody)
    crowded,        \* some database was loaded while the thread of another one
                    \* had not yet set g_started, or returned
    host            \* the host program: "up" or "down"

vars == <<db, pc, g_started, port, crowded, host>>

Nobody == "nobody"

TypeOK ==
    /\ db \in [Databases -> {"new", "open", "closed"}]
    /\ pc \in [Databases -> {"none", "check", "set", "log", "bind", "serve", "returned"}]
    /\ g_started \in BOOLEAN
    /\ port \in Databases \cup {Nobody}
    /\ crowded \in BOOLEAN
    /\ host \in {"up", "down"}

Init ==
    /\ db = [d \in Databases |-> "new"]
    /\ pc = [d \in Databases |-> "none"]
    /\ g_started = FALSE
    /\ port = Nobody
    /\ crowded = FALSE
    /\ host = "up"

-----------------------------------------------------------------------------
\* LoadInternal: the function is registered and the thread started.
LoadInternal(d) ==
    /\ host = "up" /\ db[d] = "new"
    /\ db' = [db EXCEPT ![d] = "open"]
    /\ pc' = [pc EXCEPT ![d] = "check"]
    /\ crowded' = (crowded \/ \E e \in Databases : pc[e] \in {"check", "set"})
    /\ UNCHANGED <<g_started, port, host>>

\* The host closes the database; its thread is not told.
CloseDatabase(d) ==
    /\ host = "up" /\ db[d] = "open"
    /\ db' = [db EXCEPT ![d] = "closed"]
    /\ UNCHANGED <<pc, g_started, port, crowded, host>>

\* One step of d's thread, from one place to another.
Goes(d, from, to) ==
    /\ host = "up" /\ pc[d] = from
    /\ pc' = [pc EXCEPT ![d] = to]
    /\ UNCHANGED <<db, crowded>>

\* Fault: g_started is not looked at.
CheckNever(d) ==
    /\ Goes(d, "check", "set")
    /\ UNCHANGED <<g_started, port, host>>

\* if (g_started) return;
Check(d) ==
    /\ Goes(d, "check", IF g_started THEN "returned" ELSE "set")
    /\ UNCHANGED <<g_started, port, host>>

\* Fault: the thread returns once it has set g_started.
SetStartedReturns(d) ==
    /\ Goes(d, "set", "returned")
    /\ g_started' = TRUE
    /\ UNCHANGED <<port, host>>

SetStarted(d) ==
    /\ Goes(d, "set", "log")
    /\ g_started' = TRUE
    /\ UNCHANGED <<port, host>>

\* log::initialize: fileno of a file that could not be opened ends the program.
OpenLog(d) ==
    /\ Goes(d, "log", "bind")
    /\ host' = IF LogFails THEN "down" ELSE "up"
    /\ UNCHANGED <<g_started, port>>

\* The acceptor of the Server is opened and bound; where that throws, the
\* exception leaves the thread and ends the program.
Bind(d) ==
    \/ /\ ~PortTaken /\ port = Nobody
       /\ Goes(d, "bind", "serve")
       /\ port' = d
       /\ UNCHANGED <<g_started, host>>
    \/ /\ PortTaken \/ port # Nobody
       /\ Goes(d, "bind", "bind")
       /\ host' = "down"
       /\ UNCHANGED <<g_started, port>>

start_server(d) == Check(d) \/ SetStarted(d) \/ OpenLog(d) \/ Bind(d)

\* duckdb_handler: a client's query opens a Connection to the database the
\* thread holds the reference to, and keeps it until it ends.  On one that is
\* closed that is undefined behaviour: the host may live on or end.
Query(d) ==
    /\ host = "up" /\ pc[d] = "serve"
    /\ host' \in (IF db[d] = "closed" THEN {"up", "down"} ELSE {"up"})
    /\ UNCHANGED <<db, pc, g_started, port, crowded>>

Next ==
    \E d \in Databases :
        LoadInternal(d) \/ CloseDatabase(d) \/ start_server(d) \/ Query(d)

Spec == Init /\ [][Next]_vars

\* Every thread of the program is scheduled.
FairSpec == Spec /\ \A d \in Databases : WF_vars(start_server(d))

-----------------------------------------------------------------------------
(***************************************************************************)
(* Properties                                                              *)
(***************************************************************************)
\* A thread returns only when another one has taken on the server: it is on its
\* way to serve, serves, or has brought the host down.
ReturnsToAServer ==
    \A d \in Databases : pc[d] = "returned" =>
        \E e \in Databases \ {d} : pc[e] \in {"log", "bind", "serve"}

\* The database that is served was closed under its server.
Orphaned == \E d \in Databases : pc[d] = "serve" /\ db[d] = "closed"

\* Loading the extension again, into another database, closing databases and
\* querying the one that is served do not end the host, as long as each load
\* finds the flag settled by the ones before and the database that is served is
\* not among the closed ones.
HostSurvives == ~crowded /\ ~Orphaned => host = "up"

\* The first load leads to a server that listens, whatever is loaded beside it.
FirstLoadServes ==
    (\E d \in Databases : pc[d] = "check") ~> (port # Nobody)
=============================================================================
