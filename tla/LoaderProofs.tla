---------------------------- MODULE LoaderProofs -----------------------------
(***************************************************************************)
(* Theorems about the module Loader, for any set of databases.             *)
(*                                                                         *)
(* Both rest on what g_started stands for.  That it is set means that some *)
(* thread has gone past setting it, and such a thread never goes back: so  *)
(* a thread that returns leaves the server to that one.  When loads do not *)
(* overlap, at most one thread is between the check and the setting, it    *)
(* has found g_started unset and it still is: so only one thread ever gets *)
(* to the port.                                                            *)
(***************************************************************************)
EXTENDS Loader, TLAPS

\* The steps of start_server behind the setting of g_started.
Claimed == {"log", "bind", "serve"}

\* A database that was not loaded has no thread.
NoThreadYet == \A d \in Databases : db[d] = "new" => pc[d] = "none"

Base == TypeOK /\ NoThreadYet

LEMMA BasePreserved == Base /\ [Next]_vars => Base'
  <1> SUFFICES ASSUME Base, [Next]_vars
               PROVE  Base'
    OBVIOUS
  <1>1. CASE UNCHANGED vars
    BY <1>1 DEF vars, Base, TypeOK, NoThreadYet
  <1>2. ASSUME NEW d \in Databases, LoadInternal(d) \/ CloseDatabase(d) \/ Query(d)
        PROVE  Base'
    BY <1>2 DEF Base, TypeOK, NoThreadYet, LoadInternal, CloseDatabase, Query
  <1>3. ASSUME NEW d \in Databases, start_server(d)
        PROVE  Base'
    <2>1. TypeOK'
      BY <1>3 DEF Base, TypeOK, start_server, Check, SetStarted, OpenLog, Bind, Goes
    <2>2. NoThreadYet'
      BY <1>3 DEF Base, TypeOK, NoThreadYet, start_server, Check, SetStarted,
                  OpenLog, Bind, Goes
    <2> QED
      BY <2>1, <2>2 DEF Base
  <1> QED
    BY <1>1, <1>2, <1>3 DEF Next

LEMMA BaseHolds == Spec => []Base
  <1>1. Init => Base
    BY DEF Init, Base, TypeOK, NoThreadYet
  <1> QED
    BY <1>1, BasePreserved, PTL DEF Spec

-----------------------------------------------------------------------------
(***************************************************************************)
(* A thread that returns leaves a server behind                            *)
(***************************************************************************)
StartedIsClaimed == g_started => \E e \in Databases : pc[e] \in Claimed

LEMMA ClaimStays ==
  ASSUME Base, [Next]_vars, NEW e \in Databases, pc[e] \in Claimed
  PROVE  pc'[e] \in Claimed
  <1>1. CASE UNCHANGED vars
    BY <1>1 DEF vars
  <1>2. ASSUME NEW d \in Databases, LoadInternal(d) \/ CloseDatabase(d) \/ Query(d)
        PROVE  pc'[e] \in Claimed
    BY <1>2 DEF Base, TypeOK, NoThreadYet, LoadInternal, CloseDatabase, Query,
                Claimed
  <1>3. ASSUME NEW d \in Databases, start_server(d)
        PROVE  pc'[e] \in Claimed
    BY <1>3 DEF Base, TypeOK, start_server, Check, SetStarted, OpenLog, Bind, Goes,
                Claimed
  <1> QED
    BY <1>1, <1>2, <1>3 DEF Next

LEMMA StartedIsClaimedInductive ==
  ASSUME Base, StartedIsClaimed, [Next]_vars
  PROVE  StartedIsClaimed'
  <1>1. CASE g_started
    BY <1>1, ClaimStays DEF StartedIsClaimed
  <1>2. ASSUME ~g_started, g_started'
        PROVE  \E e \in Databases : pc'[e] \in Claimed
    <2>1. PICK d \in Databases : SetStarted(d)
      BY <1>2 DEF Next, vars, LoadInternal, CloseDatabase, Query, start_server,
                  Check, OpenLog, Bind
    <2>2. pc'[d] = "log"
      BY <2>1 DEF SetStarted, Goes, Base, TypeOK
    <2> QED
      BY <2>2 DEF Claimed
  <1> QED
    BY <1>1, <1>2 DEF StartedIsClaimed

LEMMA ReturnsInductive ==
  ASSUME Base, StartedIsClaimed, ReturnsToAServer, [Next]_vars
  PROVE  ReturnsToAServer'
  <1> SUFFICES ASSUME NEW d \in Databases, pc'[d] = "returned"
               PROVE  \E e \in Databases \ {d} : pc'[e] \in Claimed
    BY DEF ReturnsToAServer, Claimed
  <1>1. CASE pc[d] = "returned"
    BY <1>1, ClaimStays DEF ReturnsToAServer, Claimed
  <1>2. CASE pc[d] # "returned"
    <2>1. Check(d) /\ g_started
      BY <1>2 DEF Next, vars, LoadInternal, CloseDatabase, Query, start_server,
                  Check, SetStarted, OpenLog, Bind, Goes, Base, TypeOK
    <2>2. pc[d] = "check"
      BY <2>1 DEF Check, Goes
    <2>3. PICK e \in Databases : pc[e] \in Claimed
      BY <2>1 DEF StartedIsClaimed
    <2> QED
      BY <2>2, <2>3, ClaimStays DEF Claimed
  <1> QED
    BY <1>1, <1>2

\* A thread of start_server that returns at once leaves the serving to another
\* one, which has set g_started, for any number of loads in any order.
THEOREM ReturnsToAServerHolds == Spec => []ReturnsToAServer
  <1>1. Init => StartedIsClaimed /\ ReturnsToAServer
    BY DEF Init, StartedIsClaimed, ReturnsToAServer
  <1>2. /\ Base /\ StartedIsClaimed /\ ReturnsToAServer
        /\ [Next]_vars
        => (StartedIsClaimed /\ ReturnsToAServer)'
    BY StartedIsClaimedInductive, ReturnsInductive
  <1> QED
    BY <1>1, <1>2, BaseHolds, PTL DEF Spec

-----------------------------------------------------------------------------
(***************************************************************************)
(* Loads that do not overlap                                               *)
(***************************************************************************)
Calm == ~PortTaken /\ ~LogFails

\* One thread at most is about to decide, or one has; never both a thread about
\* to set g_started and one that did.
OneDecides ==
    /\ \A d, e \in Databases :
           pc[d] \in {"check", "set"} /\ pc[e] \in {"check", "set"} => d = e
    /\ \A d, e \in Databases : pc[d] \in Claimed /\ pc[e] \in Claimed => d = e
    /\ \A d \in Databases : pc[d] \in Claimed => g_started
    /\ \A d \in Databases : pc[d] = "set" => ~g_started
    /\ \A d \in Databases : pc[d] \in Claimed \ {"serve"} => port = Nobody
    /\ ~g_started => port = Nobody

CalmInv == ~crowded => OneDecides /\ (host = "up" \/ Orphaned)

\* A closed database is not opened again, and its server does not stop.
LEMMA OrphanedStays == Base /\ Orphaned /\ [Next]_vars => Orphaned'
  <1> SUFFICES ASSUME Base, [Next]_vars,
                      NEW d \in Databases, pc[d] = "serve", db[d] = "closed"
               PROVE  pc'[d] = "serve" /\ db'[d] = "closed"
    BY DEF Orphaned
  <1>1. CASE UNCHANGED vars
    BY <1>1 DEF vars
  <1>2. ASSUME NEW e \in Databases, LoadInternal(e) \/ CloseDatabase(e) \/ Query(e)
        PROVE  pc'[d] = "serve" /\ db'[d] = "closed"
    BY <1>2 DEF Base, TypeOK, LoadInternal, CloseDatabase, Query, NoThreadYet
  <1>3. ASSUME NEW e \in Databases, start_server(e)
        PROVE  pc'[d] = "serve" /\ db'[d] = "closed"
    BY <1>3 DEF Base, TypeOK, start_server, Check, SetStarted, OpenLog, Bind, Goes
  <1> QED
    BY <1>1, <1>2, <1>3 DEF Next

\* While no load overlaps another, no step but a query of a closed database
\* brings the host down.
LEMMA CalmHostStays ==
  ASSUME Calm, Base, CalmInv, [Next]_vars, ~crowded', host = "up"
  PROVE  host' = "up" \/ Orphaned'
  <1>1. CASE UNCHANGED vars
    BY <1>1 DEF vars
  <1>2. ASSUME NEW d \in Databases, LoadInternal(d) \/ CloseDatabase(d)
        PROVE  host' = "up"
    BY <1>2 DEF LoadInternal, CloseDatabase
  <1>3. ASSUME NEW d \in Databases, start_server(d)
        PROVE  host' = "up"
    BY <1>3 DEF start_server, Check, SetStarted, OpenLog, Bind, Goes, Calm,
                CalmInv, OneDecides, Claimed
  <1>4. ASSUME NEW d \in Databases, Query(d)
        PROVE  host' = "up" \/ Orphaned'
    BY <1>4 DEF Query, Orphaned
  <1> QED
    BY <1>1, <1>2, <1>3, <1>4 DEF Next

LEMMA OneDecidesInductive ==
  ASSUME Calm, Base, CalmInv, [Next]_vars, ~crowded'
  PROVE  OneDecides'
  <1>1. CASE UNCHANGED vars
    BY <1>1 DEF vars, CalmInv, OneDecides
  <1>2. ASSUME NEW d \in Databases, LoadInternal(d)
        PROVE  OneDecides'
    BY <1>2 DEF LoadInternal, Calm, Base, TypeOK, CalmInv, OneDecides, Claimed
  <1>3. ASSUME NEW d \in Databases, CloseDatabase(d) \/ Query(d)
        PROVE  OneDecides'
    BY <1>3 DEF CloseDatabase, Query, CalmInv, OneDecides
  <1>4. ASSUME NEW d \in Databases, Check(d)
        PROVE  OneDecides'
    BY <1>4 DEF Check, Goes, Base, TypeOK, CalmInv, OneDecides, Claimed
  <1>5. ASSUME NEW d \in Databases, SetStarted(d)
        PROVE  OneDecides'
    BY <1>5 DEF SetStarted, Goes, Base, TypeOK, CalmInv, OneDecides, Claimed
  <1>6. ASSUME NEW d \in Databases, OpenLog(d)
        PROVE  OneDecides'
    BY <1>6 DEF OpenLog, Goes, Calm, Base, TypeOK, CalmInv, OneDecides, Claimed
  <1>7. ASSUME NEW d \in Databases, Bind(d)
        PROVE  OneDecides'
    BY <1>7 DEF Bind, Goes, Calm, Base, TypeOK, CalmInv, OneDecides, Claimed
  <1> QED
    BY <1>1, <1>2, <1>3, <1>4, <1>5, <1>6, <1>7 DEF Next, start_server

\* Overlap is never undone.
LEMMA CrowdedStays == [Next]_vars /\ crowded => crowded'
  BY DEF Next, vars, LoadInternal, CloseDatabase, Query, start_server, Check,
         SetStarted, OpenLog, Bind, Goes

LEMMA CalmInductive ==
  ASSUME Calm, Base, CalmInv, [Next]_vars
  PROVE  CalmInv'
  <1> SUFFICES ASSUME ~crowded'
               PROVE  OneDecides' /\ (host' = "up" \/ Orphaned')
    BY DEF CalmInv
  <1>1. host = "up" \/ Orphaned
    BY CrowdedStays DEF CalmInv
  <1>2. host' = "up" \/ Orphaned'
    BY <1>1, OrphanedStays, CalmHostStays
  <1> QED
    BY <1>2, OneDecidesInductive

\* Unless loads overlap or the database that is served is closed, and where the
\* port is free and the log can be opened, neither a load of the extension nor a
\* query ends the host, however many databases it loads and closes.
THEOREM CalmHostSurvives == Calm => (Spec => []HostSurvives)
  <1> SUFFICES ASSUME Calm
               PROVE  Spec => []HostSurvives
    OBVIOUS
  <1>1. Init => CalmInv
    BY DEF Init, CalmInv, OneDecides, Claimed
  <1>2. Base /\ CalmInv /\ [Next]_vars => CalmInv'
    BY CalmInductive
  <1>3. CalmInv => HostSurvives
    BY DEF CalmInv, HostSurvives
  <1> QED
    BY <1>1, <1>2, <1>3, BaseHolds, PTL DEF Spec
==============================================================================
