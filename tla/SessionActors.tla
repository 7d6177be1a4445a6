---------------------------- MODULE SessionActors ----------------------------
(***************************************************************************)
(* Everything that acts on the sessions of a host, at once: reconnect      *)
(* threads, routes, the periodic check and the checks of single sessions,  *)
(* terminals, creates and deletes.  Each module composed here describes    *)
(* one kind of actor beside the reconnect threads.  They share the rows,   *)
(* the locks and the daemon; a step of one leaves the locals of the others *)
(* alone, but a restart of the orchestrator ends them all.                 *)
(***************************************************************************)
EXTENDS HealthCycle, TerminalStream, SessionLifecycle

avars == <<cvars, viewVars, lifeVars>>

\* Rows left by an earlier process, or none.
ActorsInit ==
  /\ status \in [Sessions -> {"disconnected", Absent}]
  /\ created = {s \in Sessions : status[s] # Absent}
  /\ assigned \in SUBSET created
  /\ setup = {} /\ kept = {}
  /\ dpc = [d \in Deleters |-> "free"]
  /\ djob = [d \in Deleters |-> NoDelete]
  /\ InitRest /\ NoChecks /\ NoCycle /\ NoTerminals

\* What every step outside the cycle does to the cycle's clocks.
Ticks == Clock /\ UNCHANGED cooling

Reconnecting ==
  /\ \/ \E t \in Threads, s \in Sessions : Ask(t, s)
     \/ \E t \in Threads : ThreadStep(t)
     \/ \E s \in Sessions : RouteStep(s)
     \/ EnvStepButRestart
  /\ Ticks /\ UNCHANGED <<checkVars, cycleVars, viewVars, lifeVars>>

\* Checks of single sessions (health_check_session).
Checking ==
  /\ \E c \in Checkers :
       CheckerStep(c) \/ \E s \in Sessions : StartCheck(c, s)
  /\ Ticks /\ UNCHANGED <<cycleVars, viewVars, lifeVars>>

\* The cycle joins its own checks; others may be in flight.
Cycling ==
  /\ \/ CycleStep \/ Regathers \/ CooldownExpires
     \/ \E c \in Checkers : CheckProceeds(c)
     \/ \E s \in Sessions : ConnectingAges(s) \/ WindowExpires(s)
  /\ UNCHANGED <<viewVars, lifeVars>>

Viewing ==
  /\ \E v \in Viewers :
       \/ ViewerStep(v)
       \/ \E s \in Sessions : OpenTerminal(v, s) \/ OpenDetached(v, s)
  /\ Ticks /\ UNCHANGED <<checkVars, cycleVars, lifeVars>>

CreatingOrDeleting ==
  /\ \/ \E s \in Sessions : create_session(s) \/ SetupRaises(s)
     \/ \E d \in Deleters :
          DeleterStep(d) \/ \E s \in Sessions : DeleteResolves(d, s)
  /\ Ticks /\ UNCHANGED <<checkVars, cycleVars, viewVars>>

ActorsRestart == CServerRestart /\ TServerRestart /\ LServerRestart

ActorsNext ==
  \/ Reconnecting \/ Checking \/ Cycling \/ Viewing \/ CreatingOrDeleting
  \/ ActorsRestart

ActorsSpec == ActorsInit /\ [][ActorsNext]_avars

-----------------------------------------------------------------------------
\* Every variable of the four modules has its type.
ActorsTypeOK == CTypeOK /\ TTypeOK /\ LTypeOK

=============================================================================
