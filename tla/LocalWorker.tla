---------------------------- MODULE LocalWorker ----------------------------
(***************************************************************************)
(* A local worker: a Claude agent in a tmux window of the orchestrator's   *)
(* machine (reconnect.py: reconnect_local_worker, trigger_reconnect;       *)
(* health.py: the local half of the health check; sessions.py: creating    *)
(* and deleting; terminal/session.py and terminal/manager.py).  Threads    *)
(* run the periodic check of all workers, or serve one request each.       *)
(***************************************************************************)
EXTENDS Naturals, FiniteSets

CONSTANTS
  Checker,        \* the thread of the check of all workers
  Requests,       \* threads of requests: check, reconnect, delete
  MaxTroubles     \* bound: exits of the agent, lost windows and files, starts
                  \* by hand, slow starts, requests, restarts of the server

VARIABLES
  worker,     \* the row's status, "gone" before creation and after delete
  made,       \* the row was ever there
  tmux,       \* what runs in the tmux window, "none" without a window
  talked,     \* the agent has a conversation file under the session's id
  deployed,   \* the files of the worker's tmp directory are all there
  held,       \* the thread that holds the reconnect lock, or "nobody"
  doing,      \* what each thread does next, and the status it read
  troubles

localVars ==
  <<worker, made, tmux, talked, deployed, held, doing, troubles>>

LocalThreads == {Checker} \cup Requests
Waiting == [at |-> "idle", read |-> "gone"]
DownStatuses == {"disconnected", "error"}
LocalStatuses == {"gone", "idle", "working", "waiting", "connecting",
                  "disconnected"}

LocalInit ==
  /\ worker = "gone" /\ made = FALSE
  /\ tmux = "none" /\ talked = FALSE /\ deployed = FALSE
  /\ held = "nobody"
  /\ doing = [t \in LocalThreads |-> Waiting]
  /\ troubles = 0

\* update_session of a row that is gone changes nothing.
SetWorker(s) == worker' = IF worker = "gone" THEN worker ELSE s
\* The hooks, scripts, skills and prompt of a worker, all written again.
DeploysFiles == deployed' = TRUE

GoOn(t, at) == doing' = [doing EXCEPT ![t].at = at]
Finish(t) == doing' = [doing EXCEPT ![t] = Waiting]
At(t, at) == doing[t].at = at

-----------------------------------------------------------------------------
\* POST /sessions.  The directory and the window are made and the row is
\* inserted; the launch preferences have no "skip_preferences", the KeyError
\* is logged, and nothing is deployed or launched.
CreateWorker ==
  /\ ~made
  /\ made' = TRUE
  /\ worker' = "idle"
  /\ tmux' = "shell"
  /\ UNCHANGED <<talked, deployed, held, doing, troubles>>

-----------------------------------------------------------------------------
(* The health check.                                                       *)

\* Check one worker.  The check of all skips one that is connecting.
StartCheck(t) ==
  /\ At(t, "idle") /\ worker # "gone"
  /\ IF t = Checker
     THEN worker # "connecting" /\ UNCHANGED troubles
     ELSE troubles < MaxTroubles /\ troubles' = troubles + 1
  /\ doing' = [doing EXCEPT ![t] = [at |-> "look", read |-> worker]]
  /\ UNCHANGED <<worker, made, tmux, talked, deployed, held>>

\* Connecting for over two minutes.
StuckConnecting ==
  /\ At(Checker, "idle") /\ worker = "connecting"
  /\ SetWorker("disconnected")
  /\ GoOn(Checker, "checked")
  /\ UNCHANGED <<made, tmux, talked, deployed, held, troubles>>

\* No window: disconnected.  Otherwise look for the agent's process.
LookForAgent(t) ==
  /\ At(t, "look")
  /\ GoOn(t, CASE tmux = "none" -> "lost"
               [] tmux = "agent" -> "alive"
               [] OTHER -> "recycle")
  /\ UNCHANGED <<worker, made, tmux, talked, deployed, held, troubles>>

\* _recycle_frozen_pane: the window is killed, with what runs in it ...
KillWindow(t) ==
  /\ At(t, "recycle")
  /\ tmux' = "none"
  /\ GoOn(t, "renew")
  /\ UNCHANGED <<worker, made, talked, deployed, held, troubles>>

\* ... and made anew.
RenewWindow(t) ==
  /\ At(t, "renew")
  /\ tmux' = IF tmux = "none" THEN "shell" ELSE tmux
  /\ GoOn(t, "lost")
  /\ UNCHANGED <<worker, made, talked, deployed, held, troubles>>

MarkLostWorker(t) ==
  /\ At(t, "lost")
  /\ IF doing[t].read = "disconnected" THEN UNCHANGED worker
     ELSE SetWorker("disconnected")
  /\ GoOn(t, "checked")
  /\ UNCHANGED <<made, tmux, talked, deployed, held, troubles>>

\* The files are restored; a worker read as lost gets its status back.
FoundAlive(t) ==
  /\ At(t, "alive")
  /\ DeploysFiles
  /\ IF doing[t].read \in DownStatuses
     THEN \E s \in {"idle", "waiting"} : SetWorker(s)
     ELSE UNCHANGED worker
  /\ GoOn(t, "checked")
  /\ UNCHANGED <<made, tmux, talked, held, troubles>>

\* The check of all workers goes on to reconnect those it finds lost now.
CheckEnds(t) ==
  /\ At(t, "checked")
  /\ IF t = Checker /\ worker \in DownStatuses
     THEN GoOn(t, "try") ELSE Finish(t)
  /\ UNCHANGED <<worker, made, tmux, talked, deployed, held, troubles>>

-----------------------------------------------------------------------------
(* Reconnecting.                                                           *)

AskReconnect(t) ==
  /\ t \in Requests /\ At(t, "idle") /\ worker # "gone"
  /\ troubles < MaxTroubles
  /\ troubles' = troubles + 1
  /\ GoOn(t, "try")
  /\ UNCHANGED <<worker, made, tmux, talked, deployed, held>>

\* trigger_reconnect: nothing when the lock is held.
TryReconnect(t) ==
  /\ At(t, "try")
  /\ IF held = "nobody" THEN GoOn(t, "mark") ELSE Finish(t)
  /\ UNCHANGED <<worker, made, tmux, talked, deployed, held, troubles>>

MarkReconnecting(t) ==
  /\ At(t, "mark")
  /\ SetWorker("connecting")
  /\ GoOn(t, "lock")
  /\ UNCHANGED <<made, tmux, talked, deployed, held, troubles>>

TakeLocalLock(t) ==
  /\ At(t, "lock")
  /\ IF held = "nobody"
     THEN held' = t /\ GoOn(t, "see")
     ELSE GoOn(t, "failed") /\ UNCHANGED held
  /\ UNCHANGED <<worker, made, tmux, talked, deployed, troubles>>

\* ensure_window; an agent that still runs is all there is to do.
SeeAgent(t) ==
  /\ At(t, "see")
  /\ tmux' = IF tmux = "none" THEN "shell" ELSE tmux
  /\ IF tmux = "agent"
     THEN held' = "nobody" /\ GoOn(t, "back")
     ELSE GoOn(t, "launch") /\ UNCHANGED held
  /\ UNCHANGED <<worker, made, talked, deployed, troubles>>

\* The files are restored and the commands typed, "claude -r <id>" the last;
\* into a window that is gone by now nothing is typed.
LaunchAgent(t) ==
  /\ At(t, "launch")
  /\ DeploysFiles
  /\ tmux' = IF tmux = "shell" THEN "launching" ELSE tmux
  /\ GoOn(t, "verify")
  /\ UNCHANGED <<worker, made, talked, held, troubles>>

\* The waits of dismiss_trust_prompt have passed: an agent that needs longer
\* to start is one of the troubles.
TrustPromptPasses ==
  IF tmux = "launching" /\ talked
  THEN troubles < MaxTroubles /\ troubles' = troubles + 1
  ELSE UNCHANGED troubles

\* Mutant: the lock is kept when verifying raises.
VerifyRaisesLocked(t) ==
  /\ At(t, "verify")
  /\ TrustPromptPasses
  /\ GoOn(t, "failed")
  /\ UNCHANGED <<worker, made, tmux, talked, deployed, held>>

\* _verify_session_started is not defined: a NameError, and no retry.  The
\* lock is released on the way out.
VerifyRaises(t) ==
  /\ At(t, "verify")
  /\ TrustPromptPasses
  /\ held' = "nobody"
  /\ GoOn(t, "failed")
  /\ UNCHANGED <<worker, made, tmux, talked, deployed>>

ReconnectFailed(t) ==
  /\ At(t, "failed")
  /\ SetWorker("disconnected")
  /\ Finish(t)
  /\ UNCHANGED <<made, tmux, talked, deployed, held, troubles>>

ReconnectWorked(t) ==
  /\ At(t, "back")
  /\ \E s \in {"idle", "waiting"} : SetWorker(s)
  /\ Finish(t)
  /\ UNCHANGED <<made, tmux, talked, deployed, held, troubles>>

-----------------------------------------------------------------------------
(* Deleting, and what runs in the window.                                *)

AskDelete(t) ==
  /\ t \in Requests /\ At(t, "idle") /\ worker # "gone"
  /\ GoOn(t, "delete")
  /\ UNCHANGED <<worker, made, tmux, talked, deployed, held, troubles>>

\* With the lock, or without it after 10 s; it is released in either case.
DeleteWorker(t) ==
  /\ At(t, "delete")
  /\ worker' = "gone" /\ tmux' = "none" /\ deployed' = FALSE
  /\ held' = "nobody"
  /\ Finish(t)
  /\ UNCHANGED <<made, talked, troubles>>

\* "claude -r" starts when there is a conversation to resume.
AgentStarts ==
  /\ tmux = "launching" /\ talked
  /\ tmux' = "agent"
  /\ UNCHANGED <<worker, made, talked, deployed, held, doing, troubles>>

\* "No conversation found": back at the prompt.
AgentRefuses ==
  /\ tmux = "launching" /\ ~talked
  /\ tmux' = "shell"
  /\ UNCHANGED <<worker, made, talked, deployed, held, doing, troubles>>

\* Somebody starts the agent by hand, under the session's id.
StartedByHand ==
  /\ tmux = "shell" /\ troubles < MaxTroubles
  /\ tmux' = "agent" /\ talked' = TRUE /\ troubles' = troubles + 1
  /\ UNCHANGED <<worker, made, deployed, held, doing>>

\* The agent's hooks report what it does.
HookReports ==
  /\ tmux = "agent"
  /\ \E s \in {"idle", "working", "waiting"} : SetWorker(s)
  /\ UNCHANGED <<made, tmux, talked, deployed, held, doing, troubles>>

AgentExits ==
  /\ tmux = "agent" /\ troubles < MaxTroubles
  /\ tmux' \in {"shell", "none"}
  /\ troubles' = troubles + 1
  /\ UNCHANGED <<worker, made, talked, deployed, held, doing>>

TmpWiped ==
  /\ deployed /\ troubles < MaxTroubles
  /\ deployed' = FALSE /\ troubles' = troubles + 1
  /\ UNCHANGED <<worker, made, tmux, talked, held, doing>>

\* Threads and locks go; startup_check marks a worker without a window.
LocalRestart ==
  /\ troubles < MaxTroubles
  /\ troubles' = troubles + 1
  /\ held' = "nobody" /\ doing' = [t \in LocalThreads |-> Waiting]
  /\ IF tmux = "none" THEN SetWorker("disconnected") ELSE UNCHANGED worker
  /\ UNCHANGED <<made, tmux, talked, deployed>>

LocalStep(t) ==
  \/ StartCheck(t) \/ LookForAgent(t) \/ KillWindow(t) \/ RenewWindow(t)
  \/ MarkLostWorker(t) \/ FoundAlive(t) \/ CheckEnds(t) \/ TryReconnect(t)
  \/ MarkReconnecting(t) \/ TakeLocalLock(t) \/ SeeAgent(t) \/ LaunchAgent(t)
  \/ VerifyRaises(t) \/ ReconnectFailed(t) \/ ReconnectWorked(t)
  \/ DeleteWorker(t)

LocalNext ==
  \/ CreateWorker \/ StuckConnecting \/ AgentStarts \/ AgentRefuses
  \/ StartedByHand \/ HookReports \/ AgentExits \/ TmpWiped \/ LocalRestart
  \/ \E t \in LocalThreads : LocalStep(t) \/ AskReconnect(t) \/ AskDelete(t)

\* The check of all workers runs again and again, requests it began are
\* finished, and an agent that was launched starts sooner or later.
LocalFairness ==
  /\ \A t \in Requests :
       WF_localVars(LocalStep(t) /\ doing[t].at # "idle")
  /\ WF_localVars(LocalStep(Checker))
  /\ WF_localVars(StuckConnecting)
  /\ SF_localVars(AgentStarts)

LocalSpec == LocalInit /\ [][LocalNext]_localVars /\ LocalFairness

-----------------------------------------------------------------------------
\* Whatever ends the agent of a worker that has a conversation, and although
\* a reconnect of a local worker always ends in an error, the next check
\* finds the agent it launched: agent, files and status come back
\* (health.py, check_and_update_worker_health and check_all_workers_health).
LocalRecovers ==
  []<>(\/ worker = "gone" \/ ~talked
       \/ tmux = "agent" /\ deployed /\ worker \notin {"connecting"}
                           /\ worker \notin DownStatuses)

=============================================================================
