---------------------------- MODULE RemoteBrowser ----------------------------
(***************************************************************************)
(* The browsers that the remote daemon runs for sessions of its host       *)
(* (_rws_daemon.py, handle_browser_*; _rws_client.py, start_browser).  The *)
(* daemon handles one command at a time and never waits for a browser it   *)
(* started: one that exited is a defunct process, which os.kill(pid, 0)    *)
(* still finds, until Python's next subprocess call reaps it.  Chromium is *)
(* installed by a thread when it is missing.                               *)
(***************************************************************************)
EXTENDS Naturals, FiniteSets

CONSTANTS
  Sessions,      \* sessions of the host, which all ask for the same port
  MaxBrowsers    \* bound: browser processes ever started

VARIABLES
  entry,         \* browser_processes: the process of a session, 0 for none
  process,       \* browser processes
  chromium,      \* a Chromium is on the host
  installing,    \* _chromium_install
  starting,      \* sessions whose start request polls the daemon
  commands       \* other commands of the daemon so far that ran a process

browserVars == <<entry, process, chromium, installing, starting, commands>>

Pids == 1 .. MaxBrowsers
Started == {p \in Pids : process[p] # "none"}
Running == {p \in Pids : process[p] = "running"}
Found(p) == p # 0 /\ process[p] \in {"running", "defunct"}

BrowserInit ==
  /\ entry = [s \in Sessions |-> 0]
  /\ process = [p \in Pids |-> "none"]
  /\ chromium \in BOOLEAN
  /\ installing = "idle"
  /\ starting = {}
  /\ commands = 0

\* Popen reaps the defunct processes that nothing refers to any more.
Reaped == [p \in Pids |-> IF process[p] = "defunct" THEN "gone"
                          ELSE process[p]]

Answered(s) == starting' = starting \ {s}

-----------------------------------------------------------------------------
(* handle_browser_start, polled by start_browser of a view's request.      *)

AsksBrowser(s) ==
  /\ starting' = starting \cup {s}
  /\ s \notin starting
  /\ UNCHANGED <<entry, process, chromium, installing, commands>>

AlreadyRunning(s) ==
  /\ s \in starting /\ Found(entry[s])
  /\ Answered(s)
  /\ UNCHANGED <<entry, process, chromium, installing, commands>>

\* An entry whose process is gone is dropped on the way to any other answer.
Forgets(s) == entry' = [entry EXCEPT ![s] = 0]

PortTaken(s) ==
  /\ s \in starting /\ ~Found(entry[s]) /\ Running # {}
  /\ Forgets(s) /\ Answered(s)
  /\ UNCHANGED <<process, chromium, installing, commands>>

\* Without a Chromium the thread that installs one is started, again after a
\* failure, and the client is told to wait.
WaitsForInstall(s) ==
  /\ s \in starting /\ ~Found(entry[s]) /\ Running = {}
  /\ ~chromium
  /\ Forgets(s)
  /\ installing' = "active"
  /\ UNCHANGED <<process, chromium, starting, commands>>

LaunchesBrowser(s) ==
  LET p == Cardinality(Started) + 1 IN
  /\ s \in starting /\ ~Found(entry[s]) /\ Running = {}
  /\ chromium /\ p \in Pids
  /\ Answered(s)
  /\ \/ /\ process' = [Reaped EXCEPT ![p] = "running"]
        /\ entry' = [entry EXCEPT ![s] = p]
     \/ /\ process' = [Reaped EXCEPT ![p] = "defunct"]   \* killed: no CDP
        /\ Forgets(s)
  /\ UNCHANGED <<chromium, installing, commands>>

\* The client's deadline of five minutes.
StopsPolling(s) ==
  /\ s \in starting
  /\ Answered(s)
  /\ UNCHANGED <<entry, process, chromium, installing, commands>>

InstallFinishes ==
  /\ installing = "active"
  /\ installing' = "idle"
  /\ chromium' \in BOOLEAN
  /\ process' = Reaped
  /\ UNCHANGED <<entry, starting, commands>>

-----------------------------------------------------------------------------
\* Mutant: a browser that ignores SIGTERM is not killed.
StopsBrowserPolitely(s) ==
  /\ entry[s] # 0
  /\ \E left \in {"running", "defunct"} :
       process' = [process EXCEPT ![entry[s]] = IF @ = "running" THEN left
                                                ELSE @]
  /\ Forgets(s)
  /\ UNCHANGED <<chromium, installing, starting, commands>>

\* handle_browser_stop, when a session is deleted; _cleanup_browser waits for
\* the process to go and kills it after three seconds.
StopsBrowser(s) ==
  /\ entry[s] # 0
  /\ process' = [process EXCEPT ![entry[s]] = IF @ = "running" THEN "defunct"
                                              ELSE @]
  /\ Forgets(s)
  /\ UNCHANGED <<chromium, installing, starting, commands>>

\* handle_browser_status and the main loop: "Clean up dead browsers".
CleansUp ==
  /\ \E s \in Sessions : entry[s] # 0 /\ ~Found(entry[s])
  /\ entry' = [s \in Sessions |-> IF Found(entry[s]) THEN entry[s] ELSE 0]
  /\ UNCHANGED <<process, chromium, installing, starting, commands>>

\* Listing a directory with git, setting up the environment, kernel commands.
OtherCommand ==
  /\ commands < MaxBrowsers
  /\ commands' = commands + 1
  /\ process' = Reaped
  /\ UNCHANGED <<entry, chromium, installing, starting>>

BrowserExits(p) ==
  /\ process[p] = "running"
  /\ process' = [process EXCEPT ![p] = "defunct"]
  /\ UNCHANGED <<entry, chromium, installing, starting, commands>>

Serves(s) == \/ AlreadyRunning(s) \/ PortTaken(s) \/ WaitsForInstall(s)
             \/ LaunchesBrowser(s)

BrowserNext ==
  \/ CleansUp \/ OtherCommand \/ InstallFinishes
  \/ \E s \in Sessions : \/ AsksBrowser(s) \/ Serves(s) \/ StopsPolling(s)
                         \/ StopsBrowser(s)
  \/ \E p \in Pids : BrowserExits(p)

BrowserSpec == BrowserInit /\ [][BrowserNext]_browserVars

-----------------------------------------------------------------------------
\* Every running browser is the one its session's entry names: however starts,
\* polls, exits and stops follow each other, no browser holds the debugging
\* port that neither a stop nor the end of the daemon can terminate
\* (_rws_daemon.py, handle_browser_start and _cleanup_browser).
NoBrowserEscapes == \A p \in Running : \E s \in Sessions : entry[s] = p
=============================================================================
