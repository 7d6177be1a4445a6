----------------------------- MODULE MCWorkbench -----------------------------
(* The components around the sessions that share no state: views of remote   *)
(* browsers, tabs of the local browser, the browsers of a daemon, files,     *)
(* notebook kernels, messages to agents, backups, and the readers of a quiet *)
(* pane two terminals share.  One run checks each of them: a behaviour is a  *)
(* behaviour of one component, chosen at its start.                          *)
EXTENDS BrowserView, BrowserTabs, RemoteBrowser, FileAccess, Kernels,
        AgentInput, Backup, PaneStream, TLC

VARIABLE part

\* Sessions, requests, notebooks, senders and watchers are interchangeable;
\* as a configuration gives all of them the same names, one permutation of the
\* names serves every part.
MCSymmetry == Permutations(Sessions)

MCInit ==
  /\ part \in {"view", "tabs", "browsers", "files", "kernels", "input",
               "backup", "panes"}
  /\ FwdInit /\ ViewInit /\ TabInit /\ BrowserInit /\ FileInit /\ KernelsInit
  /\ InputInit /\ BackupInit /\ PaneInit
  \* Components that are not chosen add no initial states.
  /\ part # "view" => tabs = {}
  /\ part # "tabs" => pages = {}
  /\ part # "browsers" => ~chromium

Rest(vs) == UNCHANGED <<part, vs>>

\* Editors open one of the paths; the other is there to move it to.
FileBound == \A r \in Requests : request'[r].path = NoRequest.path

\* Connections of requests matter to a restore, archives do not: a writer has
\* one only while no backup was begun.
BackupBound ==
  \/ \A w \in Writers : handle'[w] = "none"
  \/ archives' = {} /\ \A b \in Backups : backup'[b].at = "idle"

\* A notebook waits for the end of the installation's thread, which shares
\* nothing with the kernels.
KernelBound == made'.kernels > 0 => install'.threads = {}

\* Of two terminals of a quiet pane one at a time makes a sync, which works on
\* the terminal's own state only.
PaneBound == Cardinality({c \in Watchers : handler'[c].syncing}) <= 1

MCNext ==
  \/ /\ part = "view" /\ ViewNext
     /\ Rest(<<tabVars, browserVars, fileVars, kernelVars, inputVars,
               backupVars, paneVars>>)
  \/ /\ part = "tabs" /\ TabNext
     /\ Rest(<<bvars, browserVars, fileVars, kernelVars, inputVars,
               backupVars, paneVars>>)
  \/ /\ part = "browsers" /\ BrowserNext
     /\ Rest(<<bvars, tabVars, fileVars, kernelVars, inputVars,
               backupVars, paneVars>>)
  \/ /\ part = "files" /\ FileNext /\ FileBound
     /\ Rest(<<bvars, tabVars, browserVars, kernelVars, inputVars,
               backupVars, paneVars>>)
  \/ /\ part = "kernels" /\ KernelsNext /\ KernelBound
     /\ Rest(<<bvars, tabVars, browserVars, fileVars, inputVars,
               backupVars, paneVars>>)
  \/ /\ part = "input" /\ InputNext
     /\ Rest(<<bvars, tabVars, browserVars, fileVars, kernelVars,
               backupVars, paneVars>>)
  \/ /\ part = "backup" /\ BackupNext /\ BackupBound
     /\ Rest(<<bvars, tabVars, browserVars, fileVars, kernelVars, inputVars,
               paneVars>>)
  \/ /\ part = "panes" /\ PaneNext /\ PaneBound
     /\ Rest(<<bvars, tabVars, browserVars, fileVars, kernelVars, inputVars,
               backupVars>>)

MCSpec ==
  MCInit /\ [][MCNext]_<<part, bvars, tabVars, browserVars, fileVars,
                         kernelVars, inputVars, backupVars, paneVars>>

=============================================================================
