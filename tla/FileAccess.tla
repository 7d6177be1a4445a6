----------------------------- MODULE FileAccess -----------------------------
(***************************************************************************)
(* The file routes of a session (api/routes/files.py) on a local directory *)
(* or through the remote daemon's file handlers (_rws_daemon.py), which    *)
(* run one at a time.  Requests run in threads.  Contents read from remote *)
(* hosts are cached.  The session's agent writes the same files, between   *)
(* any two steps.  A file is the number of the write that made it, 0 when  *)
(* absent; its modification time is taken to tell writes apart (they are   *)
(* more than the tolerance of 0.5 s apart).                                *)
(***************************************************************************)
EXTENDS Naturals

CONSTANTS
  Requests,     \* request threads, each with an editor in a browser
  Paths,        \* paths within the work directory
  MaxVersion    \* bound: writes

ASSUME PathsAssumption == Paths # {}

VARIABLES
  place,        \* the session is "local" or "remote"
  disk,         \* a path's version and who wrote it
  written,      \* versions written so far
  contents,     \* _remote_content_cache
  listings,     \* _remote_dir_cache has a listing of the directory
  request       \* a request: its step, its arguments, what its editor holds

fileVars == <<place, disk, written, contents, listings, request>>

NoFile == [version |-> 0, by |-> "nobody"]
Unread == [version |-> 0, time |-> 0]      \* a content and its stat's time
NoRequest == [at |-> "free", op |-> "none", path |-> CHOOSE p \in Paths : TRUE,
              got |-> Unread, base |-> Unread]

FileInit ==
  /\ place = "unset"
  /\ disk = [p \in Paths |-> NoFile]
  /\ written = 0
  /\ contents = [p \in Paths |-> Unread]
  /\ listings = FALSE
  /\ request = [r \in Requests |-> NoRequest]

Exists(p) == disk[p].version # 0
Resolved == place # "unset"

\* _resolve_session finds the host and the work directory.
ResolveSession ==
  /\ place = "unset"
  /\ place' \in {"local", "remote"}
  /\ UNCHANGED <<disk, written, contents, listings, request>>

-----------------------------------------------------------------------------
(* The agent and the expiry of cached contents.                            *)

WriteVersion(p, who) ==
  /\ written < MaxVersion
  /\ written' = written + 1
  /\ disk' = [disk EXCEPT ![p] = [version |-> written + 1, by |-> who]]

AgentWrites(p) ==
  /\ Resolved
  /\ WriteVersion(p, "agent")
  /\ UNCHANGED <<place, contents, listings, request>>

\* 120 seconds for a content, 5 for a listing; also the purge on every tenth
\* request and the eviction of the oldest content.
ContentExpires(p) ==
  /\ contents[p] # Unread
  /\ contents' = [contents EXCEPT ![p] = Unread]
  /\ UNCHANGED <<place, disk, written, listings, request>>

ListingExpires ==
  /\ listings
  /\ listings' = FALSE
  /\ UNCHANGED <<place, disk, written, contents, request>>

-----------------------------------------------------------------------------
(* Requests.  _check_rate_limit, _validate_path and _validate_not_root may *)
(* refuse one and a remote host may be out of reach: neither is a step.    *)

Free(r) == Resolved /\ request[r].at = "free"

\* The daemon is between two steps of another request's handler.
DaemonBusy == \E r \in Requests :
  place = "remote" /\ request[r].at \in {"content", "replace"}

Reaches(r) == Free(r) /\ ~DaemonBusy

\* What the editor opens is the content and the time of one file.
Opens(r, p, file) ==
  request' = [request EXCEPT ![r] = [NoRequest EXCEPT !.path = p,
                                                      !.base = file]]

\* read_file_content of a remote session with a cache entry.
ReadCached(r, p) ==
  /\ Free(r) /\ place = "remote" /\ contents[p] # Unread
  /\ Opens(r, p, contents[p])
  /\ UNCHANGED <<place, disk, written, contents, listings>>

\* read_file_content and read_file_raw, handle_read_file and
\* handle_read_file_raw: the stat first; a refresh passes over the cache.
StatFile(r, p, op) ==
  LET v == disk[p].version IN
  /\ Reaches(r)
  /\ op = "read" /\ place = "remote" => contents[p] = Unread
  /\ IF Exists(p)
     THEN request' = [request EXCEPT ![r] =
            [@ EXCEPT !.at = "content", !.op = op, !.path = p,
                      !.got = [version |-> v, time |-> v]]]
     ELSE Opens(r, p, Unread)
  /\ UNCHANGED <<place, disk, written, contents, listings>>

\* Mutant: the content first and the stat after it.
ReadContentFirst(r) ==
  LET k == request[r]
      file == [k.got EXCEPT !.time = disk[k.path].version]
  IN /\ k.at = "content"
     /\ IF file.time = 0 THEN Opens(r, k.path, Unread)
        ELSE IF place = "remote" /\ k.op # "raw"
             THEN request' = [request EXCEPT ![r] =
                    [k EXCEPT !.at = "store", !.got = file]]
             ELSE Opens(r, k.path, file)
     /\ UNCHANGED <<place, disk, written, contents, listings>>

\* The content next; a remote one comes back before it is cached, whatever
\* happens meanwhile.
ReadContent(r) ==
  LET k == request[r]
      file == [k.got EXCEPT !.version = disk[k.path].version]
  IN /\ k.at = "content"
     /\ IF file.version = 0 THEN Opens(r, k.path, Unread)
        ELSE IF place = "remote" /\ k.op # "raw"
             THEN request' = [request EXCEPT ![r] =
                    [k EXCEPT !.at = "store", !.got = file]]
             ELSE Opens(r, k.path, file)
     /\ UNCHANGED <<place, disk, written, contents, listings>>

StoreContent(r) ==
  LET k == request[r] IN
  /\ k.at = "store"
  /\ contents' = [contents EXCEPT ![k.path] = k.got]
  /\ Opens(r, k.path, k.got)
  /\ UNCHANGED <<place, disk, written, listings>>

\* check_mtimes: the editor learns that its file changed and lets go of it.
CheckMtimes(r) ==
  /\ Reaches(r) /\ disk[request[r].path].version # request[r].base.time
  /\ Opens(r, request[r].path, Unread)
  /\ UNCHANGED <<place, disk, written, contents, listings>>

\* list_files, local or from the daemon; a remote listing may be cached.
ListFiles(r) ==
  /\ Reaches(r) /\ place = "remote" /\ ~listings
  /\ listings' = TRUE
  /\ UNCHANGED <<place, disk, written, contents, request>>

-----------------------------------------------------------------------------
(* Saves.  A "save" has the time the editor knows, a "create" may make the *)
(* file and has none.  _write_local_file and handle_write_file check ...   *)

Conflicts(r) == disk[request[r].path].version # request[r].base.time

CheckSave(r) ==
  LET k == request[r]
      v == disk[k.path].version
  IN /\ Reaches(r) /\ k.base # Unread /\ Exists(k.path) /\ ~Conflicts(r)
     /\ request' = [request EXCEPT ![r] =
          [k EXCEPT !.at = "replace", !.op = "save",
                    !.got = [version |-> v, time |-> v]]]
     /\ UNCHANGED <<place, disk, written, contents, listings>>

CheckCreate(r, p) ==
  /\ Reaches(r)
  /\ request' = [request EXCEPT ![r] =
       [NoRequest EXCEPT !.at = "replace", !.op = "create", !.path = p]]
  /\ UNCHANGED <<place, disk, written, contents, listings>>

\* ... and then move a temporary file over the file.
ReplaceFile(r) ==
  LET k == request[r]
      file == [version |-> written + 1, time |-> written + 1]
  IN /\ k.at = "replace"
     /\ WriteVersion(k.path, "editor")
     /\ IF place = "remote"
        THEN request' = [request EXCEPT ![r] =
               [k EXCEPT !.at = "saved", !.got = file]]
        ELSE Opens(r, k.path, file)
     /\ UNCHANGED <<place, contents, listings>>

\* A remote save drops the cache entry when the answer is in.
ForgetContent(r) ==
  LET k == request[r] IN
  /\ k.at = "saved"
  /\ contents' = [contents EXCEPT ![k.path] = Unread]
  /\ Opens(r, k.path, k.got)
  /\ UNCHANGED <<place, disk, written, listings>>

-----------------------------------------------------------------------------
(* Deleting and moving leave the cache alone on a remote host, and it is   *)
(* not filled on a local one.  (Directories hold no versions: mkdir is no  *)
(* step.)                                                                  *)

DeleteFile(r, p) ==
  /\ Reaches(r) /\ Exists(p)
  /\ disk' = [disk EXCEPT ![p] = NoFile]
  /\ UNCHANGED <<place, written, contents, listings, request>>

\* shutil.move takes the place of a file at the destination.
MoveFile(r, p, q) ==
  /\ Reaches(r) /\ Exists(p) /\ p # q
  /\ disk' = [disk EXCEPT ![q] = disk[p], ![p] = NoFile]
  /\ UNCHANGED <<place, written, contents, listings, request>>

FileStep(r) ==
  \/ ReadContent(r) \/ StoreContent(r) \/ CheckMtimes(r) \/ ListFiles(r)
  \/ CheckSave(r) \/ ReplaceFile(r) \/ ForgetContent(r)

FileNext ==
  \/ ResolveSession \/ ListingExpires
  \/ \E p \in Paths : AgentWrites(p) \/ ContentExpires(p)
  \/ \E r \in Requests :
       \/ FileStep(r)
       \/ \E p \in Paths :
            \/ ReadCached(r, p) \/ CheckCreate(r, p) \/ DeleteFile(r, p)
            \/ \E op \in {"read", "refresh", "raw"} : StatFile(r, p, op)
            \/ \E q \in Paths : MoveFile(r, p, q)

FileSpec == FileInit /\ [][FileNext]_fileVars

-----------------------------------------------------------------------------
\* On a remote host a save replaces nothing newer than what its editor had
\* opened, even when that came from a stale cache entry: content and time stay
\* together and the time is the older (files.py, _write_remote_file,
\* _read_remote_file_cached; _rws_daemon.py, handle_write_file).  Only a write
\* or a removal by the agent between the check and the replacement is lost.
SavesReplaceNothingNewer ==
  [][\A r \in Requests :
       LET p == request[r].path
           checked == request[r].got.version
       IN place = "remote" /\ request[r].op = "save"
            /\ request[r].at = "replace" /\ request'[r].at # "replace"
          => /\ checked <= request[r].base.version
             /\ disk[p].version # checked => disk[p].by \in {"agent", "nobody"}
     ]_fileVars
=============================================================================
