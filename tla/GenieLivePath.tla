--------------------------- MODULE GenieLivePath ---------------------------
(***************************************************************************)
(* The path of a Genie, which does not send it live.  Asked for it         *)
(* (req_all_path), the mower uploads the whole path of its task to the     *)
(* cloud and announces the upload by a new path_time in its shadow.  A     *)
(* loop that runs while the mower is out (genie_live_path_refresh.py) and  *)
(* the coordinator's poll each ask, wait, download and publish.  When Home *)
(* Assistant starts a task, the path that is shown stays until an upload   *)
(* newer than the start (the baseline) can take its place.                 *)
(*                                                                         *)
(* The code hardly looks into a path, so paths are numbered in the order   *)
(* in which the mower drives them.  A mower that returns counts as out.    *)
(***************************************************************************)
EXTENDS Integers

CONSTANTS
    MaxPaths,     \* bound: paths of the mower
    MaxTimes,     \* bound: path_times
    Starts        \* [out, restarted, count]: where behaviours begin, and the bounds:
                  \* tasks HA starts, polls, faults, dockings and repeated uploads to come

VARIABLES
    mower,        \* its path and path_time, whether it is out, whether it was asked
    file,         \* the path in the cloud
    pending,      \* _pending_live_property
    known,        \* reported_state: path_time, and whether the mower is out
    path,         \* reported_state: _path_definition
    definition,   \* coordinator._path_definition
    lastTime,     \* coordinator._last_path_time
    failed,       \* coordinator._path_definition_error
    request,      \* the key of the last request, and whether it was 10 s ago or less
    session,      \* of the task HA started: waiting, baseline, what stays visible
    job,          \* what the loop and the poll are doing: at, its path_time, the answer
    turn,         \* what else the loop has read: the session and _last_path_time
    pollOut,      \* what else the poll has read: whether the mower is out
    count,        \* what is left of the bounds
    crossed       \* history: the loop and the poll were downloading at the same time

coordinator == <<known, path, definition, lastTime, failed, session>>
work        == <<job, turn, pollOut, crossed>>
vars        == <<mower, file, pending, coordinator, request, work, count>>

None   == 0             \* no path_time
Latest == -1            \* the key of a request without one
Times  == None .. MaxTimes
Empty  == 0             \* {}: a download failed
Unread == -1            \* None: there was no download
Paths  == Unread .. MaxPaths
Who    == {"loop", "poll"}

Flushed   == [any |-> FALSE, time |-> None]
NoSession == [waiting |-> FALSE, baseline |-> None, visible |-> Unread]
Idle      == [at |-> "none", time |-> None, got |-> Unread]
NoTurn    == [current |-> TRUE, waiting |-> FALSE, baseline |-> None, last |-> None]

\* What is assumed of the constants: there are path_times enough for every upload.
Counts == [start : Nat, poll : Nat, fault : Nat, dock : Nat, again : Nat]

PathBounds ==
    /\ MaxPaths \in Nat \ {0} /\ MaxTimes \in Nat
    /\ \A s \in Starts : /\ s.out \in BOOLEAN /\ s.restarted \in BOOLEAN /\ s.count \in Counts
                         /\ s.count.again + MaxPaths <= MaxTimes

HasPayload(p) == p > Empty       \* _definition_has_payload

TypeOK ==
    /\ mower.path \in 1 .. MaxPaths /\ mower.time \in Times
    /\ {mower.out, mower.asked, known.out, pending.any, failed, session.waiting, pollOut,
        crossed} \subseteq BOOLEAN
    /\ {file, path, definition, session.visible, job.loop.got, job.poll.got} \subseteq Paths
    /\ {pending.time, known.time, lastTime, session.baseline, job.loop.time,
        job.poll.time, turn.baseline, turn.last} \subseteq Times
    /\ job.loop.at \in {"none", "due", "awaiting", "fetching"}
    /\ job.poll.at \in {"none", "awaiting", "fetching", "ending"}

\* Home Assistant has just restarted, or shows the path of the mower's last task.
Init ==
    /\ \E s \in Starts :
          /\ mower = [path |-> 1, out |-> s.out, asked |-> FALSE, time |-> 1]
          /\ known = IF s.restarted THEN [time |-> None, out |-> FALSE]
                     ELSE [time |-> 1, out |-> s.out]
          /\ path = IF s.restarted THEN Unread ELSE 1
          /\ count = s.count
    /\ file = mower.path
    /\ definition = path /\ lastTime = known.time
    /\ pending = Flushed
    /\ failed = FALSE
    /\ request = [key |-> None, recent |-> FALSE]
    /\ session = NoSession
    /\ job = [w \in Who |-> Idle]
    /\ turn = NoTurn /\ pollOut = FALSE
    /\ crossed = FALSE

-----------------------------------------------------------------------------
(* The mower and the cloud.                                                *)

Spend(what) == count[what] > 0 /\ count' = [count EXCEPT ![what] = @ - 1]

World(next) == mower' = next /\ UNCHANGED <<pending, coordinator, request, work>>

\* it sets off, told to from Home Assistant or the app, or goes on
Drives ==
    /\ mower.path < MaxPaths
    /\ World([mower EXCEPT !.path = @ + 1, !.out = TRUE])
    /\ UNCHANGED <<file, count>>

Docks ==
    /\ mower.out /\ Spend("dock")
    /\ World([mower EXCEPT !.out = FALSE])
    /\ UNCHANGED file

\* a path that has not changed it may leave where it is
Uploads ==
    /\ mower.asked
    /\ file' = mower.path
    /\ \/ /\ file = mower.path
          /\ World([mower EXCEPT !.asked = FALSE]) /\ UNCHANGED count
       \/ /\ IF file = mower.path THEN Spend("again") ELSE UNCHANGED count
          /\ World([mower EXCEPT !.asked = FALSE, !.time = @ + 1])

-----------------------------------------------------------------------------
(* Telemetry, and the start of a task.                                     *)

\* _ensure_live_path_task, on the jobs j
Ensured(j) == IF j.loop.at = "none" THEN [j EXCEPT !.loop.at = "due"] ELSE j

\* live_shadow: it looks at what is pending, the loop at what is published
FragmentArrives ==
    /\ pending' = [any |-> TRUE, time |-> mower.time]
    /\ job' = IF mower.out THEN Ensured(job) ELSE job
    /\ UNCHANGED <<mower, file, coordinator, request, turn, pollOut, count, crossed>>

FlushLive ==
    /\ pending.any
    /\ known' = [time |-> pending.time, out |-> mower.out]
    /\ pending' = Flushed
    /\ UNCHANGED <<mower, file, path, definition, lastTime, failed, session, request, work,
                   count>>

\* remember_mowing_task, after a command to start was sent; the mower may have set
\* off already, later, or never
RememberMowingTask ==
    /\ Spend("start")
    /\ session' = [waiting  |-> TRUE,
                   baseline |-> known.time,
                   visible  |-> IF path # Unread THEN path ELSE definition]
    /\ request' = [key |-> None, recent |-> FALSE]
    /\ turn' = IF job.loop.at \in {"none", "due"} THEN turn
               ELSE [turn EXCEPT !.current = FALSE]
    /\ job' = Ensured(job)
    /\ UNCHANGED <<mower, file, pending, known, path, definition, lastTime, failed,
                   pollOut, crossed>>

(* Mutant: what a refresh brings is published as it is. *)
PublishUnmasked(state) ==
    /\ known' = [time |-> state.time, out |-> state.out]
    /\ path' = state.path
    /\ UNCHANGED <<definition, lastTime, session>>

\* _accept_waiting_state_if_fresh, and the publication of what it returns
AcceptAndPublish(state) ==
    \/ /\ ~session.waiting
       /\ known' = [time |-> state.time, out |-> state.out]
       /\ path' = state.path
       /\ UNCHANGED <<definition, lastTime, session>>
    \/ /\ session.waiting
       /\ state.time \notin {None, session.baseline} /\ HasPayload(state.path)
       /\ known' = [time |-> state.time, out |-> state.out]
       /\ path' = state.path /\ definition' = state.path
       /\ session' = NoSession
       /\ UNCHANGED lastTime
    \/ /\ session.waiting
       /\ state.time \in {None, session.baseline} \/ ~HasPayload(state.path)
       /\ known' = [time |-> IF session.baseline # None THEN session.baseline
                             ELSE state.time,
                    out  |-> state.out]
       /\ path' = session.visible /\ definition' = session.visible
       /\ lastTime' = session.baseline
       /\ UNCHANGED session

-----------------------------------------------------------------------------
(* Asking the mower for its path and downloading it, in the loop and in    *)
(* the poll.  The cloud answers with the file it has when it is asked.     *)

Downloading(j) == {w \in Who : j[w].at = "fetching"}

Works(next) ==
    /\ job' = next
    /\ crossed' = \/ Downloading(next) = Who
                  \/ crossed /\ (Downloading(next) # {} \/ next.poll.at = "ending")

Fetching(time) == [at |-> "fetching", time |-> time, got |-> file]
Fault          == Spend("fault")

\* _async_request_history_path: asked at most every 10 s, and by a poll without need
\* only once for a path_time; then path_time is waited for
Key(time)          == IF time = None THEN Latest ELSE time
Refused(time, key) == request.recent \/ key = Key(time)

Asks(time) ==
    /\ mower' = [mower EXCEPT !.asked = TRUE]
    /\ request' = [key |-> Key(time), recent |-> TRUE]

\* the command fails, or it is too early
AsksNot == UNCHANGED <<mower, request>>

TenSecondsPass ==
    /\ request.recent
    /\ request' = [request EXCEPT !.recent = FALSE]
    /\ UNCHANGED <<mower, file, pending, coordinator, work, count>>

-----------------------------------------------------------------------------
(* The loop: _async_live_path_loop, _async_download_current_path.          *)

LoopEnds ==
    /\ job.loop.at = "due" /\ ~known.out     \* if it is waiting, after 60 s
    /\ Works([job EXCEPT !.loop = Idle])
    /\ UNCHANGED <<mower, file, pending, coordinator, request, turn, pollOut, count>>

(* Mutant: a download that failed is not repeated. *)
SkipsFailed(time, t) ==
    \/ t.waiting /\ time \in {None, t.baseline}
    \/ ~t.waiting /\ time = t.last /\ HasPayload(definition)

\* after the request, for what has been read before it
Skips(time, t) ==
    \/ t.waiting /\ time \in {None, t.baseline}
    \/ ~t.waiting /\ time = t.last /\ HasPayload(definition) /\ ~failed

LoopSleeps == turn' = NoTurn /\ Works([job EXCEPT !.loop = [Idle EXCEPT !.at = "due"]])

LoopGoesOn(time, t) ==
    \/ (~t.current \/ Skips(time, t)) /\ LoopSleeps
    \/ /\ t.current /\ ~Skips(time, t)
       /\ turn' = t /\ Works([job EXCEPT !.loop = Fetching(time)])

LoopTurns ==
    LET t == [current |-> TRUE, waiting |-> session.waiting, baseline |-> session.baseline,
              last |-> IF session.waiting THEN None ELSE lastTime]
        needed == \/ known.time \in {None, lastTime}
                  \/ session.waiting /\ known.time = session.baseline
    IN  /\ job.loop.at = "due" /\ (known.out \/ session.waiting)
        /\ \/ /\ needed /\ ~Refused(known.time, None)
              /\ Asks(known.time)
              /\ turn' = t
              /\ Works([job EXCEPT !.loop.at = "awaiting", !.loop.time = known.time])
              /\ UNCHANGED count
           \/ /\ ~needed \/ Refused(known.time, None)
              /\ AsksNot /\ LoopGoesOn(known.time, t) /\ UNCHANGED count
           \/ /\ needed /\ ~Refused(known.time, None) /\ Fault
              /\ AsksNot /\ LoopGoesOn(known.time, t)
        /\ UNCHANGED <<file, pending, coordinator, pollOut>>

\* path_time has changed, or 4 s have passed
LoopAwaited ==
    /\ job.loop.at = "awaiting"
    /\ LoopGoesOn(known.time, turn)
    /\ UNCHANGED <<mower, file, pending, coordinator, request, pollOut, count>>

\* the session is compared again after the download
LoopDownloaded ==
    /\ job.loop.at = "fetching"
    /\ \/ ~turn.current /\ UNCHANGED coordinator
       \/ /\ turn.current
          /\ definition' = job.loop.got /\ path' = job.loop.got
          /\ lastTime' = job.loop.time /\ failed' = FALSE
          /\ known' = [known EXCEPT !.time = IF job.loop.time # None THEN job.loop.time ELSE @]
          /\ session' = IF turn.waiting THEN NoSession ELSE session
    /\ LoopSleeps
    /\ UNCHANGED <<mower, file, pending, request, pollOut, count>>

LoopFails ==
    /\ job.loop.at = "fetching" /\ Fault
    /\ \/ ~turn.current /\ UNCHANGED coordinator
       \/ /\ turn.current /\ turn.waiting
          /\ failed' = TRUE
          /\ AcceptAndPublish([time |-> known.time, out |-> known.out, path |-> path])
       \/ /\ turn.current /\ ~turn.waiting
          /\ failed' = TRUE
          /\ UNCHANGED <<known, path, definition, lastTime, session>>
    /\ LoopSleeps
    /\ UNCHANGED <<mower, file, pending, request, pollOut>>

-----------------------------------------------------------------------------
(* The poll: _async_update_data, and update_data around it.                *)

PollStarts ==
    LET time   == known.time
        forced == known.out
        key    == IF forced THEN None ELSE request.key
        must   == definition = Unread \/ time \notin {None, lastTime}
        may    == must \/ forced             \* if it was 5 s ago
    IN  /\ job.poll.at = "none"
        /\ \/ /\ ~must /\ AsksNot /\ Spend("poll")
              /\ Works([job EXCEPT !.poll.at = "ending", !.poll.time = time])
           \/ /\ may /\ Refused(time, key) /\ AsksNot /\ Spend("poll")
              /\ Works([job EXCEPT !.poll = Fetching(time)])
           \/ /\ may /\ ~Refused(time, key) /\ Asks(time) /\ Spend("poll")
              /\ Works([job EXCEPT !.poll.at = "awaiting", !.poll.time = time])
           \/ /\ may /\ ~Refused(time, key) /\ AsksNot
              /\ count.poll > 0 /\ count.fault > 0
              /\ count' = [count EXCEPT !.poll = @ - 1, !.fault = @ - 1]
              /\ Works([job EXCEPT !.poll = Fetching(time)])
        /\ pollOut' = known.out
        /\ UNCHANGED <<file, pending, coordinator, turn>>

PollAwaited ==
    /\ job.poll.at = "awaiting"
    /\ Works([job EXCEPT !.poll = Fetching(known.time)])
    /\ pollOut' = known.out
    /\ UNCHANGED <<mower, file, pending, coordinator, request, turn, count>>

PollDownloaded ==
    /\ job.poll.at = "fetching"
    /\ definition' = job.poll.got /\ lastTime' = job.poll.time /\ failed' = FALSE
    /\ Works([job EXCEPT !.poll.at = "ending", !.poll.got = Unread])
    /\ UNCHANGED <<mower, file, pending, known, path, session, request, turn, pollOut,
                   count>>

PollFails ==
    /\ job.poll.at = "fetching" /\ Fault
    /\ definition' = IF definition = Unread THEN Empty ELSE definition
    /\ lastTime' = job.poll.time /\ failed' = TRUE
    /\ Works([job EXCEPT !.poll.at = "ending", !.poll.got = Unread])
    /\ UNCHANGED <<mower, file, pending, known, path, session, request, turn, pollOut>>

\* after events and records
PollEnds ==
    /\ job.poll.at = "ending"
    /\ AcceptAndPublish([time |-> job.poll.time, out |-> pollOut, path |-> definition])
    /\ LET done == [job EXCEPT !.poll = Idle]
       IN  Works(IF pollOut THEN Ensured(done) ELSE done)
    /\ pollOut' = FALSE
    /\ UNCHANGED <<mower, file, pending, failed, request, turn, count>>

-----------------------------------------------------------------------------
Next ==
    \/ Drives \/ Docks \/ Uploads
    \/ FragmentArrives \/ FlushLive \/ RememberMowingTask \/ TenSecondsPass
    \/ LoopTurns \/ LoopEnds \/ LoopAwaited \/ LoopDownloaded \/ LoopFails
    \/ PollStarts \/ PollAwaited \/ PollDownloaded \/ PollFails \/ PollEnds

\* Tasks run, commands and downloads return, telemetry is delivered and published, the
\* mower uploads when it is asked.  Nothing makes it set off, go on or dock, and the
\* poll need not come.
Fairness ==
    /\ WF_vars(Uploads) /\ WF_vars(FragmentArrives) /\ WF_vars(FlushLive)
    /\ WF_vars(TenSecondsPass)
    /\ WF_vars(LoopTurns) /\ WF_vars(LoopAwaited) /\ WF_vars(LoopDownloaded)
    /\ WF_vars(PollAwaited) /\ WF_vars(PollDownloaded) /\ WF_vars(PollEnds)

Spec == Init /\ [][Next]_vars /\ Fairness

-----------------------------------------------------------------------------
\* No flash: while a task that Home Assistant started waits for its path, what was
\* shown stays, whatever downloads of the old task still bring ("so stale REST work
\* cannot flash over it"); and the path never goes back to a former one or to an empty
\* one, unless the loop and the poll downloaded at the same time.
NoFlash ==
    [][HasPayload(path) =>
         /\ session.waiting /\ session'.waiting => path' = path
         /\ path' < path => crossed]_vars

\* While the mower is out, the path it has driven comes to be shown; unless Home
\* Assistant waits for a new task and nothing has been uploaded since its start.
PathFollows ==
    <>[](mower.out) => <>[](path = mower.path \/ mower.time = session.baseline)
=============================================================================
