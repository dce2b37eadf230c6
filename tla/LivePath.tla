------------------------------ MODULE LivePath ------------------------------
(***************************************************************************)
(* The path a mower of the M series or an N8 has driven, from the mower to *)
(* the card.  The mower sends pieces of it live (curpath) and the cloud    *)
(* keeps it as a file; both are assembled by absolute index                *)
(* (m_series_path.py, n8_path.py), checked against the no-go zones in an   *)
(* executor and published.  The hub sends the card what its cursor says is *)
(* new (live_map_stream_core.py), and the card patches its copy            *)
(* (live-map-stream.js).                                                   *)
(*                                                                         *)
(* A point is where the mower was, the angle its packet carries, the task  *)
(* it belongs to, and whether the line is broken before it.  Frames reach  *)
(* the card in the order of the updates; one that is lost makes the card   *)
(* subscribe again (LiveMapStream).                                        *)
(***************************************************************************)
EXTENDS Integers, Sequences, FiniteSets

CONSTANTS
    Place,        \* where the mower is at each index of a task: [0 .. n -> place]
    Tasks,        \* 1 .. n, in the order of the mower's tasks: their path ids
    Window,       \* _MAX_POINTS
    Sent,         \* pieces the mower sends live: [from, to, angle]
    Uploaded,     \* and what of a task its files may hold: [to, angle]
    MaxPieces,    \* bound: pieces that arrive live
    MaxFiles      \* bound: files that are downloaded

VARIABLES
    task,         \* the mower's task
    cloud,        \* the file it uploaded last: its task and last index
    asm,          \* _m_series_test4_*: what is assembled so far
    file,         \* coordinator._path_definition
    poll,         \* _async_update_data: "idle", "fetching" or "attaching"
    queue,        \* workers and their paths, in the order they take _m_series_no_go_lock
    nogo,         \* the revision and the task whose check against the zones is cached
    pending,      \* the path in _pending_live_property
    published,    \* the path in reported_state
    cursor,       \* the subscriber's cursor
    card,         \* _anthbotLivePath, or NoCopy while the card is not subscribed
    count,        \* bounds: pieces, files so far
    alike         \* history: points slipped in before a tail they could not be told
                  \* from, since the card's copy was whole

coordinator == <<asm, file, poll, queue, nogo, pending>>
stream      == <<published, cursor, card, alike>>
vars        == <<task, cloud, coordinator, stream, count>>

None     == -1
NoPath   == [id |-> None, first |-> None, points |-> <<>>, revision |-> 0, merged |-> TRUE,
             live |-> None]
NoCopy   == [id |-> None, start |-> -2, points |-> <<>>]
Indices  == DOMAIN Place
Angles   == {0, 1}

(* Pieces and files lie within the indices of a task, from the beginning to the  *)
(* end, and carry an angle.                                                      *)
PathBounds ==
    /\ Window \in Nat \ {0}
    /\ \E n \in Indices : n \in Nat /\ Indices = 0 .. n
    /\ \A s \in Sent : /\ s.from \in Indices /\ s.to \in Indices /\ s.from <= s.to
                       /\ s.angle \in Angles
    /\ \A u \in Uploaded : u.to \in Indices /\ u.angle \in Angles

ASSUME LivePathAssumption == PathBounds

Point(t, i, angle) == [task |-> t, place |-> Place[i], angle |-> angle, break |-> FALSE]
Points == [task : Tasks, place : {Place[i] : i \in Indices}, angle : Angles, break : BOOLEAN]

TypeOK ==
    LET Path(p) == /\ p.id \in Tasks \cup {None} /\ p.first \in Indices \cup {None}
                   /\ p.points \in Seq(Points) /\ Len(p.points) <= Cardinality(Indices)
                   /\ p.revision \in Nat /\ p.merged \in BOOLEAN
                   /\ p.live \in Tasks \cup {None}
    IN  /\ task \in Tasks /\ alike \in BOOLEAN
        /\ DOMAIN asm.points \subseteq Indices /\ Cardinality(DOMAIN asm.points) <= Window
        /\ \A i \in DOMAIN asm.points : asm.points[i] \in Points
        /\ {asm.id, asm.liveId} \subseteq Tasks \cup {None}
        /\ asm.angle \in Angles \cup {None} /\ asm.angleAt \in Indices \cup {None}
        /\ poll \in {"idle", "fetching", "attaching"}
        /\ poll = "attaching" <=> \E n \in DOMAIN queue : queue[n].who = "poll"
        /\ Len(queue) <= 2 /\ \A n \in DOMAIN queue : Path(queue[n].path)
        /\ cloud.id \in Tasks \cup {None} /\ cloud.last \in Indices \cup {None}
        /\ Path(file) /\ Path(pending) /\ Path(published)
        /\ card # NoCopy => /\ card.points \in Seq(Points)
                            /\ cursor.id = published.id
                            /\ cursor.length = Len(published.points)

-----------------------------------------------------------------------------
(* The assembler.                                                          *)

Empty == [points |-> <<>>, id |-> None, liveId |-> None, revision |-> 0,
          angle |-> None, angleAt |-> None]

\* a definition as it is decoded: the points from index `from' to `to'
Piece(t, from, to, angle) ==
    [id |-> t, first |-> from, revision |-> 0, merged |-> FALSE, live |-> None,
     points |-> [n \in 1 .. to - from + 1 |-> Point(t, from + n - 1, angle)]]

\* an older task's file does not replace the path that arrives live
Refused(s, d, live) == ~live /\ s.liveId # None /\ d.id # s.liveId

\* the largest indices a path may keep
Kept(S) == {i \in S : Cardinality({j \in S : j > i}) < Window}

Ingest(s, d, live) ==
    IF d.merged \/ Refused(s, d, live)
    THEN s
    ELSE LET changed == s.id # None /\ s.id # d.id
             old     == IF changed THEN Empty ELSE s
             last    == d.first + Len(d.points) - 1
             filled  == [i \in DOMAIN old.points \cup (d.first .. last) |->
                            IF i \in DOMAIN old.points THEN old.points[i]
                                                       ELSE d.points[i - d.first + 1]]
             news    == changed \/ DOMAIN filled # DOMAIN old.points
             turned  == last >= old.angleAt
         IN  [points   |-> [i \in Kept(DOMAIN filled) |-> filled[i]],
              id       |-> d.id,
              liveId   |-> IF live THEN d.id ELSE s.liveId,
              revision |-> IF news THEN s.revision + 1 ELSE s.revision,
              angle    |-> IF turned THEN d.points[1].angle ELSE old.angle,
              angleAt  |-> IF turned THEN last ELSE old.angleAt]

\* a set of indices as a sequence, the smallest first
Ordered(S) == CHOOSE f \in [1 .. Cardinality(S) -> S] :
                \A m, n \in DOMAIN f : m < n => f[m] < f[n]

\* the points in the order of their indices, the last one with the newest angle
Merged(s) ==
    LET indices == Ordered(DOMAIN s.points)
        point(n) == [s.points[indices[n]] EXCEPT
                        !.break = n > 1 /\ indices[n] # indices[n - 1] + 1,
                        !.angle = IF n = Len(indices) THEN s.angle ELSE @]
    IN  IF indices = <<>> THEN NoPath
        ELSE [id |-> s.id, first |-> indices[1], revision |-> s.revision, merged |-> TRUE,
              live |-> s.liveId,
              points |-> [n \in 1 .. Len(indices) |-> point(n)]]

-----------------------------------------------------------------------------
(* The frames.                                                             *)

Signature(p) == <<p.place, p.angle>>

\* _absolute_path_bounds: known if no index is missing
First(p) == IF \E n \in DOMAIN p.points : p.points[n].break THEN None ELSE p.first
LastIndex(p) == IF First(p) = None THEN None ELSE p.first + Len(p.points) - 1

Cursor(p) == [id     |-> p.id,
              length |-> Len(p.points),
              first  |-> First(p),
              last   |-> LastIndex(p),
              tail   |-> IF p.points = <<>> THEN <<>>
                         ELSE Signature(p.points[Len(p.points)])]

Nothing == [op |-> "none"]
Reset(p) == [op |-> "reset", id |-> p.id, start |-> First(p), points |-> p.points]
Appended(p, start, from, skip) ==
    [op |-> "append", id |-> p.id, start |-> start, from |-> from,
     points |-> SubSeq(p.points, skip + 1, Len(p.points))]

\* both ends know their indices: what comes after the cursor's last point
AbsoluteDelta(c, p) ==
    LET overlaps == p.first <= c.last /\ c.last <= LastIndex(p)
        skip     == IF overlaps THEN c.last - p.first + 1 ELSE 0
    IN  IF \/ LastIndex(p) < c.last \/ p.first > c.last + 1
           \/ overlaps /\ Signature(p.points[skip]) # c.tail
        THEN Reset(p)
        ELSE IF skip = Len(p.points) /\ p.first <= c.first THEN Nothing
        ELSE Appended(p, p.first, p.first + skip, skip)

\* Mutant: the last point of the cursor is not looked for.
GenericUnchecked(c, p) ==
    IF Len(p.points) < c.length THEN Reset(p)
    ELSE IF Len(p.points) = c.length THEN Nothing
    ELSE Appended(p, None, c.length, c.length)

\* otherwise: what comes after the cursor's length, if its last point is there
GenericDelta(c, p) ==
    IF \/ Len(p.points) < c.length
       \/ c.length > 0 /\ Signature(p.points[c.length]) # c.tail
    THEN Reset(p)
    ELSE IF Len(p.points) = c.length THEN Nothing
    ELSE Appended(p, None, c.length, c.length)

PathDelta(c, p) ==
    IF p.id # c.id \/ (p.points = <<>> /\ c.length > 0) THEN Reset(p)
    ELSE IF p.points = <<>> THEN Nothing
    ELSE IF First(p) # None /\ c.first # None THEN AbsoluteDelta(c, p)
    ELSE GenericDelta(c, p)

\* applyPathMessage: the new copy, or NoCopy if the frame does not continue it
Continues(copy, m) ==
    LET trimmed == m.start - copy.start
    IN  /\ m.id = copy.id
        /\ IF m.start = None
           THEN copy.start = None /\ m.from = Len(copy.points)
           ELSE /\ copy.start # None /\ trimmed \in 0 .. Len(copy.points)
                /\ m.from = m.start + Len(copy.points) - trimmed

Applied(copy, m) ==
    CASE m.op = "none"   -> copy
      [] m.op = "reset"  -> [id |-> m.id, start |-> m.start, points |-> m.points]
      [] m.op = "append" ->
            IF ~Continues(copy, m) THEN NoCopy
            ELSE LET trimmed == IF m.start = None THEN 0 ELSE m.start - copy.start
                 IN  [copy EXCEPT !.start = m.start,
                        !.points = SubSeq(@, trimmed + 1, Len(@)) \o m.points]

-----------------------------------------------------------------------------
Init ==
    /\ task = 1 /\ cloud = [id |-> None, last |-> None] /\ asm = Empty
    /\ file = NoPath /\ poll = "idle" /\ queue = <<>>
    /\ nogo = [revision |-> None, id |-> None] /\ pending = NoPath
    /\ published = NoPath /\ cursor = Cursor(NoPath) /\ card = NoCopy
    /\ count = [pieces |-> 0, files |-> 0] /\ alike = FALSE

\* async_set_updated_data: the hub's listener sends the subscriber its delta
Publish(p) ==
    LET m == PathDelta(cursor, p)
    IN  /\ published' = p
        /\ IF card = NoCopy
           THEN UNCHANGED <<cursor, card, alike>>
           ELSE /\ cursor' = Cursor(p)
                /\ card' = Applied(card, m)
                /\ alike' = /\ card' # NoCopy /\ m.op # "reset"
                            /\ \/ alike
                               \/ /\ First(p) = None \/ cursor.first = None
                                  /\ SubSeq(p.points, 1, cursor.length) # published.points
                                  /\ Signature(p.points[cursor.length]) = cursor.tail

\* the card subscribes and gets a snapshot; a lost frame or subscription ends it
Subscribe ==
    /\ card = NoCopy
    /\ cursor' = Cursor(published) /\ card' = Applied(NoCopy, Reset(published))
    /\ UNCHANGED <<task, cloud, coordinator, published, alike, count>>

Resync ==
    /\ card # NoCopy
    /\ card' = NoCopy /\ alike' = FALSE
    /\ UNCHANGED <<task, cloud, coordinator, published, cursor, count>>

-----------------------------------------------------------------------------
(* The coordinator.  A flush waits between copying and publishing only to  *)
(* save what it learned of a finished task, which is LiveShadow's: here it *)
(* is one step.  The check of the zones knows a path by its revision and   *)
(* task; the zones stay as they are.                                       *)

\* Mutant: the live handler takes the cached check of any task.
CachedForAny(who, p) == nogo.revision = p.revision \/ who = "live"

\* a check that is cached is not run again: of the same path, or, for the live
\* handler, of the same task less than five seconds ago
Cached(who, p) ==
    nogo.revision = p.revision \/ (who = "live" /\ nogo.id = p.id)

\* what follows the check: the poll publishes, the live handler leaves its path
\* to the flush
Attached(who, p) ==
    IF who = "poll"
    THEN file' = p /\ poll' = "idle" /\ pending' = pending /\ Publish(p)
    ELSE pending' = p /\ UNCHANGED <<file, poll, stream>>

\* _update_no_go_check, to its first await
UpdateNoGoCheck(who, p) ==
    \/ Cached(who, p) /\ Attached(who, p) /\ UNCHANGED queue
    \/ /\ queue' = Append(queue, [who |-> who, path |-> p])
       /\ poll' = IF who = "poll" THEN "attaching" ELSE poll
       /\ UNCHANGED <<file, pending, stream>>

\* the lock is there, and the check is cached by now or run in the executor
NoGoChecked ==
    /\ queue # <<>>
    /\ LET w == Head(queue)
       IN  /\ Attached(w.who, w.path)
           /\ \/ Cached(w.who, w.path) /\ nogo' = nogo
              \/ nogo' = [revision |-> w.path.revision, id |-> w.path.id]
    /\ queue' = Tail(queue)
    /\ UNCHANGED <<task, cloud, asm, count>>

\* the listener hands over one fragment after the other
PieceArrives(s) ==
    /\ count.pieces < MaxPieces
    /\ \A n \in DOMAIN queue : queue[n].who # "live"
    /\ count' = [count EXCEPT !.pieces = @ + 1]
    /\ asm' = Ingest(Ingest(asm, file, FALSE), Piece(task, s.from, s.to, s.angle), TRUE)
    /\ UpdateNoGoCheck("live", Merged(asm'))
    /\ UNCHANGED <<task, cloud, nogo>>

FlushLive ==
    /\ pending # NoPath
    /\ pending' = NoPath /\ Publish(pending)
    /\ UNCHANGED <<task, cloud, asm, file, poll, queue, nogo, count>>

\* the mower may have uploaded nothing of its task yet, or less than it sent live
PollDownloads(t, u) ==
    /\ poll = "idle" /\ count.files < MaxFiles
    /\ t > cloud.id \/ (t = cloud.id /\ u.to >= cloud.last)
    /\ cloud' = [id |-> t, last |-> u.to]
    /\ poll' = "fetching" /\ file' = Piece(t, 0, u.to, u.angle)
    /\ count' = [count EXCEPT !.files = @ + 1]
    /\ UNCHANGED <<task, asm, queue, nogo, pending, stream>>

PollAttaches ==
    /\ poll \in {"idle", "fetching"}
    /\ asm' = Ingest(asm, file, FALSE)
    /\ Merged(asm') # NoPath
    /\ UpdateNoGoCheck("poll", Merged(asm'))
    /\ UNCHANGED <<task, cloud, nogo, count>>

NewTask ==
    /\ task + 1 \in Tasks
    /\ task' = task + 1
    /\ UNCHANGED <<cloud, coordinator, stream, count>>

Next ==
    \/ NewTask \/ Subscribe \/ Resync
    \/ FlushLive \/ PollAttaches \/ NoGoChecked
    \/ \E s \in Sent : PieceArrives(s)
    \/ \E t \in 1 .. task, u \in Uploaded : PollDownloads(t, u)

Spec == Init /\ [][Next]_vars

-----------------------------------------------------------------------------
\* The card draws the published path, point for point, whatever of it arrives
\* late, twice or never, or is cut off at its beginning.  It may lack what was
\* put in front of its first point, and show a former state of a path with gaps
\* whose tail looks alike, both until the path grows.
CardDrawsThePath ==
    card # NoCopy =>
        \/ card.id = published.id /\ card.points = published.points
        \/ /\ card.start # None /\ card.start > published.first
           /\ card.points = SubSeq(published.points, card.start - published.first + 1,
                                   Len(published.points))
        \/ alike

\* A path is of one task, and once one is shown of which a piece arrived live, an
\* older one does not come back, from a file, from a poll that was waiting for its
\* check, or from fragments not flushed ("a delayed history file from an older
\* mowing task must not replace the currently active curpath").
OneTaskAtATime ==
    [][/\ \A n \in DOMAIN published'.points : published'.points[n].task = published'.id
       /\ published.live # None => published'.id >= published.live
      ]_vars
=============================================================================
