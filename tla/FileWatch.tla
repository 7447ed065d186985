------------------------------ MODULE FileWatch ------------------------------
(***************************************************************************)
(* The file watcher: directories appear while they are being registered,   *)
(* files are replaced while their removal is looked at, and the kernel     *)
(* tells of it in a queue that is read later.                              *)
(***************************************************************************)
EXTENDS Naturals, Sequences, SequencesExt, FiniteSets

CONSTANTS
  Root,        \* a watch root
  Dirs,        \* the directories that may be, the root among them
  Parent,      \* directory |-> the one it lies in
  WatchLimit,  \* how many directories may be registered
  Pause,       \* how long creations are kept quiet after a replacement
  MaxMade,     \* bound: directories made or removed
  MaxWrites    \* bound: changes of the file

TheFile == "the file"

(* The directories are a tree: going up, one comes to the root. *)
ASSUME FileWatchAssumption ==
  /\ IsFiniteSet(Dirs) /\ Root \in Dirs /\ TheFile \notin Dirs
  /\ Parent \in [Dirs \ {Root} -> Dirs]
  /\ \A S \in SUBSET (Dirs \ {Root}) : S # {} => \E d \in S : Parent[d] \notin S
  /\ WatchLimit \in Nat /\ Pause \in Nat

VARIABLES
  tick,
  present,     \* on disk: the directories
  file,        \* on disk: is the file in the root there
  kernel,      \* the directories that the kernel watches
  queue,       \* its events
  registered,  \* watchBudget.count
  reached,     \* watchBudget.reached
  ahead,       \* directories still to add or to list
  removal,     \* recordDeleteOrReplace waits for a replacement
  quiet,       \* suppressedCreates of the file
  recorded,    \* events: the last operation recorded of the file
  made

fileVars == <<tick, present, file, kernel, queue, registered, reached, ahead, removal, quiet,
              recorded, made>>

Adds(d) == [does |-> "add", dir |-> d]
Lists(d) == [does |-> "list", dir |-> d]
ListsThenAdds(d) == <<Lists(d), Adds(d)>>
AddsThenLists(d) == <<Adds(d), Lists(d)>>

(* When the daemon begins it registers the roots like any new directory.    *)
FileInit ==
  /\ tick = 0
  /\ present \in {{Root}, Dirs} /\ file = FALSE
  /\ kernel = {} /\ queue = <<>> /\ registered = 0 /\ reached = FALSE
  /\ ahead = AddsThenLists(Root)
  /\ removal = FALSE /\ quiet = 0 /\ recorded = "none" /\ made = 0

Children(d) == {c \in present \ {Root} : Parent[c] = d}

(* A directory that is gone is skipped, one beyond the limit ends its tree. *)
AddsWatch ==
  LET d == Head(ahead).dir IN
  /\ ahead # <<>> /\ Head(ahead).does = "add"
  /\ \/ /\ d \notin present
        /\ ahead' = Tail(ahead)
        /\ UNCHANGED <<kernel, registered, reached>>
     \/ /\ d \in present /\ registered >= WatchLimit
        /\ reached' = TRUE
        /\ ahead' = SelectSeq(Tail(ahead), LAMBDA s : s # Lists(d))
        /\ UNCHANGED <<kernel, registered>>
     \/ /\ d \in present /\ registered < WatchLimit
        /\ kernel' = kernel \union {d} /\ registered' = registered + 1
        /\ ahead' = Tail(ahead)
        /\ UNCHANGED reached
  /\ UNCHANGED <<tick, present, file, queue, removal, quiet, recorded, made>>

(* One directory after the other, each with what lies in it. *)
Tree(dirs) ==
  [i \in 1..(2 * Len(dirs)) |-> AddsThenLists(dirs[(i + 1) \div 2])[IF i % 2 = 1 THEN 1 ELSE 2]]
ListsChildren ==
  /\ ahead # <<>> /\ Head(ahead).does = "list"
  /\ ahead' = Tree(SetToSeq(Children(Head(ahead).dir))) \o Tail(ahead)
  /\ UNCHANGED <<tick, present, file, kernel, queue, registered, reached, removal, quiet, recorded, made>>

-----------------------------------------------------------------------------
(* handleEvent, one event at a time. *)
Reads == ahead = <<>> /\ ~removal /\ queue # <<>>
Event == Head(queue)

DirCreated ==
  /\ Reads /\ Event.what = "create" /\ Event.path \in present
  /\ ahead' = AddsThenLists(Event.path) /\ queue' = Tail(queue)
  /\ UNCHANGED <<tick, present, file, kernel, registered, reached, removal, quiet, recorded, made>>

FileCreated ==
  /\ Reads /\ Event.what = "create" /\ Event.path = TheFile
  /\ recorded' = IF quiet > tick THEN recorded ELSE "created"
  /\ queue' = Tail(queue)
  /\ UNCHANGED <<tick, present, file, kernel, registered, reached, ahead, removal, quiet, made>>

FileModified ==
  /\ Reads /\ Event.what = "write"
  /\ recorded' = "modified" /\ queue' = Tail(queue)
  /\ UNCHANGED <<tick, present, file, kernel, registered, reached, ahead, removal, quiet, made>>

(* A removal is looked at again a moment later: an editor may have put the  *)
(* file back.                                                               *)
RemovalSeen ==
  /\ Reads /\ Event.what = "remove" /\ Event.path = TheFile
  /\ removal' = TRUE /\ queue' = Tail(queue)
  /\ UNCHANGED <<tick, present, file, kernel, registered, reached, ahead, quiet, recorded, made>>

Replaced == file
RemovalRecorded ==
  /\ removal /\ removal' = FALSE
  /\ IF Replaced THEN recorded' = "modified" /\ quiet' = tick + Pause
                 ELSE recorded' = "deleted" /\ quiet' = quiet
  /\ UNCHANGED <<tick, present, file, kernel, queue, registered, reached, ahead, made>>

(* Of a directory that is gone only an event is recorded. *)
DirGone ==
  /\ Reads /\ Event.path \in Dirs
  /\ Event.what = "remove" \/ Event.path \notin present
  /\ queue' = Tail(queue)
  /\ UNCHANGED <<tick, present, file, kernel, registered, reached, ahead, removal, quiet, recorded, made>>

-----------------------------------------------------------------------------
(* The disk, and what the kernel tells of it. *)
Tells(d, what, path) ==
  queue' = IF d \in kernel THEN Append(queue, [what |-> what, path |-> path]) ELSE queue

MakeDir(d) ==
  /\ made < MaxMade /\ made' = made + 1
  /\ d \in Dirs \ present /\ Parent[d] \in present
  /\ present' = present \union {d} /\ Tells(Parent[d], "create", d)
  /\ UNCHANGED <<tick, file, kernel, registered, reached, ahead, removal, quiet, recorded>>
RemoveDir(d) ==
  /\ made < MaxMade /\ made' = made + 1
  /\ d \in present \ {Root} /\ Children(d) = {}
  /\ present' = present \ {d} /\ kernel' = kernel \ {d} /\ Tells(Parent[d], "remove", d)
  /\ UNCHANGED <<tick, file, registered, reached, ahead, removal, quiet, recorded>>
ChangeFile ==
  /\ made < MaxWrites /\ made' = made + 1
  /\ \/ file' = ~file /\ Tells(Root, IF file THEN "remove" ELSE "create", TheFile)
     \/ file /\ file' = file /\ Tells(Root, "write", TheFile)
  /\ UNCHANGED <<tick, present, kernel, registered, reached, ahead, removal, quiet, recorded>>
FileTick ==
  /\ quiet > tick /\ tick' = tick + 1
  /\ UNCHANGED <<present, file, kernel, queue, registered, reached, ahead, removal, quiet, recorded, made>>

FileNext ==
  \/ AddsWatch \/ ListsChildren
  \/ DirCreated \/ FileCreated \/ FileModified \/ RemovalSeen \/ RemovalRecorded \/ DirGone
  \/ \E d \in Dirs \ {Root} : MakeDir(d) \/ RemoveDir(d)
  \/ ChangeFile \/ FileTick

FileSpec == FileInit /\ [][FileNext]_fileVars

-----------------------------------------------------------------------------
(* When the queue is read to its end the watcher is up to date: every        *)
(* directory is watched, though it appeared while its parent was being      *)
(* added and listed, unless the limit was reached; and a file that was       *)
(* recorded and is gone is recorded as deleted, however it was replaced     *)
(* before (addWatchTree, recordDeleteOrReplace).                            *)
WatchIsCurrent ==
  queue = <<>> /\ ahead = <<>> /\ ~removal =>
    /\ reached \/ present \subseteq kernel
    /\ ~file => recorded \in {"none", "deleted"}
=============================================================================
