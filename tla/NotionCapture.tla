--------------------------- MODULE NotionCapture ---------------------------
(***************************************************************************)
(* CaptureNotion: a walk through Notion's search, which lists the objects  *)
(* that were edited last first, page by page.  The daemon and commands     *)
(* walk at the same time, people edit during a walk, the search lags, and  *)
(* a walk may fail or die at any of its statements.                        *)
(***************************************************************************)
EXTENDS Integers, FiniteSets

CONSTANTS
  Objects,        \* pages and databases: numbers, the order of equal times
  Walks,          \* processes that capture
  SearchPage,     \* objects on a page of the search
  NotionOverlap,  \* notionCaptureOverlap
  SearchLag,      \* how late the search knows of an edit, of Notion
  MaxInstant, MaxEdits  \* bounds: the clock, edits

ASSUME SearchAssumption ==
  /\ Objects \subseteq Nat \ {0} /\ {NotionOverlap, SearchLag, MaxInstant} \subseteq Nat
  /\ SearchLag <= NotionOverlap

VARIABLES
  instant,     \* the clock
  edits,       \* bound: edits so far
  edited,      \* the last edit of each object: when, by the user, of an indexed object
  listed,      \* the last edit of each object that the search knows
  index,       \* notion_index: last_edited_time of each object, or -1
  activities,  \* notion.page_updated events: object and time of the edit
  completed,   \* capture_cursors: completed_through, or -1
  walk,        \* the walks
  seen,        \* history: the latest edit of each object that was indexed
  torn         \* history: a walk ended after it moved the cursor, or between
               \* the index and the activity

notionVars == <<instant, edits, edited, listed, index, activities, completed, walk, seen, torn>>

Edit(at, mine, known) == [at |-> at, mine |-> mine, known |-> known]
NoMore == <<0, 0>>
NoWalk == [phase |-> "idle", now |-> 0, since |-> 0, last |-> NoMore, page |-> {},
           oldest |-> -1, moved |-> FALSE]

NotionInit ==
  /\ instant = 0 /\ edits = 0 /\ edited = [o \in Objects |-> Edit(0, TRUE, FALSE)] /\ listed = edited
  /\ index = [o \in Objects |-> -1] /\ activities = {} /\ completed = -1
  /\ walk = [w \in Walks |-> NoWalk]
  /\ seen = [o \in Objects |-> -1] /\ torn = FALSE

-----------------------------------------------------------------------------
(* The walk.                                                                *)

InPhase(w, phase) == walk[w].phase = phase
Stands(w, new) == walk' = [walk EXCEPT ![w] = new]

(* The cursor is read; without one nothing is too old. *)
WalkBegins(w) ==
  /\ InPhase(w, "idle")
  /\ Stands(w, [NoWalk EXCEPT !.phase = "search", !.now = instant,
                              !.since = completed - NotionOverlap,
                              !.last = <<MaxInstant + 1, 0>>])
  /\ UNCHANGED <<instant, edits, edited, listed, index, activities, completed, seen, torn>>

(* The order of the search, and the pages that may come next. *)
Before(p, q) == p[1] > q[1] \/ (p[1] = q[1] /\ p[2] < q[2])
Place(o) == <<listed[o].at, o>>
After(last) == {o \in Objects : Before(last, Place(o))}
Pages(rest) ==
  {page \in SUBSET rest :
     /\ Cardinality(page) <= SearchPage /\ (page = rest \/ Cardinality(page) = SearchPage)
     /\ \A o \in page : \A other \in rest \ page : Before(Place(o), Place(other))}
Ends(page) == {o \in page : \A other \in page \ {o} : Before(Place(other), Place(o))}

(* notionSearchAll: a page, from where the previous one ended. *)
WalkSearches(w) ==
  LET rest == After(walk[w].last)
  IN /\ InPhase(w, "search")
     /\ \E page \in Pages(rest) :
        \E last \in IF page = rest THEN {NoMore} ELSE {Place(o) : o \in Ends(page)} :
          Stands(w, [walk[w] EXCEPT
                       !.phase = "page", !.oldest = -1, !.last = last,
                       !.page = {[id |-> o, edit |-> listed[o]] : o \in page}])
     /\ UNCHANGED <<instant, edits, edited, listed, index, activities, completed, seen, torn>>

(* The object of the page that is next. *)
At(object) == <<object.edit.at, object.id>>
Heads(page) == {o \in page : \A other \in page \ {o} : Before(At(o), At(other))}

(* updateNotionIndexAndStoreActivity: an object that is too old ends the    *)
(* walk; a change of an indexed object by the user is an activity.  Two     *)
(* walks that both find the index behind store the same activity.           *)
WalkIndexes(w) ==
  /\ InPhase(w, "page")
  /\ \E o \in Heads(walk[w].page) :
       LET at == o.edit.at
           active == index[o.id] \notin {-1, at} /\ o.edit.mine
           read == [walk[w] EXCEPT !.oldest = IF @ = -1 \/ at < @ THEN at ELSE @]
       IN IF at < walk[w].since
          THEN Stands(w, [walk[w] EXCEPT !.phase = "end"]) /\ UNCHANGED <<index, seen>>
          ELSE /\ index' = [index EXCEPT ![o.id] = at]
               /\ seen' = [seen EXCEPT ![o.id] = IF at > @ THEN at ELSE @]
               /\ Stands(w, IF active THEN [read EXCEPT !.phase = "activity"]
                            ELSE [read EXCEPT !.page = @ \ {o}])
  /\ UNCHANGED <<instant, edits, edited, listed, activities, completed, torn>>

(* storeNotionActivityEvent, after the statement that indexed the object. *)
WalkStoresActivity(w) ==
  /\ InPhase(w, "activity")
  /\ \E o \in Heads(walk[w].page) :
       /\ activities' = activities \cup {<<o.id, o.edit.at>>}
       /\ Stands(w, [walk[w] EXCEPT !.phase = "page", !.page = @ \ {o}])
  /\ UNCHANGED <<instant, edits, edited, listed, index, completed, seen, torn>>

(* Each page moves the cursor to its oldest edit. *)
WalkTurnsPage(w) ==
  LET turned == [walk[w] EXCEPT !.phase =
                               IF walk[w].last = NoMore THEN "end" ELSE "search"]
  IN
  /\ InPhase(w, "page") /\ walk[w].page = {}
  /\ completed' = IF walk[w].oldest = -1 THEN completed ELSE walk[w].oldest
  /\ Stands(w, [turned EXCEPT !.moved = walk[w].oldest # -1 \/ @])
  /\ UNCHANGED <<instant, edits, edited, listed, index, activities, seen, torn>>

(* Mutant of Through: the cursor moves to the time at the end. *)
ThroughEnd(w) == instant

(* The time that the walk has covered: that of its start. *)
Through(w) == walk[w].now

WalkEnds(w) ==
  /\ InPhase(w, "end") /\ completed' = Through(w) /\ Stands(w, NoWalk)
  /\ UNCHANGED <<instant, edits, edited, listed, index, activities, seen, torn>>

WalkFails(w) ==
  /\ ~InPhase(w, "idle") /\ Stands(w, NoWalk)
  /\ torn' = (torn \/ walk[w].moved \/ InPhase(w, "activity"))
  /\ UNCHANGED <<instant, edits, edited, listed, index, activities, completed, seen>>

-----------------------------------------------------------------------------
(* Notion and the clock.                                                    *)

ObjectEdited(o, mine) ==
  /\ edited[o].at < instant /\ edits < MaxEdits /\ edits' = edits + 1
  /\ edited' = [edited EXCEPT ![o] = Edit(instant, mine, index[o] # -1)]
  /\ UNCHANGED <<instant, listed, index, activities, completed, walk, seen, torn>>

SearchLearns(o) ==
  /\ listed[o] # edited[o] /\ listed' = [listed EXCEPT ![o] = edited[o]]
  /\ UNCHANGED <<instant, edits, edited, index, activities, completed, walk, seen, torn>>

ClockMoves ==
  /\ instant < MaxInstant /\ instant' = instant + 1
  /\ \A o \in Objects : listed[o] # edited[o] => instant' - edited[o].at <= SearchLag
  /\ UNCHANGED <<edits, edited, listed, index, activities, completed, walk, seen, torn>>

NotionNext ==
  \/ \E w \in Walks :
       \/ WalkBegins(w) \/ WalkSearches(w) \/ WalkIndexes(w) \/ WalkStoresActivity(w)
       \/ WalkTurnsPage(w) \/ WalkEnds(w) \/ WalkFails(w)
  \/ \E o \in Objects : SearchLearns(o) \/ \E mine \in BOOLEAN : ObjectEdited(o, mine)
  \/ ClockMoves

NotionSpec == NotionInit /\ [][NotionNext]_notionVars

-----------------------------------------------------------------------------
(* Properties.                                                              *)

(* The edits that the next walk will not look at. *)
Passed(o) == edited[o].at < completed - NotionOverlap

(* What the next walk will not look at was indexed, and a change by the     *)
(* user is an activity, although objects move to the front of the search    *)
(* while others walk through it: unless a walk failed after it had moved    *)
(* the cursor, or between its two writes for an object.                     *)
PassedIsCaptured ==
  (\A w \in Walks : InPhase(w, "idle")) /\ ~torn =>
    \A o \in Objects : Passed(o) =>
      /\ seen[o] = edited[o].at
      /\ edited[o].mine /\ edited[o].known => <<o, edited[o].at>> \in activities
=============================================================================
