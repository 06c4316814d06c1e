--------------------------------- MODULE Thumbs --------------------------------
(***************************************************************************)
(* The thumbnails of the review: the cache that the threads of one pool    *)
(* share without a lock, and the tasks that fill the rows of the browse    *)
(* screen and the two panels of the inspect screen from it.                *)
(*                                                                         *)
(* A thumbnail is a key: a file in one of the cache's sizes.  A task asks  *)
(* for one at a time, in a thread of the pool; each access of that thread  *)
(* to the ordered dictionary is a step, and one that does not find its key *)
(* raises.  The tasks' own steps run on the thread of the user interface.  *)
(***************************************************************************)
EXTENDS Integers, FiniteSets, SequencesExt

CONSTANTS
  Views,       \* browse and inspect
  Wanted,      \* the lists of keys that a view may ask for
  Readable,    \* the keys of files that can be shown, if nothing is in the way
  Task,        \* the tasks; the pool has six threads
  MaxEntries,  \* max_entries
  MaxLoads,    \* bound: tasks that are started
  MaxMissed    \* bound: keys that are missed

ASSUME ThumbsAssumption ==
  /\ IsFiniteSet(Task) /\ Cardinality(Task) <= 6
  /\ MaxEntries \in Nat \ {0} /\ MaxLoads \in Nat /\ MaxMissed \in Nat
  /\ Wanted \subseteq Seq(UNION {ToSet(keys) : keys \in Wanted})

VARIABLES
  entriesLru,  \* _data: [key, image], the least recently used first
  task,        \* the tasks: see NoTask
  newest,      \* the task of each view's last generation, or "none"
  loads,
  missed       \* history: readable keys that could not be read when they were put

thumbsVars == <<entriesLru, task, newest, loads, missed>>

NoTask == [at |-> "over", view |-> "none", keys |-> <<>>, todo |-> <<>>,
           image |-> FALSE, shown |-> {}, lost |-> TRUE]

ThumbsInit ==
  /\ entriesLru = <<>> /\ loads = 0 /\ missed = {}
  /\ task = [t \in Task |-> NoTask] /\ newest = [v \in Views |-> "none"]

------------------------------------------------------------------------------
(* The ordered dictionary.                                                  *)
Holds(key)   == \E i \in DOMAIN entriesLru : entriesLru[i].key = key
Entry(key)   == CHOOSE i \in DOMAIN entriesLru : entriesLru[i].key = key
ImageOf(key) == entriesLru[Entry(key)].image
ToEnd(key)   == Append(RemoveAt(entriesLru, Entry(key)), entriesLru[Entry(key)])
Assign(key, image) ==
  IF Holds(key) THEN [entriesLru EXCEPT ![Entry(key)].image = image]
  ELSE Append(entriesLru, [key |-> key, image |-> image])

Key(t)       == Head(task[t].todo)
Goes(t, at)  == task' = [task EXCEPT ![t].at = at]

(* An access to a key that is not there any more raises KeyError: the       *)
(* future's exception ends the task.                                        *)
Access(t, after, next) ==
  IF Holds(Key(t)) THEN entriesLru' = after /\ Goes(t, next)
  ELSE UNCHANGED entriesLru /\ Goes(t, "raised")

(* get_base64() and its kin, in a thread: a hit is moved to the end, then   *)
(* read.                                                                    *)
Look(t) ==
  /\ task[t].at = "look"
  /\ Goes(t, IF Holds(Key(t)) THEN "touch" ELSE "put")
  /\ UNCHANGED <<entriesLru, newest, loads, missed>>

Touch(t) ==
  /\ task[t].at = "touch" /\ Access(t, ToEnd(Key(t)), "read")
  /\ UNCHANGED <<newest, loads, missed>>

Read(t) ==
  /\ task[t].at = "read"
  /\ task' = [task EXCEPT ![t].at = IF Holds(Key(t)) THEN "answered" ELSE "raised",
                          ![t].image = Holds(Key(t)) /\ ImageOf(Key(t))]
  /\ UNCHANGED <<entriesLru, newest, loads, missed>>

(* _remember(): what was decoded, or that it cannot be, is put at the end;  *)
(* the oldest entries go while there are too many.  A file that is missing  *)
(* or locked at that moment is remembered as one that cannot be shown.      *)
Put(t) ==
  /\ task[t].at = "put"
  /\ \E image \in {FALSE, Key(t) \in Readable} :
       /\ entriesLru' = Assign(Key(t), image)
       /\ task' = [task EXCEPT ![t].at = "move", ![t].image = image]
       /\ missed' = missed \cup ({Key(t)} \cap IF image THEN {} ELSE Readable)
       /\ Cardinality(missed') <= MaxMissed
  /\ UNCHANGED <<newest, loads>>

MoveToEnd(t) ==
  /\ task[t].at = "move" /\ Access(t, ToEnd(Key(t)), "count")
  /\ UNCHANGED <<newest, loads, missed>>

CountEntries(t) ==
  /\ task[t].at = "count"
  /\ Goes(t, IF Len(entriesLru) > MaxEntries THEN "pop" ELSE "answered")
  /\ UNCHANGED <<entriesLru, newest, loads, missed>>

PopOldest(t) ==
  /\ task[t].at = "pop"
  /\ IF entriesLru = <<>> THEN UNCHANGED entriesLru /\ Goes(t, "raised")
     ELSE entriesLru' = Tail(entriesLru) /\ Goes(t, "count")
  /\ UNCHANGED <<newest, loads, missed>>

------------------------------------------------------------------------------
(* The tasks.                                                               *)

(* refresh() of the browse screen, _schedule_inspect_previews(): a new      *)
(* generation, and a task that has its list of rows from now.               *)
StartLoad(v, keys, t) ==
  /\ loads < MaxLoads /\ loads' = loads + 1
  /\ task[t].at = "over" /\ \A u \in Views : newest[u] # t
  /\ task' = [task EXCEPT ![t] = [at |-> IF keys = <<>> THEN "over" ELSE "look", view |-> v,
                                  keys |-> keys, todo |-> keys, image |-> FALSE,
                                  shown |-> {}, lost |-> FALSE]]
  /\ newest' = [newest EXCEPT ![v] = t]
  /\ UNCHANGED <<entriesLru, missed>>

(* A refresh that shows the details of a group, or nothing: no task.        *)
Supersede(v) ==
  /\ newest[v] # "none" /\ newest' = [newest EXCEPT ![v] = "none"]
  /\ UNCHANGED <<entriesLru, task, loads, missed>>

(* The list of keys without its first, and where that leads.                *)
Advanced(k) == [k EXCEPT !.todo = Tail(@), !.at = IF Len(k.todo) = 1 THEN "over" ELSE "look"]

(* The slot shows the picture, if there is one.                             *)
Slotted(k) == IF k.image THEN [k EXCEPT !.shown = @ \cup {Head(k.todo)}] ELSE k

(* Variant: a file without a picture ends the task. *)
AnswerStopping(t) ==
  /\ task[t].at = "answered"
  /\ task' = [task EXCEPT ![t] = IF newest[@.view] # t \/ ~@.image THEN [@ EXCEPT !.at = "over"]
                                 ELSE Advanced(Slotted(@))]
  /\ UNCHANGED <<entriesLru, newest, loads, missed>>

(* The task goes on: it ends if its generation is not the last one any      *)
(* more, else with the slot of the key.                                     *)
Answer(t) ==
  /\ task[t].at = "answered"
  /\ task' = [task EXCEPT ![t] =
                IF newest[@.view] # t THEN [@ EXCEPT !.at = "over"] ELSE Advanced(Slotted(@))]
  /\ UNCHANGED <<entriesLru, newest, loads, missed>>

Raise(t) ==
  /\ task[t].at = "raised"
  /\ task' = [task EXCEPT ![t].at = "over", ![t].lost = TRUE]
  /\ UNCHANGED <<entriesLru, newest, loads, missed>>

ThumbsNext ==
  \/ \E t \in Task :
       \/ Look(t) \/ Touch(t) \/ Read(t) \/ Put(t) \/ MoveToEnd(t) \/ CountEntries(t)
       \/ PopOldest(t) \/ Answer(t) \/ Raise(t)
       \/ \E v \in Views, keys \in Wanted : StartLoad(v, keys, t)
  \/ \E v \in Views : Supersede(v)

ThumbsSpec == ThumbsInit /\ [][ThumbsNext]_thumbsVars

------------------------------------------------------------------------------
(* When the task of a view is over and none of its accesses raised, each of *)
(* its rows has its picture, whatever the tasks of older generations and of *)
(* the other view did to the cache in between, but for files that cannot be *)
(* shown or could not when the cache was asked; and the cache holds no more *)
(* than its limit and what is being put into it                             *)
(* (_load_browse_thumbs_async, _load_inspect_previews_async, _remember).    *)
ThumbsShown ==
  /\ \A v \in Views : newest[v] # "none" =>
       LET k    == task[newest[v]]
           rows == ToSet(k.keys) \cap Readable
       IN  k.at = "over" /\ ~k.lost => rows \ missed \subseteq k.shown /\ k.shown \subseteq rows
  /\ Len(entriesLru) <=
       MaxEntries + Cardinality({t \in Task : task[t].at \in {"move", "count", "pop"}})
===============================================================================
