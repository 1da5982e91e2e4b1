----------------------------- MODULE DurableStore -----------------------------
(***************************************************************************)
(* What a session can count on of its workspace and the bucket behind it,  *)
(* without the threads that save, their lock, signals, and calls that      *)
(* fail.  The content of a file is the set of the agent's writes it holds. *)
(***************************************************************************)
CONSTANTS
  Databases,  \* files that are stored whole or not at all
  Documents,  \* other files
  Writes      \* what the agent writes

Files == Databases \union Documents

VARIABLES
  disk,     \* disk[f]: the file in the workspace
  bucket,   \* bucket[f]: its object
  cut,      \* files whose object is half a file, which counts as nothing
  running,  \* the agent has the workspace
  beside,   \* databases that may have an unfinished journal beside them
  missed,   \* files that could not be brought back this time
  mixed,    \* databases that were once brought back beside another state's journal
  dropped   \* writes in files the agent removed

storeVars == <<disk, bucket, cut, running, beside, missed, mixed, dropped>>

Nothing == [f \in Files |-> {}]

Init ==
  /\ disk = Nothing /\ bucket = Nothing
  /\ cut = {} /\ beside = {}
  /\ missed = {} /\ mixed = {} /\ dropped = {}
  /\ running = FALSE

\* A file only grows under the agent's hands.
Write(f) ==
  /\ running
  /\ \E more \in SUBSET Writes : disk' = [disk EXCEPT ![f] = @ \union more]
  /\ beside' = beside \union ({f} \intersect Databases)
  /\ UNCHANGED <<bucket, cut, running, missed, mixed, dropped>>

Remove(f) ==
  /\ running /\ f \in Documents
  /\ disk' = [disk EXCEPT ![f] = {}]
  /\ dropped' = dropped \union disk[f]
  /\ UNCHANGED <<bucket, cut, running, beside, missed, mixed>>

\* An object is replaced by a state of its file that is no older than what the
\* object holds, or of a document by what was caught of it while it was rewritten,
\* or of a database by a damaged one.
Replace(f) ==
  /\ running
  /\ \/ \E new \in SUBSET Writes :
          /\ new \ dropped \subseteq disk[f]
          /\ f \in missed \/ bucket[f] \ dropped \subseteq new
          /\ bucket' = [bucket EXCEPT ![f] = new]
          /\ cut' = cut \ {f}
     \/ /\ f \in Documents \union mixed
        /\ bucket' = [bucket EXCEPT ![f] = {}]
        /\ cut' = cut \union {f}

Save(f) == Replace(f) /\ UNCHANGED <<disk, running, beside, missed, mixed, dropped>>

\* The process ends, by itself or not: documents that were being rewritten are
\* lost on the disk, databases are not, and one object may just be replaced.
Stop ==
  /\ running /\ running' = FALSE
  /\ \E torn \in SUBSET Documents :
       disk' = [f \in Files |-> IF f \in torn THEN {} ELSE disk[f]]
  /\ UNCHANGED <<bucket, cut>> \/ \E f \in Files : Replace(f)
  /\ UNCHANGED <<beside, missed, mixed, dropped>>

\* The session goes on with its disk or, on another machine, without it.
Move ==
  /\ ~running
  /\ UNCHANGED <<disk, beside>> \/ (disk' = Nothing /\ beside' = {})
  /\ missed' = {}
  /\ UNCHANGED <<bucket, cut, running, mixed, dropped>>

\* The objects that could be had come over the files, but of the databases spoilt,
\* which have a journal beside them, only some of either state is found.
Bring(got, spoilt) ==
  /\ \E found \in [spoilt -> SUBSET Writes] :
       /\ \A f \in spoilt : found[f] \subseteq bucket[f] \union disk[f]
       /\ disk' = [f \in Files |-> IF f \in spoilt THEN found[f]
                                  ELSE IF f \in got THEN bucket[f] ELSE disk[f]]
  /\ mixed' = mixed \union spoilt
  /\ \E damaged \in SUBSET mixed :
       missed' = {f \in Files \ got : bucket[f] # {} \/ f \in cut} \union spoilt \union damaged

\* The agent gets the workspace.
Start ==
  /\ ~running /\ running' = TRUE
  /\ \E got \in SUBSET Files : \E spoilt \in SUBSET (got \intersect beside) : Bring(got, spoilt)
  /\ beside' \in SUBSET beside
  /\ UNCHANGED <<bucket, cut, dropped>>

Next ==
  \/ \E f \in Files : Write(f) \/ Remove(f) \/ Save(f)
  \/ Stop \/ Move \/ Start

Spec == Init /\ [][Next]_storeVars
=============================================================================
