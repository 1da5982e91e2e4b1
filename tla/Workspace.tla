------------------------------ MODULE Workspace ------------------------------
(***************************************************************************)
(* Persistence of one session's workspace: WorkspaceSync                   *)
(* (bridge/workspace_sync.py) with the periodic saver thread, the saves of *)
(* the turns (finally block of invoke) and the SIGTERM handler             *)
(* (app/hermes/main.py), over stops, kills and restarts of the process.    *)
(*                                                                         *)
(* A file's content is the set of the agent's writes it holds.  The agent  *)
(* rewrites files on a thread of its own while they are being saved.       *)
(***************************************************************************)
EXTENDS Naturals

CONSTANTS
  Databases,  \* *.db files, saved through SQLite's backup
  Documents,  \* other files, uploaded as they lie on the disk
  Turns,      \* invocations that save when they end
  MaxWrites,  \* bound: writes of the agent
  MaxBoots,   \* bound: processes started for the session
  MaxTerms    \* bound: SIGTERMs one process receives

ASSUME WorkspaceAssumption ==
  /\ Databases \intersect Documents = {}
  /\ MaxWrites \in Nat /\ MaxBoots \in Nat \ {0} /\ MaxTerms \in Nat

Files == Databases \union Documents
Writes == 1..MaxWrites
Content == [has : SUBSET Writes, torn : BOOLEAN]
Absent == [has |-> {}, torn |-> FALSE]
\* What is left of a file whose rewriting was caught half-way.
Torn == [has |-> {}, torn |-> TRUE]

\* Threads that save: the periodic one, one per turn, and the main thread
\* once for every SIGTERM handler on its stack.
Handler(n) == <<"handler", n>>
Periodic == <<"periodic", 0>>
Handlers == {Handler(n) : n \in 1..MaxTerms}
TurnSavers == {<<"turn", t>> : t \in Turns}
Savers == {Periodic} \union Handlers \union TurnSavers

Nobody == <<"nobody", 0>>
Nothing == << >>

VARIABLES
  local,    \* local[f]: the file in the workspace (of a database, what is committed)
  draft,    \* draft[f]: content the agent is writing into f, {} if it is not
  writes,   \* writes the agent began so far
  journal,  \* databases that may have a -wal or -journal of SQLite beside them
  remote,   \* remote[f]: the object in the bucket
  proc,     \* the process: "starting" (no invocation yet), "up", "exiting", "down"
  boots,    \* processes started so far
  stopped,  \* the event _stop
  terms,    \* SIGTERM handlers on the stack of the main thread
  pc,       \* pc[s]: "idle", "waiting" for the lock, then the loop s is in
  lock,     \* holder of _save_lock
  todo,     \* todo[s]: files of the loop of s still to be visited
  held,     \* held[s]: the file s is uploading and what it read of it
  began,    \* history: began[s][f]: the writes f had when the save of s began
  failed,   \* history: failed[s]: files the save of s reported as failed
  missed,   \* history: files the restore of this process did not bring back as saved
  mixed,    \* history: databases a restore left with pages of two states
  dropped   \* history: writes in files the agent removed

agentVars == <<local, draft, writes, journal, dropped, mixed>>
saveVars == <<pc, lock, todo, held, began, failed>>
procVars == <<proc, boots, stopped, terms>>
vars == <<agentVars, remote, procVars, saveVars, missed>>

\* No thread is saving.
AllIdle == [s \in Savers |-> "idle"]
NoFiles == [s \in Savers |-> {}]
NothingHeld == [s \in Savers |-> Nothing]
NothingBegun == [s \in Savers |-> [f \in Files |-> {}]]

Init ==
  /\ local = [f \in Files |-> Absent]
  /\ draft = [f \in Files |-> {}]
  /\ writes = 0
  /\ remote = [f \in Files |-> Absent]
  /\ proc = "starting"
  /\ boots = 1
  /\ stopped = FALSE
  /\ terms = 0
  /\ pc = AllIdle
  /\ lock = Nobody
  /\ todo = NoFiles
  /\ held = NothingHeld
  /\ began = NothingBegun
  /\ failed = NoFiles
  /\ missed = {}
  /\ journal = {} /\ mixed = {}
  /\ dropped = {}

-----------------------------------------------------------------------------
(* Reading a file.                                                          *)

\* The bytes on the disk.
Raw(f) == IF draft[f] # {} THEN Torn ELSE local[f]

\* Mutant: a database is uploaded like any other file.
SnapshotOfBytes(f) == Raw(f)

\* A database is copied with the backup API, which reads committed pages only.
Snapshot(f) == IF f \in Databases THEN local[f] ELSE Raw(f)

\* is_file: the file is there, half-written or not.
Exists(f) == local[f] # Absent \/ draft[f] # {}
-----------------------------------------------------------------------------
(* A save (WorkspaceSync.save), one file at a time.                         *)

\* A handler runs on the main thread: only the innermost one makes progress.
Runs(s) == proc \in {"up", "exiting"} /\ (s \in Handlers => s = Handler(terms) /\ proc = "up")

\* Mutant: the lock is not taken.
LockIsFreeAlways == TRUE

\* _save_lock is not reentrant.
LockIsFree == lock = Nobody

\* The lock is acquired and the databases are listed.
Acquire(s) ==
  /\ Runs(s)
  /\ pc[s] = "waiting"
  /\ LockIsFree
  /\ lock' = s
  /\ pc' = [pc EXCEPT ![s] = "databases"]
  /\ todo' = [todo EXCEPT ![s] = {f \in Databases : Exists(f)}]
  /\ began' = [began EXCEPT ![s] = [f \in Files |-> local[f].has]]
  /\ failed' = [failed EXCEPT ![s] = {}]
  /\ UNCHANGED <<agentVars, remote, procVars, held, missed>>

\* The next file is read, or reading it fails (the file is gone, the backup
\* raises, a skill is not valid Markdown) and the loop goes on.
ReadFile(s) ==
  /\ Runs(s)
  /\ held[s] = Nothing
  /\ \E f \in todo[s] :
       /\ todo' = [todo EXCEPT ![s] = @ \ {f}]
       /\ \/ /\ Exists(f)
             /\ held' = [held EXCEPT ![s] = <<f, Snapshot(f)>>]
             /\ UNCHANGED failed
          \/ /\ failed' = [failed EXCEPT ![s] = @ \union {f}]
             /\ UNCHANGED held
  /\ UNCHANGED <<agentVars, remote, procVars, pc, lock, began, missed>>

\* Mutant: the object is named after the temporary copy (.backup-*.s3tmp).
StoredUnderTemporaryName(s) ==
  IF held[s] = Nothing THEN remote
  ELSE [f \in Files \union {"temporary"} |-> IF f = "temporary" THEN held[s][2] ELSE remote[f]]

\* S3 takes the object over.
Stored(s) == IF held[s] = Nothing THEN remote
             ELSE [remote EXCEPT ![held[s][1]] = held[s][2]]

\* upload_file returns, or raises although S3 may have taken the object over.
Upload(s) ==
  /\ Runs(s)
  /\ held[s] # Nothing
  /\ held' = [held EXCEPT ![s] = Nothing]
  /\ \/ remote' = Stored(s) /\ UNCHANGED failed
     \/ /\ remote' \in {remote, Stored(s)}
        /\ failed' = [failed EXCEPT ![s] = @ \union {held[s][1]}]
  /\ UNCHANGED <<agentVars, procVars, pc, lock, todo, began, missed>>

\* Mutant: a failed upload ends the save.
LoopDoneOnFailure(s) == held[s] = Nothing /\ (todo[s] = {} \/ failed[s] # {})

\* The loop over the files ends when each was visited.
LoopDone(s) == held[s] = Nothing /\ todo[s] = {}

\* The databases are done and the other files are listed.
ListDocuments(s) ==
  /\ Runs(s)
  /\ pc[s] = "databases" /\ LoopDone(s)
  /\ pc' = [pc EXCEPT ![s] = "documents"]
  /\ todo' = [todo EXCEPT ![s] = {f \in Documents : Exists(f)}]
  /\ UNCHANGED <<agentVars, remote, procVars, lock, held, began, failed, missed>>

\* Mutant: the lock is released at the end only if all went well.
HolderAfterGoodSave(s) == IF failed[s] = {} THEN Nobody ELSE s

\* The with statement releases the lock however the save went.
HolderAfter(s) == Nobody

\* The save ends; that of a handler is followed by sys.exit.
Release(s) ==
  /\ Runs(s)
  /\ pc[s] = "documents" /\ LoopDone(s)
  /\ lock' = HolderAfter(s)
  /\ pc' = [pc EXCEPT ![s] = "idle"]
  /\ todo' = [todo EXCEPT ![s] = {}]
  /\ proc' = IF s \in Handlers THEN "exiting" ELSE proc
  /\ UNCHANGED <<agentVars, remote, boots, stopped, terms, held, began, failed, missed>>

SaveStep(s) ==
  Acquire(s) \/ ReadFile(s) \/ Upload(s) \/ ListDocuments(s) \/ Release(s)
-----------------------------------------------------------------------------
(* What starts a save.                                                      *)

\* The periodic thread wakes up after its interval, unless it was stopped.
Tick ==
  /\ proc = "up" /\ ~stopped
  /\ pc[Periodic] = "idle"
  /\ pc' = [pc EXCEPT ![Periodic] = "waiting"]
  /\ UNCHANGED <<agentVars, remote, procVars, lock, todo, held, began, failed, missed>>

\* The finally block of a turn hands its save to a thread.
EndTurn(s) ==
  /\ proc = "up" /\ terms = 0
  /\ pc[s] = "idle"
  /\ pc' = [pc EXCEPT ![s] = "waiting"]
  /\ UNCHANGED <<agentVars, remote, procVars, lock, todo, held, began, failed, missed>>

\* SIGTERM interrupts the main thread, another handler included.  Before the
\* workspace is bound there is nothing to save and the process exits.
Sigterm ==
  /\ proc \in {"starting", "up"} /\ terms < MaxTerms
  /\ terms' = terms + 1
  /\ IF proc = "up"
     THEN /\ stopped' = TRUE
          /\ pc' = [pc EXCEPT ![Handler(terms + 1)] = "waiting"]
          /\ UNCHANGED proc
     ELSE /\ proc' = "exiting"
          /\ UNCHANGED <<stopped, pc>>
  /\ UNCHANGED <<agentVars, remote, boots, lock, todo, held, began, failed, missed>>
-----------------------------------------------------------------------------
(* The process.                                                             *)

\* Downloaded databases that another state of the file left its journal beside:
\* only the .db itself is replaced.
Clashing(got) == {f \in got \intersect journal : local[f] # remote[f]}

\* What SQLite makes of such a database when it is next opened: the object, the
\* former file, a mixture of their pages, or one that is damaged.  Nothing happens
\* if the journal is gone or was written for the state the object has.
Mixtures(f) ==
  {Torn} \union {[has |-> h, torn |-> FALSE] : h \in SUBSET (local[f].has \union remote[f].has)}

\* The disk after a restore that downloaded the files got and left found in those
\* that clashed.  A whole listing is followed by the check that deletes a damaged
\* database.
Restored(got, found, listed) ==
  [f \in Files |->
     LET c == IF f \in DOMAIN found THEN found[f]
              ELSE IF f \in got THEN remote[f] ELSE local[f] IN
     IF listed /\ f \in Databases /\ c.torn THEN Absent ELSE c]

\* The check opens every database, and SQLite then does away with its journal.
JournalsAfter(listed) == IF listed THEN {f \in journal : local'[f] = Absent} ELSE journal

\* The first invocation: restore (WorkspaceSync.restore), the periodic thread,
\* then the globals.  It runs on the event loop, before there is an agent, so
\* nothing interleaves with it.  Any of the downloads can fail, or the listing
\* in the middle, and the process goes on.
Restore ==
  /\ proc = "starting"
  /\ proc' = "up"
  /\ \E got \in SUBSET {f \in Files : remote[f] # Absent}, listed \in BOOLEAN :
       \E found \in [Clashing(got) -> Content] :
         /\ \A f \in Clashing(got) : found[f] \in Mixtures(f)
         /\ local' = Restored(got, found, listed)
         /\ journal' = JournalsAfter(listed)
         /\ mixed' = mixed \union {f \in Clashing(got) : local'[f] # remote[f]}
         /\ missed' = {f \in Files : remote[f] # Absent /\ (f \notin got \/ local'[f] # remote[f])}
  /\ UNCHANGED <<draft, writes, dropped, remote, boots, stopped, terms, saveVars>>

\* The interpreter ends once the threads of the executor did; the periodic
\* thread is a daemon and is dropped where it is.
Down ==
  /\ proc' = "down"
  /\ draft' = [f \in Files |-> {}]
  /\ stopped' = FALSE
  /\ terms' = 0
  /\ pc' = AllIdle
  /\ lock' = Nobody
  /\ todo' = NoFiles
  /\ held' = NothingHeld
  /\ began' = NothingBegun
  /\ failed' = NoFiles
  /\ UNCHANGED <<writes, journal, dropped, mixed, boots, missed>>

Exit ==
  /\ proc = "exiting"
  /\ \A s \in TurnSavers : pc[s] = "idle"
  /\ local' = [f \in Files |-> Snapshot(f)]
  /\ remote' \in {remote, Stored(Periodic)}
  /\ Down

\* SIGKILL, or the machine goes away: an upload under way was or was not
\* completed, a document being written stays torn.
Kill ==
  /\ proc \in {"starting", "up", "exiting"}
  /\ local' = [f \in Files |-> Snapshot(f)]
  /\ remote' \in {remote} \union {Stored(s) : s \in Savers}
  /\ Down

\* A process is started for the session, on the disk of the last one or, on
\* another machine, on an empty one.
Boot ==
  /\ proc = "down" /\ boots < MaxBoots
  /\ proc' = "starting"
  /\ boots' = boots + 1
  /\ \/ UNCHANGED <<local, journal>>
     \/ local' = [f \in Files |-> Absent] /\ journal' = {}
  /\ missed' = {}
  /\ UNCHANGED <<draft, writes, dropped, mixed, remote, stopped, terms, saveVars>>
-----------------------------------------------------------------------------
(* The agent, on a worker thread (external: how hermes-agent writes).       *)

\* Its threads are joined on exit, so it goes on after the handler's sys.exit;
\* without an invocation there is no agent.
AgentRuns == proc = "up" \/ (proc = "exiting" /\ stopped)

\* The agent starts to rewrite a file, adding to what it holds.  SQLite opens a
\* journal for it and takes it away whenever it sees fit, if it is not killed.
BeginWrite(f) ==
  /\ AgentRuns
  /\ writes < MaxWrites /\ draft[f] = {}
  /\ writes' = writes + 1
  /\ draft' = [draft EXCEPT ![f] = local[f].has \union {writes + 1}]
  /\ journal' = journal \union ({f} \intersect Databases)
  /\ UNCHANGED <<local, dropped, mixed, remote, procVars, saveVars, missed>>

\* The file is complete, or the transaction is committed, or given up because the
\* database is damaged.
EndWrite(f) ==
  /\ AgentRuns
  /\ draft[f] # {}
  /\ local' = [local EXCEPT ![f] = IF f \in Databases /\ @.torn THEN @
                                   ELSE [has |-> draft[f], torn |-> FALSE]]
  /\ draft' = [draft EXCEPT ![f] = {}]
  /\ UNCHANGED <<writes, journal, dropped, mixed, remote, procVars, saveVars, missed>>

\* The agent deletes a file.  Nothing deletes its object.
Remove(f) ==
  /\ AgentRuns
  /\ f \in Documents /\ draft[f] = {} /\ local[f] # Absent
  /\ local' = [local EXCEPT ![f] = Absent]
  /\ dropped' = dropped \union local[f].has
  /\ UNCHANGED <<draft, writes, journal, mixed, remote, procVars, saveVars, missed>>
-----------------------------------------------------------------------------
Next ==
  \/ \E s \in Savers : SaveStep(s)
  \/ Tick
  \/ \E s \in TurnSavers : EndTurn(s)
  \/ Sigterm \/ Restore \/ Exit \/ Kill \/ Boot
  \/ \E f \in Files : BeginWrite(f) \/ EndWrite(f) \/ Remove(f)

Spec == Init /\ [][Next]_vars

\* Threads run, S3 answers or times out, and an exiting process ends.
FairSpec == Spec /\ WF_vars(Exit) /\ \A s \in Savers : WF_vars(SaveStep(s))
-----------------------------------------------------------------------------
(* Properties.                                                              *)

TypeOK ==
  /\ local \in [Files -> Content]
  /\ draft \in [Files -> SUBSET Writes]
  /\ writes \in 0..MaxWrites
  /\ remote \in [Files -> Content]
  /\ proc \in {"starting", "up", "exiting", "down"}
  /\ boots \in 1..MaxBoots
  /\ stopped \in BOOLEAN
  /\ terms \in 0..MaxTerms
  /\ pc \in [Savers -> {"idle", "waiting", "databases", "documents"}]
  /\ lock \in Savers \union {Nobody}
  /\ todo \in [Savers -> SUBSET Files]
  /\ held \in [Savers -> (Files \X Content) \union {Nothing}]
  /\ began \in [Savers -> [Files -> SUBSET Writes]]
  /\ failed \in [Savers -> SUBSET Files]
  /\ missed \in SUBSET Files
  /\ journal \in SUBSET Databases /\ mixed \in SUBSET Databases
  /\ dropped \in SUBSET Writes

\* The object of a database is one a transaction left behind, also when it was
\* saved in the middle of one (_sqlite_backup), unless a restore once put an
\* object beside the journal of a newer file.
DatabasesIntact == \A f \in Databases \ mixed : ~remote[f].torn /\ ~local[f].torn

\* However saves of threads and processes interleave, no upload takes back
\* writes that were saved before, unless the agent removed them, the file was
\* caught half-written, or this process had failed to restore it as it was saved.
HistoryPreserved ==
  [][\A f \in Files \ missed : ~remote'[f].torn =>
        remote[f].has \ dropped \subseteq remote'[f].has]_vars

\* A save that ends has put into the bucket all that was in the workspace when
\* it began, of every file but those whose upload failed: one failure does not
\* stop the remaining files (runbook: "do not stop the remaining files").  For
\* the handler: what SIGTERM found is saved before the process exits.
SaveIsComplete ==
  [][\A s \in Savers : pc[s] = "documents" /\ pc'[s] = "idle" /\ proc' # "down" =>
        \A f \in Files \ failed[s] :
          remote'[f].torn \/ began[s][f] \ dropped \subseteq remote'[f].has]_vars

\* After a SIGTERM the process ends, whatever the savers are doing
\* (main.py: "shutdown must still exit").
ShutdownExits == terms > 0 ~> proc = "down"

\* The workspace directory persists across stop and resume and is the primary
\* storage (docs/upstream/AGENTCORE_CONTRACT.md:257): starting a process on a
\* disk that kept it does not take writes from it.
PrimaryStorageKept ==
  [][proc = "starting" /\ proc' = "up" =>
        \A f \in Files : local[f].has \subseteq local'[f].has]_vars

\* Workspace implements DurableStore: a half-written file counts as nothing.
Store == INSTANCE DurableStore WITH
  disk <- [f \in Files |-> local[f].has],
  bucket <- [f \in Files |-> remote[f].has],
  cut <- {f \in Files : remote[f].torn},
  beside <- journal,
  running <- AgentRuns

\* However threads, signals and processes interleave and whichever calls fail, the
\* workspace and the bucket do what a store without any of them may do.
ImplementsStore == Store!Spec
=============================================================================
