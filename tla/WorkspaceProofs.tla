---------------------------- MODULE WorkspaceProofs ----------------------------
(***************************************************************************)
(* Proofs about Workspace, for any files, turns, writes, restarts and      *)
(* signals.                                                                *)
(***************************************************************************)
EXTENDS Workspace, TLAPS

-----------------------------------------------------------------------------
(* The inductive invariant.                                                 *)

\* The saver that holds the lock is the only one in the loops of save.
Exclusion ==
  /\ \A s \in Savers : pc[s] \in {"databases", "documents"} => lock = s
  /\ \A s \in Savers : (todo[s] # {} \/ held[s] # Nothing) => pc[s] \in {"databases", "documents"}
  /\ \A s \in Savers : pc[s] # "idle" => AgentRuns /\ (s \in Handlers => stopped)
  /\ draft # [f \in Files |-> {}] => AgentRuns

\* Handlers that are not on the stack do not run, and none has set _stop in a
\* process without a workspace.
Stack ==
  /\ \A n \in 1..MaxTerms : n > terms => pc[Handler(n)] = "idle"
  /\ proc \in {"starting", "down"} => ~stopped

\* A database is never half-written, wherever it is, unless a restore mixed it.
Intact ==
  /\ \A f \in Databases \ mixed : ~local[f].torn /\ ~remote[f].torn
  /\ \A s \in Savers : held[s] # Nothing /\ held[s][1] \in Databases \ mixed => ~held[s][2].torn

\* A half-written file holds nothing that counts.
TornIsEmpty ==
  /\ \A f \in Files : local[f].torn => local[f].has = {}
  /\ \A f \in Files : remote[f].torn => remote[f].has = {}
  /\ \A s \in Savers : held[s] # Nothing /\ held[s][2].torn => held[s][2].has = {}

\* old holds nothing beyond new but what the agent removed.
Within(old, new) == old \ dropped \subseteq new

\* A file on the disk has all that was saved of it, unless it was not restored,
\* and all that is being saved; what is being saved has all that was saved.
Ahead ==
  /\ AgentRuns => \A f \in Files : draft[f] # {} => local[f].has \subseteq draft[f]
  /\ AgentRuns => \A f \in Files \ missed : Within(remote[f].has, local[f].has)
  /\ \A s \in Savers : held[s] # Nothing =>
       /\ Within(held[s][2].has, local[held[s][1]].has)
       /\ (held[s][1] \notin missed /\ ~held[s][2].torn) =>
            Within(remote[held[s][1]].has, held[s][2].has)

\* What the save of s is to cover of file f is covered.
Covered(s, f) ==
  f \in failed[s] \/ remote[f].torn \/ Within(began[s][f], remote[f].has)

\* A file is still to be read, has been read, or is covered.
Accounted(s, f) ==
  \/ f \in todo[s]
  \/ held[s] # Nothing /\ held[s][1] = f
  \/ Covered(s, f)

\* Where a save is and what it has covered.
Coverage ==
  \A s \in Savers : pc[s] \in {"databases", "documents"} =>
    /\ \A f \in Files : Within(began[s][f], local[f].has)
    /\ held[s] # Nothing =>
         /\ held[s][1] \notin todo[s]
         /\ held[s][2].torn \/ Within(began[s][held[s][1]], held[s][2].has)
    /\ \A f \in Databases : Accounted(s, f)
    /\ pc[s] = "documents" => \A f \in Documents : Accounted(s, f)

\* A database that is being written has a journal.
Journaled == \A f \in Databases : draft[f] # {} => f \in journal

IInv == TypeOK /\ Exclusion /\ Stack /\ Intact /\ TornIsEmpty /\ Ahead /\ Coverage

-----------------------------------------------------------------------------
(* Facts about the constants.                                               *)

\* Who the savers are.
LEMMA SaverFacts ==
  /\ Periodic \in Savers /\ Nobody \notin Savers
  /\ Handlers \subseteq Savers /\ TurnSavers \subseteq Savers
  /\ Periodic \notin Handlers /\ TurnSavers \intersect Handlers = {}
  /\ \A n \in 1..MaxTerms : Handler(n) \in Handlers
BY DEF Savers, Handlers, TurnSavers, Handler, Periodic, Nobody

\* What files hold.
LEMMA ContentFacts ==
  /\ Absent \in Content /\ Absent.has = {} /\ ~Absent.torn
  /\ Torn \in Content /\ Torn.has = {} /\ Torn.torn
  /\ \A h \in SUBSET Writes : [has |-> h, torn |-> FALSE] \in Content
  /\ \A c \in Content : c.has \in SUBSET Writes /\ c.torn \in BOOLEAN
BY DEF Absent, Torn, Content

\* What is uploaded is a file and a content.
LEMMA HeldFacts ==
  ASSUME TypeOK, NEW s \in Savers, held[s] # Nothing
  PROVE  held[s][1] \in Files /\ held[s][2] \in Content
BY DEF TypeOK

\* A pair is something to be uploaded.
LEMMA PairFacts ==
  ASSUME NEW f \in Files, NEW c \in Content
  PROVE  /\ <<f, c>> \in (Files \X Content) \union {Nothing} /\ <<f, c>> # Nothing
         /\ <<f, c>>[1] = f /\ <<f, c>>[2] = c
BY DEF Nothing

\* What is read of a file is of its type: all of it, or torn.
LEMMA SnapshotFacts ==
  ASSUME TypeOK, NEW f \in Files
  PROVE  /\ Snapshot(f) \in Content
         /\ Snapshot(f) = local[f] \/ (Snapshot(f) = Torn /\ f \notin Databases)
BY ContentFacts DEF TypeOK, Snapshot, Raw

\* A file that does not exist holds nothing.
LEMMA ExistsFacts ==
  ASSUME NEW f \in Files, ~Exists(f)
  PROVE  local[f].has = {} /\ ~local[f].torn
BY ContentFacts DEF Exists

\* What S3 holds once it took an upload over.
LEMMA StoredFacts ==
  ASSUME TypeOK, NEW s \in Savers
  PROVE  /\ Stored(s) \in [Files -> Content]
         /\ \A f \in Files : \/ Stored(s)[f] = remote[f]
                             \/ held[s] # Nothing /\ held[s][1] = f /\ Stored(s)[f] = held[s][2]
         /\ held[s] # Nothing => Stored(s)[held[s][1]] = held[s][2]
BY HeldFacts DEF TypeOK, Stored

-----------------------------------------------------------------------------
(* Type correctness.                                                        *)

\* No saver at work is a state of the savers.
LEMMA IdleTypes ==
  /\ AllIdle \in [Savers -> {"idle", "waiting", "databases", "documents"}]
  /\ NoFiles \in [Savers -> SUBSET Files]
  /\ NothingHeld \in [Savers -> (Files \X Content) \union {Nothing}]
  /\ NothingBegun \in [Savers -> [Files -> SUBSET Writes]]
BY DEF AllIdle, NoFiles, NothingHeld, NothingBegun

\* The initial states are of the declared types.
LEMMA TypeInit == Init => TypeOK
<1> SUFFICES ASSUME Init PROVE TypeOK
  OBVIOUS
<1>1. boots \in 1..MaxBoots /\ writes \in 0..MaxWrites /\ terms \in 0..MaxTerms
  BY WorkspaceAssumption DEF Init
<1>2. local \in [Files -> Content] /\ remote \in [Files -> Content]
  BY ContentFacts DEF Init
<1>3. /\ draft \in [Files -> SUBSET Writes] /\ missed \in SUBSET Files /\ dropped \in SUBSET Writes
      /\ journal \in SUBSET Databases /\ mixed \in SUBSET Databases
  BY DEF Init
<1>. QED  BY <1>1, <1>2, <1>3, IdleTypes DEF Init, TypeOK

\* The end of a process keeps types.
LEMMA DownTypes ==
  ASSUME TypeOK, Down, local' = [f \in Files |-> Snapshot(f)],
         remote' = remote \/ \E s \in Savers : remote' = Stored(s)
  PROVE  TypeOK'
<1>1. local' \in [Files -> Content]
  BY SnapshotFacts
<1>2. remote' \in [Files -> Content]
  BY StoredFacts DEF TypeOK
<1>3. draft' \in [Files -> SUBSET Writes]
  BY DEF Down
<1>4. /\ proc' = "down" /\ stopped' = FALSE /\ terms' \in 0..MaxTerms
      /\ UNCHANGED <<writes, journal, dropped, mixed, boots, missed>>
  BY WorkspaceAssumption DEF Down
<1>5. /\ pc' \in [Savers -> {"idle", "waiting", "databases", "documents"}]
      /\ todo' \in [Savers -> SUBSET Files] /\ failed' \in [Savers -> SUBSET Files]
      /\ held' \in [Savers -> (Files \X Content) \union {Nothing}]
      /\ began' \in [Savers -> [Files -> SUBSET Writes]]
      /\ lock' \in Savers \union {Nobody}
  BY IdleTypes DEF Down
<1>. QED  BY <1>1, <1>2, <1>3, <1>4, <1>5 DEF TypeOK

\* What SQLite can make of a database is of its type, and if damaged it holds nothing.
LEMMA MixtureFacts ==
  ASSUME TypeOK, NEW f \in Files, NEW c \in Mixtures(f)
  PROVE  /\ c \in Content /\ c.has \subseteq local[f].has \union remote[f].has
         /\ c.torn => c.has = {}
<1>1. local[f].has \in SUBSET Writes /\ remote[f].has \in SUBSET Writes
  BY ContentFacts DEF TypeOK
<1>2. CASE c = Torn
  BY <1>2, ContentFacts
<1>3. ASSUME NEW h \in SUBSET (local[f].has \union remote[f].has), c = [has |-> h, torn |-> FALSE]
      PROVE  /\ c \in Content /\ c.has \subseteq local[f].has \union remote[f].has
             /\ c.torn => c.has = {}
  <2>1. h \in SUBSET Writes
    BY <1>1
  <2>. QED  BY <1>3, <2>1, ContentFacts
<1>. QED  BY <1>2, <1>3 DEF Mixtures

\* What a restore does, file by file.
Brought(got, listed) ==
  /\ got \subseteq Files /\ \A f \in got : remote[f] # Absent
  /\ mixed' = mixed \union {f \in Clashing(got) : local'[f] # remote[f]}
  /\ missed' = {f \in Files : remote[f] # Absent /\ (f \notin got \/ local'[f] # remote[f])}
  /\ journal' = JournalsAfter(listed)
  /\ local' \in [Files -> Content]
  /\ \A f \in Files :
       \/ listed /\ f \in Databases /\ local'[f] = Absent
       \/ f \in Clashing(got) /\ local'[f] \in Mixtures(f)
       \/ f \in got /\ local'[f] = remote[f]
       \/ f \notin got /\ local'[f] = local[f]
  \* Only what is damaged is deleted.
  /\ \A f \in Files : (local'[f] = Absent /\ f \notin Clashing(got)) =>
       \/ f \in got /\ (remote[f] = Absent \/ (f \in Databases /\ remote[f].torn))
       \/ f \notin got /\ (local[f] = Absent \/ (f \in Databases /\ local[f].torn))

\* A restore is one of these.
LEMMA RestoreFacts ==
  ASSUME TypeOK, Restore
  PROVE  \E got \in SUBSET Files, listed \in BOOLEAN : Brought(got, listed)
<1>1. PICK got \in SUBSET {f \in Files : remote[f] # Absent}, listed \in BOOLEAN :
        \E found \in [Clashing(got) -> Content] :
          /\ \A f \in Clashing(got) : found[f] \in Mixtures(f)
          /\ local' = Restored(got, found, listed)
          /\ journal' = JournalsAfter(listed)
          /\ mixed' = mixed \union {f \in Clashing(got) : local'[f] # remote[f]}
          /\ missed' = {f \in Files : remote[f] # Absent /\ (f \notin got \/ local'[f] # remote[f])}
  BY DEF Restore
<1>2. PICK found \in [Clashing(got) -> Content] :
        /\ \A f \in Clashing(got) : found[f] \in Mixtures(f)
        /\ local' = Restored(got, found, listed)
  BY <1>1
<1>3. DOMAIN found = Clashing(got) /\ Clashing(got) \subseteq got /\ got \subseteq Files
  BY DEF Clashing
<1>4. ASSUME NEW f \in Files
      PROVE  /\ local'[f] \in Content
             /\ \/ listed /\ f \in Databases /\ local'[f] = Absent
                \/ f \in Clashing(got) /\ local'[f] \in Mixtures(f)
                \/ f \in got /\ local'[f] = remote[f]
                \/ f \notin got /\ local'[f] = local[f]
             /\ (local'[f] = Absent /\ f \notin Clashing(got)) =>
                  \/ f \in got /\ (remote[f] = Absent \/ (f \in Databases /\ remote[f].torn))
                  \/ f \notin got /\ (local[f] = Absent \/ (f \in Databases /\ local[f].torn))
  <2> DEFINE c == IF f \in DOMAIN found THEN found[f]
                  ELSE IF f \in got THEN remote[f] ELSE local[f]
  <2>1. local'[f] = IF listed /\ f \in Databases /\ c.torn THEN Absent ELSE c
    BY <1>2 DEF Restored
  <2>2. c \in Content
    BY <1>2, <1>3 DEF TypeOK
  <2>3. CASE f \in Clashing(got)
    BY <1>2, <1>3, <2>1, <2>2, <2>3, ContentFacts
  <2>4. CASE f \notin Clashing(got)
    BY <1>3, <2>1, <2>2, <2>4, ContentFacts
  <2>. QED  BY <2>3, <2>4
<1>5. local' \in [Files -> Content]
  <2>1. local' = [f \in Files |-> local'[f]]
    BY <1>2 DEF Restored
  <2>. QED  BY <1>4, <2>1
<1>6. Brought(got, listed)
  BY <1>1, <1>3, <1>4, <1>5 DEF Brought
<1>. QED  BY <1>3, <1>6

\* Every step keeps types, one step of the proof per action.
LEMMA TypeNext == TypeOK /\ [Next]_vars => TypeOK'
<1> SUFFICES ASSUME TypeOK, [Next]_vars PROVE TypeOK'
  OBVIOUS
<1> USE WorkspaceAssumption
<1> USE DEF TypeOK, agentVars, procVars, saveVars
<1>1. ASSUME NEW s \in Savers, Acquire(s) PROVE TypeOK'
  <2>1. [f \in Files |-> local[f].has] \in [Files -> SUBSET Writes]
    BY ContentFacts
  <2>2. Databases \subseteq Files
    BY DEF Files
  <2>. QED  BY <1>1, <2>1, <2>2 DEF Acquire
<1>2. ASSUME NEW s \in Savers, ReadFile(s) PROVE TypeOK'
  <2>1. PICK f \in todo[s] :
          /\ todo' = [todo EXCEPT ![s] = @ \ {f}]
          /\ \/ held' = [held EXCEPT ![s] = <<f, Snapshot(f)>>] /\ UNCHANGED failed
             \/ failed' = [failed EXCEPT ![s] = @ \union {f}] /\ UNCHANGED held
    BY <1>2 DEF ReadFile
  <2>2. f \in Files
    OBVIOUS
  <2>3. <<f, Snapshot(f)>> \in (Files \X Content) \union {Nothing}
    BY <2>2, SnapshotFacts, PairFacts
  <2>4. todo' \in [Savers -> SUBSET Files]
    BY <2>1
  <2>6. failed' \in [Savers -> SUBSET Files]
    <3>1. failed[s] \union {f} \in SUBSET Files
      BY <2>2
    <3>. QED  BY <2>1, <3>1
  <2>5. held' \in [Savers -> (Files \X Content) \union {Nothing}]
    BY <2>1, <2>3
  <2>. QED  BY <1>2, <2>4, <2>5, <2>6 DEF ReadFile
<1>3. ASSUME NEW s \in Savers, Upload(s) PROVE TypeOK'
  <2>1. remote' \in [Files -> Content] /\ held[s][1] \in Files
    BY <1>3, StoredFacts, HeldFacts DEF Upload
  <2>. QED  BY <1>3, <2>1 DEF Upload
<1>4. ASSUME NEW s \in Savers, ListDocuments(s) PROVE TypeOK'
  BY <1>4 DEF ListDocuments, Files
<1>5. ASSUME NEW s \in Savers, Release(s) PROVE TypeOK'
  BY <1>5 DEF Release, HolderAfter
<1>6. CASE Tick
  BY <1>6, SaverFacts DEF Tick
<1>7. ASSUME NEW s \in TurnSavers, EndTurn(s) PROVE TypeOK'
  BY <1>7, SaverFacts DEF EndTurn
<1>8. CASE Sigterm
  <2>1. terms' \in 0..MaxTerms
    BY <1>8 DEF Sigterm
  <2>2. CASE proc = "up"
    BY <1>8, <2>1, <2>2 DEF Sigterm
  <2>3. CASE proc # "up"
    BY <1>8, <2>1, <2>3 DEF Sigterm
  <2>. QED  BY <2>2, <2>3
<1>9. CASE Restore
  <2>1. PICK got \in SUBSET Files, listed \in BOOLEAN : Brought(got, listed)
    BY <1>9, RestoreFacts
  <2>2. /\ local' \in [Files -> Content] /\ journal' \in SUBSET Databases
        /\ mixed' \in SUBSET Databases /\ missed' \in SUBSET Files
    BY <2>1 DEF Brought, JournalsAfter, Clashing
  <2>. QED  BY <1>9, <2>2 DEF Restore
<1>10. CASE Exit
  BY <1>10, SaverFacts, DownTypes DEF Exit
<1>11. CASE Kill
  BY <1>11, DownTypes DEF Kill
<1>12. CASE Boot
  BY <1>12, ContentFacts DEF Boot
<1>13. ASSUME NEW f \in Files, BeginWrite(f) PROVE TypeOK'
  <2>1. local[f].has \union {writes + 1} \in SUBSET Writes /\ writes + 1 \in 0..MaxWrites
    BY <1>13, ContentFacts DEF BeginWrite, Writes
  <2>. QED  BY <1>13, <2>1 DEF BeginWrite
<1>14. ASSUME NEW f \in Files, EndWrite(f) PROVE TypeOK'
  BY <1>14, ContentFacts DEF EndWrite
<1>15. ASSUME NEW f \in Files, Remove(f) PROVE TypeOK'
  BY <1>15, ContentFacts DEF Remove
<1>16. CASE UNCHANGED vars
  BY <1>16 DEF vars
<1>. QED  BY <1>1, <1>2, <1>3, <1>4, <1>5, <1>6, <1>7, <1>8, <1>9, <1>10, <1>11, <1>12, <1>13, <1>14, <1>15, <1>16 DEF Next, SaveStep

-----------------------------------------------------------------------------
(* Steps of a save.                                                         *)

\* No saver but the holder of the lock is in the loops of save.
LEMMA OnlyHolder ==
  ASSUME Exclusion, NEW s \in Savers, NEW u \in Savers, u # s,
         pc[s] \in {"databases", "documents"}
  PROVE  pc[u] \notin {"databases", "documents"} /\ held[u] = Nothing /\ todo[u] = {}
BY DEF Exclusion

\* Taking the lock and listing the databases keeps the invariant: what does not
\* exist needs no saving.
LEMMA AcquireKeeps ==
  ASSUME IInv, TypeOK', NEW s \in Savers, Acquire(s)
  PROVE  IInv'
<1> USE DEF agentVars, procVars
<1>1. /\ pc' = [pc EXCEPT ![s] = "databases"] /\ lock = Nobody /\ lock' = s
      /\ todo' = [todo EXCEPT ![s] = {f \in Databases : Exists(f)}]
      /\ began' = [began EXCEPT ![s] = [f \in Files |-> local[f].has]]
      /\ failed' = [failed EXCEPT ![s] = {}]
      /\ UNCHANGED <<local, draft, writes, dropped, mixed, remote, proc, boots, stopped, terms, held,
                     missed>>
      /\ pc[s] = "waiting"
  BY DEF Acquire, LockIsFree
<1>2. \A u \in Savers : pc[u] \notin {"databases", "documents"} /\ held[u] = Nothing /\ todo[u] = {}
  BY <1>1, SaverFacts DEF IInv, Exclusion
<1>3. Exclusion'
  BY <1>1, <1>2 DEF IInv, TypeOK, Exclusion, AgentRuns
<1>4. Intact' /\ TornIsEmpty'
  BY <1>1 DEF IInv, Intact, TornIsEmpty
<1>5. Ahead'
  BY <1>1 DEF IInv, Ahead, AgentRuns, Within
<1>6. Coverage'
  <2>1. SUFFICES ASSUME NEW u \in Savers, pc'[u] \in {"databases", "documents"}
        PROVE  /\ \A f \in Files : Within(began[u][f], local[f].has)'
               /\ held'[u] = Nothing
               /\ \A f \in Databases : Accounted(u, f)'
               /\ pc'[u] = "databases"
    BY DEF Coverage
  <2>2. u = s
    BY <1>1, <1>2, <2>1 DEF IInv, TypeOK
  <2>3. pc'[s] = "databases" /\ todo'[s] = {f \in Databases : Exists(f)}
        /\ began'[s] = [f \in Files |-> local[f].has]
    BY <1>1 DEF IInv, TypeOK
  <2>4. ASSUME NEW f \in Files PROVE Within(began[s][f], local[f].has)'
    BY <1>1, <2>3 DEF Within
  <2>5. ASSUME NEW f \in Databases PROVE Accounted(s, f)'
    <3>1. CASE Exists(f)
      BY <2>3, <3>1 DEF Accounted
    <3>2. CASE ~Exists(f)
      <4>1. f \in Files
        BY DEF Files
      <4>2. local[f].has = {}
        BY <3>2, <4>1, ExistsFacts
      <4>3. Within(began[s][f], remote[f].has)'
        BY <2>3, <4>1, <4>2 DEF Within
      <4>. QED  BY <4>3 DEF Accounted, Covered
    <3>. QED  BY <3>1, <3>2
  <2>. QED  BY <1>1, <1>2, <2>2, <2>3, <2>4, <2>5
<1>7. Stack'
  BY <1>1 DEF IInv, TypeOK, Stack
<1>. QED  BY <1>3, <1>4, <1>5, <1>6, <1>7 DEF IInv

\* Reading a file keeps the invariant: what was read is what the disk has of it.
LEMMA ReadFileKeeps ==
  ASSUME IInv, TypeOK', NEW s \in Savers, ReadFile(s)
  PROVE  IInv'
<1> USE DEF agentVars, procVars
<1>1. PICK f \in todo[s] :
        /\ todo' = [todo EXCEPT ![s] = @ \ {f}]
        /\ \/ held' = [held EXCEPT ![s] = <<f, Snapshot(f)>>] /\ UNCHANGED failed
           \/ failed' = [failed EXCEPT ![s] = @ \union {f}] /\ UNCHANGED held
  BY DEF ReadFile
<1>2. /\ UNCHANGED <<local, draft, writes, dropped, mixed, remote, proc, boots, stopped, terms, pc,
                     lock, began, missed>>
      /\ held[s] = Nothing
  BY DEF ReadFile
<1>3. f \in Files
  BY DEF IInv, TypeOK
<1>4. pc[s] \in {"databases", "documents"}
  BY DEF IInv, Exclusion
<1>5. \A u \in Savers : u # s =>
        pc[u] \notin {"databases", "documents"} /\ held[u] = Nothing /\ todo[u] = {}
  BY <1>4, OnlyHolder DEF IInv
<1>6. AgentRuns
  BY <1>4 DEF IInv, Exclusion
<1>7. \A u \in Savers : u # s => held'[u] = Nothing /\ todo'[u] = {}
  BY <1>1, <1>5 DEF IInv, TypeOK
<1>8. todo'[s] = todo[s] \ {f}
  BY <1>1 DEF IInv, TypeOK
<1>9. Exclusion'
  BY <1>2, <1>4, <1>7 DEF IInv, Exclusion, AgentRuns
<1>10. Stack'
  BY <1>2 DEF IInv, Stack
<1>11. CASE failed' = [failed EXCEPT ![s] = @ \union {f}] /\ UNCHANGED held
  <2>1. failed'[s] = failed[s] \union {f}
    BY <1>11 DEF IInv, TypeOK
  <2>2. Intact' /\ TornIsEmpty' /\ Ahead'
    BY <1>2, <1>11 DEF IInv, Intact, TornIsEmpty, Ahead, AgentRuns, Within
  <2>3. ASSUME NEW g \in Files, Accounted(s, g) PROVE Accounted(s, g)'
    BY <1>2, <1>8, <1>11, <2>1, <2>3 DEF Accounted, Covered, Within
  <2>4. Coverage'
    BY <1>2, <1>5, <1>8, <1>11, <2>3 DEF IInv, Coverage, Within, Files
  <2>. QED  BY <1>9, <1>10, <2>2, <2>4 DEF IInv
<1>12. CASE held' = [held EXCEPT ![s] = <<f, Snapshot(f)>>] /\ UNCHANGED failed
  <2> DEFINE c == Snapshot(f)
  <2>1. c \in Content /\ (c = local[f] \/ (c = Torn /\ f \notin Databases))
    BY <1>3, SnapshotFacts DEF IInv
  <2>2. held'[s] # Nothing /\ held'[s][1] = f /\ held'[s][2] = c
    <3>1. held'[s] = <<f, c>>
      BY <1>12 DEF IInv, TypeOK
    <3>2. c \in Content
      BY <2>1
    <3>. QED  BY <1>3, <3>1, <3>2, PairFacts
  <2> HIDE DEF c
  <2>3. Intact'
    BY <1>2, <1>7, <2>1, <2>2 DEF IInv, Intact
  <2>4. TornIsEmpty'
    BY <1>2, <1>3, <1>7, <2>1, <2>2, ContentFacts DEF IInv, TornIsEmpty
  <2>5. Ahead'
    <3>1. Within(c.has, local[f].has)
      BY <2>1, ContentFacts DEF Within
    <3>2. f \notin missed /\ ~c.torn => Within(remote[f].has, c.has)
      BY <1>3, <1>6, <2>1, ContentFacts DEF IInv, Ahead
    <3>. QED  BY <1>2, <1>7, <2>2, <3>1, <3>2 DEF IInv, Ahead, AgentRuns, Within
  <2>6. ASSUME NEW g \in Files, Accounted(s, g) PROVE Accounted(s, g)'
    BY <1>2, <1>8, <1>12, <2>2, <2>6 DEF Accounted, Covered, Within
  <2>7. c.torn \/ Within(began[s][f], c.has)
    BY <1>3, <1>4, <2>1, ContentFacts DEF IInv, Coverage
  <2>8. Coverage'
    BY <1>2, <1>5, <1>8, <2>2, <2>6, <2>7 DEF IInv, Coverage, Within, Files
  <2>. QED  BY <1>9, <1>10, <2>3, <2>4, <2>5, <2>8 DEF IInv
<1>. QED  BY <1>1, <1>11, <1>12

\* An upload keeps the invariant: the object moves on to what was read, or stays.
LEMMA UploadKeeps ==
  ASSUME IInv, TypeOK', NEW s \in Savers, Upload(s)
  PROVE  IInv'
<1> USE DEF agentVars, procVars
<1> DEFINE f == held[s][1]
           c == held[s][2]
<1>1. /\ held[s] # Nothing /\ held' = [held EXCEPT ![s] = Nothing]
      /\ UNCHANGED <<local, draft, writes, dropped, mixed, proc, boots, stopped, terms, pc, lock,
                     todo, began, missed>>
      /\ \/ remote' = Stored(s) /\ UNCHANGED failed
         \/ remote' \in {remote, Stored(s)} /\ failed' = [failed EXCEPT ![s] = @ \union {f}]
  BY DEF Upload
<1>2. f \in Files /\ c \in Content
  BY <1>1, HeldFacts DEF IInv
<1>3. pc[s] \in {"databases", "documents"}
  BY <1>1 DEF IInv, Exclusion
<1>4. \A u \in Savers : u # s =>
        pc[u] \notin {"databases", "documents"} /\ held[u] = Nothing /\ todo[u] = {}
  BY <1>3, OnlyHolder DEF IInv
<1>5. \A u \in Savers : held'[u] = Nothing
  BY <1>1, <1>4 DEF IInv, TypeOK
<1>6. \A g \in Files : remote'[g] = remote[g] \/ (g = f /\ remote'[g] = c)
  BY <1>1, StoredFacts DEF IInv
<1>7. remote'[f] = c \/ f \in failed'[s]
  BY <1>1, <1>2, StoredFacts DEF IInv, TypeOK
<1>8. failed[s] \subseteq failed'[s]
  BY <1>1 DEF IInv, TypeOK
<1> HIDE DEF f, c
<1>9. Exclusion'
  BY <1>1, <1>5 DEF IInv, Exclusion, AgentRuns
<1>10. (f \in Databases \ mixed => ~c.torn) /\ (c.torn => c.has = {})
  BY <1>1 DEF IInv, Intact, TornIsEmpty, f, c
<1>11. Intact' /\ TornIsEmpty'
  BY <1>1, <1>5, <1>6, <1>10 DEF IInv, Intact, TornIsEmpty, Files
<1>12. Within(c.has, local[f].has)
  BY <1>1 DEF IInv, Ahead, f, c
<1>13. Ahead'
  BY <1>1, <1>5, <1>6, <1>12 DEF IInv, Ahead, AgentRuns, Within
<1>14. c.torn \/ Within(began[s][f], c.has)
  BY <1>1, <1>3 DEF IInv, Coverage, f, c
<1>15. ASSUME NEW g \in Files, Accounted(s, g) PROVE Accounted(s, g)'
  <2>1. CASE g = f
    BY <1>1, <1>7, <1>14, <2>1 DEF Accounted, Covered, Within
  <2>2. CASE g # f
    <3>1. remote'[g] = remote[g]
      BY <1>6, <2>2
    <3>. QED  BY <1>1, <1>8, <1>15, <2>2, <3>1 DEF Accounted, Covered, Within, f
  <2>. QED  BY <2>1, <2>2
<1>16. Coverage'
  BY <1>1, <1>4, <1>5, <1>15 DEF IInv, Coverage, Within, Files
<1>17. Stack'
  BY <1>1 DEF IInv, Stack
<1>. QED  BY <1>9, <1>11, <1>13, <1>16, <1>17 DEF IInv

\* Going on to the other files keeps the invariant: all databases are covered.
LEMMA ListDocumentsKeeps ==
  ASSUME IInv, TypeOK', NEW s \in Savers, ListDocuments(s)
  PROVE  IInv'
<1> USE DEF agentVars, procVars
<1>1. /\ pc[s] = "databases" /\ held[s] = Nothing /\ todo[s] = {}
      /\ pc' = [pc EXCEPT ![s] = "documents"]
      /\ todo' = [todo EXCEPT ![s] = {f \in Documents : Exists(f)}]
      /\ UNCHANGED <<local, draft, writes, dropped, mixed, remote, proc, boots, stopped, terms, lock,
                     held, began, failed, missed>>
  BY DEF ListDocuments, LoopDone
<1>2. \A u \in Savers : u # s =>
        pc[u] \notin {"databases", "documents"} /\ held[u] = Nothing /\ todo[u] = {}
  BY <1>1, OnlyHolder DEF IInv
<1>3. Exclusion'
  BY <1>1, <1>2 DEF IInv, TypeOK, Exclusion, AgentRuns
<1>4. Intact' /\ TornIsEmpty' /\ Ahead'
  BY <1>1 DEF IInv, Intact, TornIsEmpty, Ahead, AgentRuns, Within
<1>5. \A f \in Files : Within(began[s][f], local[f].has)
  BY <1>1 DEF IInv, Coverage
<1>6. ASSUME NEW f \in Databases PROVE Accounted(s, f)'
  <2>1. Covered(s, f)
    BY <1>1 DEF IInv, Coverage, Accounted
  <2>. QED  BY <1>1, <2>1 DEF Accounted, Covered, Within
<1>7. ASSUME NEW f \in Documents PROVE Accounted(s, f)'
  <2>1. CASE Exists(f)
    BY <1>1, <2>1 DEF IInv, TypeOK, Accounted
  <2>2. CASE ~Exists(f)
    <3>1. f \in Files
      BY DEF Files
    <3>2. local[f].has = {}
      BY <2>2, <3>1, ExistsFacts
    <3>3. Within(began[s][f], remote[f].has)
      BY <1>5, <3>1, <3>2 DEF Within
    <3>. QED  BY <1>1, <3>3 DEF Accounted, Covered, Within
  <2>. QED  BY <2>1, <2>2
<1>8. Coverage'
  BY <1>1, <1>2, <1>5, <1>6, <1>7 DEF IInv, TypeOK, Coverage, Within
<1>9. Stack'
  BY <1>1 DEF IInv, TypeOK, Stack
<1>. QED  BY <1>3, <1>4, <1>8, <1>9 DEF IInv

\* What the end of a save covers, of every file.
LEMMA ReleaseCovers ==
  ASSUME IInv, NEW s \in Savers, Release(s), NEW f \in Files
  PROVE  Covered(s, f)
<1>1. pc[s] = "documents" /\ held[s] = Nothing /\ todo[s] = {}
  BY DEF Release, LoopDone
<1>2. Accounted(s, f)
  BY <1>1 DEF IInv, Coverage, Files
<1>. QED  BY <1>1, <1>2 DEF Accounted

\* The end of a save keeps the invariant.
LEMMA ReleaseKeeps ==
  ASSUME IInv, TypeOK', NEW s \in Savers, Release(s)
  PROVE  IInv'
<1> USE DEF agentVars, procVars
<1>1. /\ pc[s] = "documents" /\ held[s] = Nothing /\ todo[s] = {}
      /\ pc' = [pc EXCEPT ![s] = "idle"] /\ todo' = [todo EXCEPT ![s] = {}]
      /\ proc' = IF s \in Handlers THEN "exiting" ELSE proc
      /\ UNCHANGED <<local, draft, writes, dropped, mixed, remote, boots, stopped, terms, held,
                     began, failed, missed>>
  BY DEF Release, LoopDone
<1>2. \A u \in Savers : u # s =>
        pc[u] \notin {"databases", "documents"} /\ held[u] = Nothing /\ todo[u] = {}
  BY <1>1, OnlyHolder DEF IInv
<1>3. \A u \in Savers : held'[u] = Nothing /\ todo'[u] = {} /\ pc'[u] \notin {"databases", "documents"}
  BY <1>1, <1>2 DEF IInv, TypeOK
<1>4. AgentRuns /\ AgentRuns'
  BY <1>1 DEF IInv, Exclusion, AgentRuns
<1>5. Exclusion'
  BY <1>1, <1>3, <1>4 DEF IInv, TypeOK, Exclusion
<1>6. Intact' /\ TornIsEmpty'
  BY <1>1 DEF IInv, Intact, TornIsEmpty
<1>7. Ahead'
  BY <1>1, <1>3, <1>4 DEF IInv, Ahead, Within
<1>8. Coverage'
  BY <1>3 DEF Coverage
<1>9. Stack'
  BY <1>1 DEF IInv, TypeOK, Stack
<1>. QED  BY <1>5, <1>6, <1>7, <1>8, <1>9 DEF IInv

-----------------------------------------------------------------------------
(* What starts a save.                                                      *)

\* A saver that begins to wait for the lock keeps the invariant.
LEMMA WaitingKeeps ==
  ASSUME IInv, NEW s \in Savers, pc[s] = "idle",
         pc' = [pc EXCEPT ![s] = "waiting"],
         AgentRuns', AgentRuns, s \in Handlers => stopped', stopped => stopped',
         UNCHANGED <<local, draft, writes, dropped, mixed, remote, lock, todo, held, began, failed,
                     missed>>,
         TypeOK', Stack'
  PROVE  IInv'
<1>1. \A u \in Savers : pc'[u] \in {"databases", "documents"} <=> pc[u] \in {"databases", "documents"}
  BY DEF IInv, TypeOK
<1>2. \A u \in Savers : pc'[u] = "documents" <=> pc[u] = "documents"
  BY DEF IInv, TypeOK
<1>3. \A u \in Savers : pc'[u] # "idle" => u = s \/ pc[u] # "idle"
  BY DEF IInv, TypeOK
<1>4. Exclusion'
  BY <1>1, <1>3 DEF IInv, Exclusion
<1>5. Intact' /\ TornIsEmpty' /\ Ahead'
  BY DEF IInv, Intact, TornIsEmpty, Ahead, Within
<1>6. Coverage'
  BY <1>1, <1>2 DEF IInv, Coverage, Accounted, Covered, Within
<1>. QED  BY <1>4, <1>5, <1>6 DEF IInv

\* The periodic thread waking up keeps the invariant.
LEMMA TickKeeps == IInv /\ TypeOK' /\ Tick => IInv'
<1> SUFFICES ASSUME IInv, TypeOK', Tick PROVE IInv'
  OBVIOUS
<1>1. Stack'
  BY SaverFacts DEF IInv, TypeOK, Stack, Tick, procVars
<1>. QED  BY <1>1, SaverFacts, WaitingKeeps DEF Tick, agentVars, procVars, AgentRuns

\* The end of a turn keeps the invariant.
LEMMA EndTurnKeeps ==
  ASSUME IInv, TypeOK', NEW s \in TurnSavers, EndTurn(s)
  PROVE  IInv'
<1>1. Stack'
  BY SaverFacts DEF IInv, TypeOK, Stack, EndTurn, procVars
<1>. QED  BY <1>1, SaverFacts, WaitingKeeps DEF EndTurn, agentVars, procVars, AgentRuns

\* Handlers of different depth are different.
LEMMA HandlersDiffer ==
  ASSUME NEW m, NEW n, Handler(m) = Handler(n)
  PROVE  m = n
BY DEF Handler

\* SIGTERM keeps the invariant, whether or not there is a workspace to save.
LEMMA SigtermKeeps == IInv /\ TypeOK' /\ Sigterm => IInv'
<1> SUFFICES ASSUME IInv, TypeOK', Sigterm PROVE IInv'
  OBVIOUS
<1> USE DEF agentVars
<1>1. CASE proc = "up"
  <2> DEFINE s == Handler(terms + 1)
  <2>1. terms + 1 \in 1..MaxTerms /\ terms \in Nat /\ terms' = terms + 1
    BY WorkspaceAssumption DEF Sigterm, IInv, TypeOK
  <2>2. s \in Handlers /\ s \in Savers
    BY <2>1, SaverFacts
  <2>3. /\ pc' = [pc EXCEPT ![s] = "waiting"] /\ proc' = "up" /\ stopped' = TRUE
        /\ UNCHANGED <<local, draft, writes, dropped, mixed, remote, lock, todo, held, began, failed,
                       missed>>
    BY <1>1 DEF Sigterm
  <2>4. pc[s] = "idle"
    BY <2>1 DEF IInv, Stack
  <2>5. ASSUME NEW n \in 1..MaxTerms, n > terms' PROVE pc'[Handler(n)] = "idle"
    <3>1. n > terms /\ n # terms + 1
      BY <2>1, <2>5
    <3>2. Handler(n) # s
      BY <3>1, HandlersDiffer
    <3>3. Handler(n) \in Savers
      BY SaverFacts
    <3> HIDE DEF s
    <3>. QED  BY <2>3, <3>1, <3>2, <3>3 DEF IInv, TypeOK, Stack
  <2>6. Stack'
    BY <2>3, <2>5 DEF Stack
  <2>7. AgentRuns /\ AgentRuns'
    BY <1>1, <2>3 DEF AgentRuns
  <2> HIDE DEF s
  <2>. QED  BY <2>2, <2>3, <2>4, <2>6, <2>7, WaitingKeeps
<1>2. CASE proc # "up"
  <2>1. ~AgentRuns /\ proc' = "exiting" /\ terms' = terms + 1
        /\ UNCHANGED <<local, draft, writes, dropped, mixed, remote, boots, stopped, pc, lock, todo,
                       held, began, failed, missed>>
    BY <1>2 DEF Sigterm, AgentRuns
  <2>2. \A u \in Savers : pc[u] = "idle"
    BY <2>1 DEF IInv, Exclusion
  <2>3. \A u \in Savers : todo[u] = {} /\ held[u] = Nothing
    BY <2>2 DEF IInv, Exclusion
  <2>4. Exclusion'
    BY <2>1, <2>2, <2>3 DEF IInv, Exclusion
  <2>5. Stack'
    BY <2>1, <2>2, SaverFacts DEF Stack
  <2>6. Intact' /\ TornIsEmpty' /\ Coverage'
    BY <2>1, <2>2 DEF IInv, Intact, TornIsEmpty, Coverage
  <2>7. ~AgentRuns'
    BY <1>2, <2>1 DEF Sigterm, IInv, Stack, AgentRuns
  <2>8. Ahead'
    BY <2>1, <2>3, <2>7 DEF Ahead
  <2>. QED  BY <2>4, <2>5, <2>6, <2>8 DEF IInv
<1>. QED  BY <1>1, <1>2

-----------------------------------------------------------------------------
(* The process.                                                             *)

\* Without a running agent no saver is at work.
LEMMA NoSaver ==
  ASSUME Exclusion, TypeOK, ~AgentRuns
  PROVE  /\ \A s \in Savers : pc[s] = "idle" /\ todo[s] = {} /\ held[s] = Nothing
         /\ \A f \in Files : draft[f] = {}
BY DEF Exclusion, TypeOK

\* What is left on the disk and in the bucket when the process is gone is in
\* order: databases are whole, what is torn counts for nothing.
LEMMA DownKeeps ==
  ASSUME IInv, TypeOK', Down, local' = [f \in Files |-> Snapshot(f)],
         remote' = remote \/ \E s \in Savers : remote' = Stored(s)
  PROVE  IInv'
<1>1. /\ proc' = "down" /\ stopped' = FALSE /\ draft' = [f \in Files |-> {}]
      /\ \A s \in Savers : pc'[s] = "idle" /\ todo'[s] = {} /\ held'[s] = Nothing
      /\ mixed' = mixed
  BY DEF Down, AllIdle, NoFiles, NothingHeld
<1>2. ~AgentRuns'
  BY <1>1 DEF AgentRuns
<1>3. Exclusion'
  BY <1>1 DEF Exclusion
<1>4. Stack'
  BY <1>1, SaverFacts DEF Stack
<1>5. ASSUME NEW f \in Files
      PROVE  /\ local'[f].torn => local'[f].has = {}
             /\ f \in Databases \ mixed => ~local'[f].torn
  BY SnapshotFacts, ContentFacts DEF IInv, Intact, TornIsEmpty
<1>6. ASSUME NEW f \in Files
      PROVE  /\ remote'[f].torn => remote'[f].has = {}
             /\ f \in Databases \ mixed => ~remote'[f].torn
  BY StoredFacts DEF IInv, Intact, TornIsEmpty
<1>7. Intact' /\ TornIsEmpty'
  BY <1>1, <1>5, <1>6 DEF Intact, TornIsEmpty, Files
<1>8. Ahead' /\ Coverage'
  BY <1>1, <1>2 DEF Ahead, Coverage
<1>. QED  BY <1>3, <1>4, <1>7, <1>8 DEF IInv

\* A restore keeps the invariant: what it got is on the disk.
LEMMA RestoreKeeps == IInv /\ TypeOK' /\ Restore => IInv'
<1> SUFFICES ASSUME IInv, TypeOK', Restore PROVE IInv'
  OBVIOUS
<1>1. PICK got \in SUBSET Files, listed \in BOOLEAN : Brought(got, listed)
  BY RestoreFacts DEF IInv
<1>2. /\ proc = "starting" /\ proc' = "up"
      /\ UNCHANGED <<draft, dropped, remote, stopped, terms, pc, lock, todo, held, began, failed>>
  BY DEF Restore, saveVars
<1>3. ~AgentRuns /\ AgentRuns'
  BY <1>2 DEF AgentRuns
<1>4. /\ \A s \in Savers : pc[s] = "idle" /\ todo[s] = {} /\ held[s] = Nothing
      /\ \A f \in Files : draft[f] = {}
  BY <1>3, NoSaver DEF IInv
<1>5. Exclusion' /\ Stack'
  BY <1>2, <1>3, <1>4, SaverFacts DEF Exclusion, Stack, IInv
<1>6. ASSUME NEW f \in Files
      PROVE  /\ local'[f] \in {remote[f], local[f], Absent} \/ f \in mixed'
             /\ local'[f].torn => local'[f].has = {}
             /\ f \notin missed' => remote[f].has \subseteq local'[f].has
  <2>1. local'[f] \in {remote[f], local[f], Absent} \/ f \in mixed'
    BY <1>1 DEF Brought
  <2>2. ASSUME f \notin missed' PROVE remote[f].has \subseteq local'[f].has
    BY <1>1, <2>2, ContentFacts DEF Brought
  <2>3. ASSUME local'[f].torn PROVE local'[f].has = {}
    <3>1. CASE f \in Clashing(got) /\ local'[f] \in Mixtures(f)
      BY <2>3, <3>1, MixtureFacts DEF IInv
    <3>2. CASE local'[f] \in {remote[f], local[f], Absent}
      BY <2>3, <3>2, ContentFacts DEF IInv, TornIsEmpty
    <3>. QED  BY <1>1, <3>1, <3>2 DEF Brought
  <2>. QED  BY <2>1, <2>2, <2>3
<1>7. Intact' /\ TornIsEmpty'
  <2>1. mixed \subseteq mixed'
    BY <1>1 DEF Brought
  <2>. QED  BY <1>2, <1>4, <1>6, <2>1, ContentFacts DEF IInv, Intact, TornIsEmpty, Files
<1>8. Ahead'
  BY <1>2, <1>4, <1>6 DEF Ahead, Within
<1>9. Coverage'
  BY <1>2, <1>4 DEF Coverage
<1>. QED  BY <1>5, <1>7, <1>8, <1>9 DEF IInv

\* Starting a process keeps the invariant, on the old disk or an empty one.
LEMMA BootKeeps == IInv /\ TypeOK' /\ Boot => IInv'
<1> SUFFICES ASSUME IInv, TypeOK', Boot PROVE IInv'
  OBVIOUS
<1>1. /\ proc = "down" /\ proc' = "starting"
      /\ local' = local \/ local' = [f \in Files |-> Absent]
      /\ UNCHANGED <<draft, dropped, mixed, remote, stopped, terms, pc, lock, todo, held, began, failed>>
  BY DEF Boot, saveVars
<1>2. ~AgentRuns /\ ~AgentRuns'
  BY <1>1 DEF AgentRuns
<1>3. /\ \A s \in Savers : pc[s] = "idle" /\ todo[s] = {} /\ held[s] = Nothing
      /\ \A f \in Files : draft[f] = {}
  BY <1>2, NoSaver DEF IInv
<1>4. Exclusion' /\ Stack'
  BY <1>1, <1>2, <1>3, SaverFacts DEF IInv, Exclusion, Stack
<1>5. Intact' /\ TornIsEmpty'
  BY <1>1, <1>3, ContentFacts DEF IInv, Intact, TornIsEmpty, Files
<1>6. Ahead' /\ Coverage'
  BY <1>1, <1>2, <1>3 DEF Ahead, Coverage
<1>. QED  BY <1>4, <1>5, <1>6 DEF IInv

-----------------------------------------------------------------------------
(* The agent.                                                               *)

\* Starting to rewrite a file keeps the invariant: the new content has the old.
LEMMA BeginWriteKeeps ==
  ASSUME IInv, TypeOK', NEW f \in Files, BeginWrite(f)
  PROVE  IInv'
<1>1. /\ AgentRuns /\ draft' = [draft EXCEPT ![f] = local[f].has \union {writes + 1}]
      /\ UNCHANGED <<local, dropped, mixed, remote, proc, stopped, terms, pc, lock, todo, held,
                     began, failed, missed>>
  BY DEF BeginWrite, procVars, saveVars
<1>2. \A g \in Files : draft'[g] = draft[g] \/ local[g].has \subseteq draft'[g]
  BY <1>1 DEF IInv, TypeOK
<1>3. Exclusion' /\ Stack'
  BY <1>1 DEF IInv, Exclusion, Stack, AgentRuns
<1>4. Intact' /\ TornIsEmpty'
  BY <1>1 DEF IInv, Intact, TornIsEmpty
<1>5. Ahead'
  BY <1>1, <1>2 DEF IInv, Ahead, AgentRuns, Within
<1>6. Coverage'
  BY <1>1 DEF IInv, Coverage, Accounted, Covered, Within
<1>. QED  BY <1>3, <1>4, <1>5, <1>6 DEF IInv

\* Completing a file keeps the invariant: the disk only gains.
LEMMA EndWriteKeeps ==
  ASSUME IInv, TypeOK', NEW f \in Files, EndWrite(f)
  PROVE  IInv'
<1>1. /\ AgentRuns /\ draft[f] # {}
      /\ local' = [local EXCEPT ![f] = IF f \in Databases /\ @.torn THEN @
                                       ELSE [has |-> draft[f], torn |-> FALSE]]
      /\ draft' = [draft EXCEPT ![f] = {}]
      /\ UNCHANGED <<dropped, mixed, remote, proc, stopped, terms, pc, lock, todo, held, began,
                     failed, missed>>
  BY DEF EndWrite, procVars, saveVars
<1>2. \A g \in Files : local[g].has \subseteq local'[g].has
  BY <1>1 DEF IInv, TypeOK, Ahead
<1>3. \A g \in Files : local'[g] = local[g] \/ ~local'[g].torn
  BY <1>1 DEF IInv, TypeOK
<1>4. \A g \in Files : draft'[g] # {} => draft'[g] = draft[g] /\ local'[g] = local[g]
  BY <1>1 DEF IInv, TypeOK
<1>5. Exclusion' /\ Stack'
  BY <1>1 DEF IInv, Exclusion, Stack, AgentRuns
<1>6. Intact' /\ TornIsEmpty'
  BY <1>1, <1>3 DEF IInv, Intact, TornIsEmpty, Files
<1>7. \A s \in Savers : held[s] # Nothing => held[s][1] \in Files
  BY HeldFacts DEF IInv
<1>8. Ahead'
  BY <1>1, <1>2, <1>4, <1>7 DEF IInv, Ahead, AgentRuns, Within
<1>9. Coverage'
  BY <1>1, <1>2 DEF IInv, Coverage, Accounted, Covered, Within
<1>. QED  BY <1>5, <1>6, <1>8, <1>9 DEF IInv

\* Deleting a file keeps the invariant: what is gone is counted as removed.
LEMMA RemoveKeeps ==
  ASSUME IInv, TypeOK', NEW f \in Files, Remove(f)
  PROVE  IInv'
<1>1. /\ AgentRuns /\ draft[f] = {}
      /\ local' = [local EXCEPT ![f] = Absent]
      /\ dropped' = dropped \union local[f].has
      /\ UNCHANGED <<draft, mixed, remote, proc, stopped, terms, pc, lock, todo, held, began,
                     failed, missed>>
  BY DEF Remove, procVars, saveVars
<1>3. ASSUME NEW old, NEW new, old \ dropped \subseteq new
      PROVE  old \ dropped' \subseteq new
  BY <1>1, <1>3
<1>4. ASSUME NEW g \in Files, NEW old, old \ dropped \subseteq local[g].has
      PROVE  old \ dropped' \subseteq local'[g].has
  BY <1>1, <1>4, ContentFacts DEF IInv, TypeOK
<1>5. \A g \in Files : local'[g] = local[g] \/ (local'[g] = Absent /\ draft[g] = {})
  BY <1>1 DEF IInv, TypeOK
<1>6. Exclusion' /\ Stack'
  BY <1>1 DEF IInv, Exclusion, Stack, AgentRuns
<1>7. Intact' /\ TornIsEmpty'
  BY <1>1, <1>5, ContentFacts DEF IInv, Intact, TornIsEmpty, Files
<1>8. \A s \in Savers : held[s] # Nothing => held[s][1] \in Files
  BY HeldFacts DEF IInv
<1>9. Ahead'
  BY <1>1, <1>3, <1>4, <1>5, <1>8 DEF IInv, Ahead, AgentRuns, Within
<1>10. Coverage'
  BY <1>1, <1>3, <1>4 DEF IInv, Coverage, Accounted, Covered, Within
<1>. QED  BY <1>6, <1>7, <1>9, <1>10 DEF IInv
-----------------------------------------------------------------------------
(* The theorems.                                                            *)

\* The invariant holds initially.
LEMMA InvInit == Init => IInv
<1> SUFFICES ASSUME Init PROVE IInv
  OBVIOUS
<1>1. TypeOK
  BY TypeInit
<1>2. ~AgentRuns /\ stopped = FALSE /\ \A f \in Files : local[f] = Absent /\ remote[f] = Absent
  BY DEF Init, AgentRuns
<1>3. \A s \in Savers : pc[s] = "idle" /\ todo[s] = {} /\ held[s] = Nothing
  BY DEF Init, AllIdle, NoFiles, NothingHeld
<1>4. Exclusion
  BY <1>3 DEF Exclusion, Init
<1>5. Stack
  BY <1>2, <1>3, SaverFacts DEF Stack
<1>6. Intact /\ TornIsEmpty
  BY <1>2, <1>3, ContentFacts DEF Intact, TornIsEmpty, Files
<1>7. Ahead /\ Coverage
  BY <1>2, <1>3 DEF Ahead, Coverage
<1>. QED  BY <1>1, <1>4, <1>5, <1>6, <1>7 DEF IInv

\* Every step keeps the invariant.
LEMMA InvNext == IInv /\ [Next]_vars => IInv'
<1> SUFFICES ASSUME IInv, [Next]_vars PROVE IInv'
  OBVIOUS
<1>0. TypeOK'
  BY TypeNext DEF IInv
<1>1. ASSUME NEW s \in Savers, SaveStep(s) PROVE IInv'
  BY <1>0, <1>1, AcquireKeeps, ReadFileKeeps, UploadKeeps, ListDocumentsKeeps, ReleaseKeeps DEF SaveStep
<1>2. CASE Tick \/ Sigterm \/ Restore \/ Boot
  BY <1>0, <1>2, TickKeeps, SigtermKeeps, RestoreKeeps, BootKeeps
<1>3. ASSUME NEW s \in TurnSavers, EndTurn(s) PROVE IInv'
  BY <1>0, <1>3, EndTurnKeeps
<1>4. CASE Exit \/ Kill
  BY <1>0, <1>4, SaverFacts, DownKeeps DEF Exit, Kill
<1>5. ASSUME NEW f \in Files, BeginWrite(f) \/ EndWrite(f) \/ Remove(f) PROVE IInv'
  BY <1>0, <1>5, BeginWriteKeeps, EndWriteKeeps, RemoveKeeps
<1>6. CASE UNCHANGED vars
  BY <1>6 DEF IInv, TypeOK, Exclusion, Stack, Intact, TornIsEmpty, Ahead, Coverage, Accounted, Covered,
              Within, AgentRuns, vars, agentVars, procVars, saveVars
<1>. QED  BY <1>1, <1>2, <1>3, <1>4, <1>5, <1>6 DEF Next

\* Every reachable state is of the declared types.
THEOREM TypeCorrect == Spec => []TypeOK
BY TypeInit, TypeNext, PTL DEF Spec

\* The inductive invariant holds of every behaviour.
THEOREM Invariant == Spec => []IInv
BY InvInit, InvNext, PTL DEF Spec

\* While a database is written SQLite's journal lies beside it: only a restore and
\* a start on another machine take one away, and then nothing is being written.
LEMMA AlwaysJournaled == Spec => []Journaled
<1>1. Init => Journaled
  BY DEF Init, Journaled, Files
<1>2. ASSUME IInv, Journaled, [Next]_vars
      PROVE  Journaled'
  <2>1. CASE (\E s \in Savers : SaveStep(s)) \/ Tick \/ Sigterm \/ (\E s \in TurnSavers : EndTurn(s))
    <3>1. UNCHANGED <<draft, journal>>
      BY <2>1 DEF SaveStep, Acquire, ReadFile, Upload, ListDocuments, Release, Tick, Sigterm, EndTurn,
                  agentVars
    <3>. QED  BY <1>2, <3>1 DEF Journaled
  <2>2. CASE Exit \/ Kill
    BY <2>2 DEF Exit, Kill, Down, Journaled, Files
  <2>3. CASE Restore \/ Boot
    <3>1. ~AgentRuns /\ draft' = draft
      BY <2>3 DEF Restore, Boot, AgentRuns
    <3>2. \A f \in Files : draft'[f] = {}
      BY <1>2, <3>1, NoSaver DEF IInv
    <3>. QED  BY <3>2 DEF Journaled, Files
  <2>4. ASSUME NEW f \in Files, BeginWrite(f) PROVE Journaled'
    BY <1>2, <2>4 DEF BeginWrite, Journaled, IInv, TypeOK, Files
  <2>5. ASSUME NEW f \in Files, EndWrite(f) \/ Remove(f) PROVE Journaled'
    BY <1>2, <2>5 DEF EndWrite, Remove, Journaled, IInv, TypeOK, Files
  <2>6. CASE UNCHANGED vars
    BY <1>2, <2>6 DEF vars, agentVars, Journaled
  <2>. QED  BY <1>2, <2>1, <2>2, <2>3, <2>4, <2>5, <2>6 DEF Next
<1>. QED  BY <1>1, <1>2, Invariant, PTL DEF Spec

\* No database is torn in the bucket or on the disk, whenever it was saved or
\* the process killed, but one that a restore put beside the journal of a newer
\* file (workspace_sync.py: _sqlite_backup, _download_atomically).
THEOREM Integrity == Spec => []DatabasesIntact
<1>1. IInv => DatabasesIntact
  BY DEF IInv, Intact, DatabasesIntact
<1>. QED  BY <1>1, Invariant, PTL

\* Only a save, or the end of a process with an upload under way, changes the bucket.
LEMMA RemoteStep ==
  ASSUME [Next]_vars
  PROVE  remote' = remote \/ \E s \in Savers : remote' = Stored(s)
<1> USE DEF procVars, agentVars
<1>1. ASSUME NEW s \in Savers, SaveStep(s)
      PROVE  remote' = remote \/ remote' = Stored(s)
  BY <1>1 DEF SaveStep, Acquire, ReadFile, Upload, ListDocuments, Release
<1>2. CASE Exit \/ Kill
  BY <1>2, SaverFacts DEF Exit, Kill
<1>3. CASE Tick \/ Sigterm \/ Restore \/ Boot \/ UNCHANGED vars \/ \E s \in TurnSavers : EndTurn(s)
  BY <1>3 DEF Tick, Sigterm, Restore, Boot, EndTurn, vars
<1>4. ASSUME NEW f \in Files, BeginWrite(f) \/ EndWrite(f) \/ Remove(f)
      PROVE  remote' = remote
  BY <1>4 DEF BeginWrite, EndWrite, Remove
<1>. QED  BY <1>1, <1>2, <1>3, <1>4 DEF Next

\* No upload takes back what was saved before, however the saves of threads,
\* handlers and processes interleave, but of a file this process did not bring back
\* as it was saved (workspace_sync.py: save under _save_lock, restore).
THEOREM NoRegression == Spec => HistoryPreserved
<1>1. ASSUME IInv, [Next]_vars, NEW f \in Files \ missed, ~remote'[f].torn
      PROVE  remote[f].has \ dropped \subseteq remote'[f].has
  <2>1. CASE remote' = remote
    BY <2>1
  <2>2. ASSUME NEW s \in Savers, remote' = Stored(s)
        PROVE  remote[f].has \ dropped \subseteq remote'[f].has
    <3>1. \/ remote'[f] = remote[f]
          \/ held[s] # Nothing /\ held[s][1] = f /\ remote'[f] = held[s][2]
      BY <1>1, <2>2, StoredFacts DEF IInv
    <3>. QED  BY <1>1, <3>1 DEF IInv, Ahead, Within
  <2>. QED  BY <1>1, <2>1, <2>2, RemoteStep
<1>2. IInv /\ [Next]_vars =>
        [\A f \in Files \ missed : ~remote'[f].torn =>
           remote[f].has \ dropped \subseteq remote'[f].has]_vars
  BY <1>1
<1>. QED  BY <1>2, Invariant, PTL DEF Spec, HistoryPreserved

\* Only Release ends a save, unless the process ends.
LEMMA SaveEnds ==
  ASSUME TypeOK, [Next]_vars, NEW s \in Savers,
         pc[s] = "documents", pc'[s] = "idle", proc' # "down"
  PROVE  Release(s)
<1> USE DEF TypeOK
<1>1. ASSUME NEW u \in Savers, SaveStep(u) PROVE Release(s)
  <2>1. CASE Acquire(u) \/ ListDocuments(u)
    BY <2>1 DEF Acquire, ListDocuments
  <2>2. CASE ReadFile(u) \/ Upload(u)
    BY <2>2 DEF ReadFile, Upload, procVars
  <2>3. CASE Release(u)
    BY <2>3 DEF Release
  <2>. QED  BY <1>1, <2>1, <2>2, <2>3 DEF SaveStep
<1>2. CASE Exit \/ Kill
  BY <1>2 DEF Exit, Kill, Down
<1>3. CASE Tick \/ Restore \/ Boot \/ UNCHANGED vars
  BY <1>3, SaverFacts DEF Tick, Restore, Boot, vars, saveVars
<1>4. CASE Sigterm
  BY <1>4 DEF Sigterm
<1>5. ASSUME NEW u \in TurnSavers, EndTurn(u) PROVE Release(s)
  BY <1>5, SaverFacts DEF EndTurn
<1>6. ASSUME NEW f \in Files, BeginWrite(f) \/ EndWrite(f) \/ Remove(f) PROVE Release(s)
  BY <1>6 DEF BeginWrite, EndWrite, Remove, saveVars
<1>. QED  BY <1>1, <1>2, <1>3, <1>4, <1>5, <1>6 DEF Next

\* A save that ends has covered all it found, but for what it reported as failed
\* (workspace_sync.py: save; main.py: _sigterm_handler).
THEOREM Completeness == Spec => SaveIsComplete
<1>1. ASSUME IInv, [Next]_vars, NEW s \in Savers,
             pc[s] = "documents", pc'[s] = "idle", proc' # "down", NEW f \in Files \ failed[s]
      PROVE  remote'[f].torn \/ began[s][f] \ dropped \subseteq remote'[f].has
  <2>1. Release(s)
    BY <1>1, SaveEnds DEF IInv
  <2>2. Covered(s, f)
    BY <1>1, <2>1, ReleaseCovers
  <2>3. remote' = remote
    BY <2>1 DEF Release
  <2>. QED  BY <1>1, <2>2, <2>3 DEF Covered, Within
<1>2. IInv /\ [Next]_vars =>
        [\A s \in Savers : pc[s] = "documents" /\ pc'[s] = "idle" /\ proc' # "down" =>
           \A f \in Files \ failed[s] :
             remote'[f].torn \/ began[s][f] \ dropped \subseteq remote'[f].has]_vars
  BY <1>1
<1>. QED  BY <1>2, Invariant, PTL DEF Spec, SaveIsComplete

-----------------------------------------------------------------------------
(* Workspace implements DurableStore.                                       *)

DiskBar == [f \in Files |-> local[f].has]
BucketBar == [f \in Files |-> remote[f].has]
CutBar == {f \in Files : remote[f].torn}

LEMMA AbsentIsEmpty ==
  ASSUME NEW c \in Content
  PROVE  c = Absent <=> c.has = {} /\ ~c.torn
<1>1. c = [has |-> c.has, torn |-> c.torn] /\ c.torn \in BOOLEAN
  BY DEF Content
<1>2. CASE c.has = {} /\ ~c.torn
  <2>1. c.torn = FALSE
    BY <1>1, <1>2
  <2> QED
    BY <1>1, <1>2, <2>1 DEF Absent
<1>3. CASE c = Absent
  BY <1>3 DEF Absent
<1> QED
  BY <1>2, <1>3

\* What the mapping is made of stays.
Silent ==
  UNCHANGED <<local, remote, journal, missed, mixed, dropped>> /\ (AgentRuns' <=> AgentRuns)

LEMMA SilentStutters ==
  ASSUME Silent
  PROVE  UNCHANGED Store!storeVars
BY DEF Silent, Store!storeVars

\* An upload that S3 takes over replaces the object as the store allows.
LEMMA StoredReplaces ==
  ASSUME IInv, NEW s \in Savers, held[s] # Nothing, remote' = Stored(s),
         NEW f \in Files, f = held[s][1]
  PROVE  Store!Replace(f)
<1> DEFINE c == held[s][2]
<1>1. f \in Files /\ c \in Content /\ remote \in [Files -> Content]
  BY HeldFacts DEF IInv, TypeOK
<1>2. remote' = [remote EXCEPT ![f] = c]
  BY DEF Stored
<1>3. AgentRuns
  BY DEF IInv, Exclusion
<1>4. /\ Within(c.has, local[f].has)
      /\ (f \notin missed /\ ~c.torn) => Within(remote[f].has, c.has)
      /\ c.torn => c.has = {} /\ f \notin Databases \ mixed
  BY DEF IInv, Ahead, TornIsEmpty, Intact
<1> HIDE DEF c
<1>5. BucketBar' = [BucketBar EXCEPT ![f] = c.has]
  BY <1>1, <1>2 DEF BucketBar
<1>6. CutBar' = IF c.torn THEN CutBar \union {f} ELSE CutBar \ {f}
  BY <1>1, <1>2 DEF CutBar
<1>7. CASE c.torn
  <2>1. f \in Documents \union mixed
    BY <1>1, <1>4, <1>7 DEF Files
  <2> QED
    BY <1>3, <1>4, <1>5, <1>6, <1>7, <2>1 DEF Store!Replace, BucketBar, CutBar
<1>8. CASE ~c.torn
  <2>1. c.has \in SUBSET Writes
    BY <1>1, ContentFacts
  <2>2. c.has \ dropped \subseteq DiskBar[f]
    BY <1>1, <1>4 DEF Within, DiskBar
  <2>3. f \in missed \/ BucketBar[f] \ dropped \subseteq c.has
    BY <1>1, <1>4, <1>8 DEF Within, BucketBar
  <2>4. CutBar' = CutBar \ {f}
    BY <1>6, <1>8
  <2> QED
    BY <1>3, <1>5, <2>1, <2>2, <2>3, <2>4 DEF Store!Replace, DiskBar, BucketBar, CutBar
<1> QED
  BY <1>7, <1>8

\* One upload that is taken over, or none.
LEMMA StoredIsOne ==
  ASSUME IInv, NEW s \in Savers, remote' = Stored(s)
  PROVE  remote' = remote \/ \E f \in Files : Store!Replace(f)
<1>1. CASE held[s] = Nothing
  BY <1>1 DEF Stored
<1>2. CASE held[s] # Nothing
  <2>1. PICK f \in Files : f = held[s][1]
    BY <1>2, HeldFacts DEF IInv
  <2>2. Store!Replace(f)
    BY <1>2, <2>1, StoredReplaces
  <2> QED
    BY <2>2
<1> QED
  BY <1>1, <1>2

\* A step of a save is one of the store or is not seen.
LEMMA SaveMaps ==
  ASSUME IInv, NEW s \in Savers, SaveStep(s)
  PROVE  Silent \/ \E f \in Files : Store!Save(f)
<1> USE DEF agentVars, procVars
<1>1. CASE Acquire(s) \/ ReadFile(s) \/ ListDocuments(s)
  BY <1>1 DEF Acquire, ReadFile, ListDocuments, Silent, AgentRuns
<1>2. CASE Release(s)
  <2>1. /\ UNCHANGED <<local, remote, journal, missed, mixed, dropped, stopped>>
        /\ proc' = IF s \in Handlers THEN "exiting" ELSE proc
        /\ pc[s] = "documents"
    BY <1>2 DEF Release
  <2>2. AgentRuns /\ (s \in Handlers => stopped)
    BY <2>1 DEF IInv, Exclusion
  <2> QED
    BY <2>1, <2>2 DEF Silent, AgentRuns
<1>3. CASE Upload(s)
  <2>1. /\ UNCHANGED <<local, journal, dropped, missed, mixed, proc, stopped>>
        /\ remote' = remote \/ remote' = Stored(s)
    BY <1>3 DEF Upload
  <2>2. CASE remote' = remote
    BY <2>1, <2>2 DEF Silent, AgentRuns
  <2>3. ASSUME NEW f \in Files, Store!Replace(f)
        PROVE  Store!Save(f)
    BY <2>1, <2>3 DEF Store!Save, AgentRuns
  <2> QED
    BY <2>1, <2>2, <2>3, StoredIsOne
<1> QED
  BY <1>1, <1>2, <1>3 DEF SaveStep

\* What the end of a process leaves of the files: all of the databases.
LEMMA DiskAfterDown ==
  ASSUME TypeOK, local' = [f \in Files |-> Snapshot(f)]
  PROVE  DiskBar' = [f \in Files |-> IF f \in {g \in Documents \ Databases : draft[g] # {}}
                                    THEN {} ELSE DiskBar[f]]
<1>1. ASSUME NEW f \in Files
      PROVE  Snapshot(f).has = IF f \in {g \in Documents \ Databases : draft[g] # {}}
                               THEN {} ELSE local[f].has
  BY <1>1, ContentFacts DEF Snapshot, Raw, Files
<1> QED
  BY <1>1 DEF DiskBar

\* The end of a process is that of the store, if the agent had it.
LEMMA DownMaps ==
  ASSUME IInv, Down, local' = [f \in Files |-> Snapshot(f)],
         remote' = remote \/ \E s \in Savers : remote' = Stored(s)
  PROVE  Silent \/ Store!Stop
<1>1. ~AgentRuns' /\ UNCHANGED <<journal, missed, mixed, dropped>>
  BY DEF Down, AgentRuns
<1>2. CASE AgentRuns
  <2>1. \E torn \in SUBSET Documents :
          DiskBar' = [f \in Files |-> IF f \in torn THEN {} ELSE DiskBar[f]]
    BY DiskAfterDown DEF IInv
  <2>2. UNCHANGED <<BucketBar, CutBar>> \/ \E f \in Files : Store!Replace(f)
    BY StoredIsOne DEF BucketBar, CutBar
  <2>3. AgentRuns' = FALSE
    BY <1>1 DEF AgentRuns
  <2>4. Store!Files = Files
    BY DEF Store!Files, Files
  <2> QED
    BY <1>1, <1>2, <2>1, <2>2, <2>3, <2>4 DEF Store!Stop, DiskBar, BucketBar, CutBar
<1>3. CASE ~AgentRuns
  <2>1. draft = [f \in Files |-> {}] /\ \A s \in Savers : held[s] = Nothing
    BY <1>3 DEF IInv, Exclusion
  <2>2. \A f \in Files : Snapshot(f) = local[f]
    BY <2>1 DEF Snapshot, Raw
  <2>3. local' = local
    BY <2>2 DEF IInv, TypeOK
  <2>4. remote' = remote
    BY <2>1 DEF Stored
  <2> QED
    BY <1>1, <1>3, <2>3, <2>4 DEF Silent
<1> QED
  BY <1>2, <1>3

\* The first invocation is a start of the store: the databases it spoils are those
\* that clashed with a journal and are not as their object.
LEMMA RestoreMaps ==
  ASSUME IInv, Restore
  PROVE  Store!Start
<1>1. PICK got \in SUBSET Files, listed \in BOOLEAN : Brought(got, listed)
  BY RestoreFacts DEF IInv
<1>0. PICK spoilt : spoilt = {f \in Clashing(got) : local'[f] # remote[f]}
  OBVIOUS
<1> DEFINE damaged == {f \in got \ spoilt : remote[f] # Absent /\ local'[f] # remote[f]}
           found == [f \in spoilt |-> local'[f].has]
<1>2. /\ spoilt \in SUBSET (got \intersect journal) /\ spoilt \subseteq Files
      /\ mixed' = mixed \union spoilt
  BY <1>0, <1>1 DEF Brought, Clashing
<1>3. ASSUME NEW f \in spoilt
      PROVE  local'[f].has \in SUBSET Writes /\ local'[f].has \subseteq BucketBar[f] \union DiskBar[f]
  <2>1. f \in Files /\ f \in got /\ f \in Clashing(got)
    BY <1>0, <1>2
  <2>2. local'[f] = Absent \/ local'[f] \in Mixtures(f)
    BY <1>0, <1>1, <2>1 DEF Brought
  <2>3. local'[f].has \subseteq local[f].has \union remote[f].has
    BY <2>1, <2>2, MixtureFacts, ContentFacts DEF IInv
  <2>4. local'[f].has \in SUBSET Writes
    BY <1>1, <2>1, ContentFacts DEF Brought
  <2> QED
    BY <2>1, <2>3, <2>4 DEF BucketBar, DiskBar
<1>4. ASSUME NEW f \in Files, f \notin spoilt
      PROVE  local'[f].has = IF f \in got THEN remote[f].has ELSE local[f].has
  <2>1. CASE local'[f] = Absent
    <3>1. CASE f \in Clashing(got)
      BY <1>0, <1>4, <2>1, <3>1 DEF Clashing
    <3>2. CASE f \notin Clashing(got)
      BY <1>1, <2>1, <3>2, ContentFacts DEF Brought, IInv, TornIsEmpty
    <3> QED
      BY <3>1, <3>2
  <2>2. CASE local'[f] # Absent
    BY <1>0, <1>1, <1>4, <2>2 DEF Brought, Clashing
  <2> QED
    BY <2>1, <2>2
<1>5. damaged \subseteq mixed
  <2> SUFFICES ASSUME NEW f \in damaged PROVE f \in mixed
    OBVIOUS
  <2>1. f \in got /\ f \in Files /\ f \notin Clashing(got) /\ local'[f] # remote[f] /\ remote[f] # Absent
    BY <1>0
  <2>2. local'[f] = Absent
    BY <1>1, <2>1 DEF Brought
  <2>3. f \in Databases /\ remote[f].torn
    BY <1>1, <2>1, <2>2 DEF Brought
  <2> QED
    BY <2>3 DEF IInv, Intact
<1>6. ASSUME NEW f \in Files
      PROVE  remote[f] # Absent <=> BucketBar[f] # {} \/ f \in CutBar
  <2>1. remote[f] \in Content
    BY DEF IInv, TypeOK
  <2>2. remote[f] = Absent <=> remote[f].has = {} /\ ~remote[f].torn
    BY <2>1, AbsentIsEmpty
  <2> QED
    BY <2>2 DEF BucketBar, CutBar
<1>7. missed' = {f \in Files \ got : BucketBar[f] # {} \/ f \in CutBar} \union spoilt \union damaged
  <2>1. missed' = {f \in Files : remote[f] # Absent /\ (f \notin got \/ local'[f] # remote[f])}
    BY <1>1 DEF Brought
  <2>2. \A f \in got : remote[f] # Absent
    BY <1>1 DEF Brought
  <2> QED
    BY <1>0, <1>2, <1>6, <2>1, <2>2
<1> HIDE DEF damaged
<1>8. found \in [spoilt -> SUBSET Writes] /\ \A f \in spoilt : found[f] \subseteq BucketBar[f] \union DiskBar[f]
  BY <1>3
<1>9. DiskBar' = [f \in Files |-> IF f \in spoilt THEN found[f]
                                ELSE IF f \in got THEN BucketBar[f] ELSE DiskBar[f]]
  BY <1>4 DEF DiskBar, BucketBar
<1>10. Store!Bring(got, spoilt)
  BY <1>2, <1>5, <1>7, <1>8, <1>9 DEF Store!Bring, Store!Files, Files, DiskBar, BucketBar, CutBar
<1>11. ~AgentRuns /\ AgentRuns' /\ UNCHANGED <<remote, dropped>>
  BY DEF Restore, AgentRuns
<1>12. journal' \in SUBSET journal
  BY <1>1 DEF Brought, JournalsAfter
<1>13. \E g \in SUBSET Store!Files : \E h \in SUBSET (g \intersect journal) : Store!Bring(g, h)
  <2>1. got \in SUBSET Store!Files
    BY DEF Store!Files, Files
  <2>2. \E h \in SUBSET (got \intersect journal) : Store!Bring(got, h)
    BY <1>2, <1>10
  <2> QED
    BY <2>1, <2>2
<1>14. AgentRuns' = TRUE
  BY <1>11 DEF AgentRuns
<1>15. UNCHANGED <<BucketBar, CutBar, dropped>>
  BY <1>11 DEF BucketBar, CutBar
<1> QED
  BY <1>11, <1>12, <1>13, <1>14, <1>15 DEF Store!Start, BucketBar, CutBar

\* A process is started where the disk is or where there is none.
LEMMA BootMaps ==
  ASSUME IInv, Boot
  PROVE  Store!Move
<1>1. ~AgentRuns /\ ~AgentRuns' /\ missed' = {} /\ UNCHANGED <<remote, mixed, dropped>>
  BY DEF Boot, AgentRuns
<1>2. UNCHANGED <<local, journal>> \/ (local' = [f \in Files |-> Absent] /\ journal' = {})
  BY DEF Boot
<1>3. UNCHANGED <<DiskBar, journal>> \/ (DiskBar' = [f \in Files |-> {}] /\ journal' = {})
  BY <1>2 DEF DiskBar, Absent
<1> QED
  BY <1>1, <1>3 DEF Store!Move, Store!Nothing, Store!Files, Files, DiskBar, AgentRuns

\* What the agent does to a file the store allows.
LEMMA AgentMaps ==
  ASSUME IInv, Journaled, NEW f \in Files, BeginWrite(f) \/ EndWrite(f) \/ Remove(f)
  PROVE  Silent \/ Store!Write(f) \/ Store!Remove(f)
<1> USE DEF procVars
<1>1. CASE BeginWrite(f)
  <2>1. /\ AgentRuns /\ AgentRuns' /\ UNCHANGED <<local, remote, missed, mixed, dropped>>
        /\ journal' = journal \union ({f} \intersect Databases)
    BY <1>1 DEF BeginWrite, AgentRuns
  <2>2. DiskBar' = [DiskBar EXCEPT ![f] = @ \union {}]
    BY <2>1 DEF DiskBar
  <2>3. {} \in SUBSET Writes
    OBVIOUS
  <2> QED
    BY <2>1, <2>2, <2>3 DEF Store!Write, DiskBar
<1>2. CASE EndWrite(f)
  <2>1. /\ AgentRuns /\ AgentRuns' /\ UNCHANGED <<remote, missed, mixed, dropped>>
        /\ journal' = journal /\ (f \in Databases => f \in journal)
    BY <1>2 DEF EndWrite, AgentRuns, Journaled
  <2>2. draft[f] = local[f].has \union draft[f] /\ draft[f] \in SUBSET Writes
    BY <1>2 DEF EndWrite, IInv, TypeOK, Ahead
  <2>3. CASE f \in Databases /\ local[f].torn
    BY <1>2, <2>1, <2>3 DEF EndWrite, Silent, IInv, TypeOK
  <2>4. CASE ~(f \in Databases /\ local[f].torn)
    <3>1. local' = [local EXCEPT ![f] = [has |-> draft[f], torn |-> FALSE]]
      BY <1>2, <2>4 DEF EndWrite, IInv, TypeOK
    <3>2. DiskBar' = [DiskBar EXCEPT ![f] = @ \union draft[f]]
      BY <2>2, <3>1 DEF IInv, TypeOK, DiskBar
    <3>3. journal' = journal \union ({f} \intersect Databases)
      BY <2>1
    <3> QED
      BY <2>1, <2>2, <3>2, <3>3 DEF Store!Write, DiskBar
  <2> QED
    BY <2>3, <2>4
<1>3. CASE Remove(f)
  <2>1. /\ AgentRuns /\ AgentRuns' /\ UNCHANGED <<remote, journal, missed, mixed>>
        /\ f \in Documents
        /\ local' = [local EXCEPT ![f] = Absent] /\ dropped' = dropped \union local[f].has
    BY <1>3 DEF Remove, AgentRuns
  <2>2. DiskBar' = [DiskBar EXCEPT ![f] = {}] /\ dropped' = dropped \union DiskBar[f]
    BY <2>1, ContentFacts DEF IInv, TypeOK, DiskBar
  <2> QED
    BY <2>1, <2>2 DEF Store!Remove, DiskBar
<1> QED
  BY <1>1, <1>2, <1>3

\* Whatever threads, handlers, failures and kills there are, workspace and bucket
\* do what a store without any of them may do: an object only moves on to a state
\* its file was in, databases are never half a file unless a start put their object
\* beside the journal of another state, and what a start could not bring back as it
\* was saved is known (workspace_sync.py; main.py: _sigterm_handler).
THEOREM StoreRefinement == Spec => ImplementsStore
<1>1. Init => Store!Init
  <2> SUFFICES ASSUME Init PROVE Store!Init
    OBVIOUS
  <2>1. ~AgentRuns
    BY DEF Init, AgentRuns
  <2>2. \A f \in Files : local[f] = Absent /\ remote[f] = Absent
    BY DEF Init
  <2> QED
    BY <2>1, <2>2 DEF Init, Store!Init, Store!Nothing, Store!Files, Files, Absent
<1>2. IInv /\ Journaled /\ [Next]_vars => [Store!Next]_(Store!storeVars)
  <2> SUFFICES ASSUME IInv, Journaled, [Next]_vars, ~Silent PROVE Store!Next
    BY SilentStutters
  <2> USE DEF Store!Next, Store!Files, Files
  <2>1. ASSUME NEW s \in Savers, SaveStep(s) PROVE Store!Next
    BY <2>1, SaveMaps
  <2>2. CASE Tick \/ Sigterm \/ UNCHANGED vars \/ \E s \in TurnSavers : EndTurn(s)
    <3>1. Silent
      BY <2>2 DEF Tick, Sigterm, EndTurn, vars, agentVars, procVars, Silent, AgentRuns, IInv, Stack
    <3> QED
      BY <3>1
  <2>3. CASE Exit \/ Kill
    <3>1. /\ Down /\ local' = [f \in Files |-> Snapshot(f)]
          /\ remote' = remote \/ \E s \in Savers : remote' = Stored(s)
      BY <2>3, SaverFacts DEF Exit, Kill
    <3> QED
      BY <3>1, DownMaps
  <2>4. CASE Restore
    BY <2>4, RestoreMaps
  <2>5. CASE Boot
    BY <2>5, BootMaps
  <2>6. ASSUME NEW f \in Files, BeginWrite(f) \/ EndWrite(f) \/ Remove(f) PROVE Store!Next
    BY <2>6, AgentMaps
  <2> QED
    BY <2>1, <2>2, <2>3, <2>4, <2>5, <2>6 DEF Next
<1> QED
  BY <1>1, <1>2, Invariant, AlwaysJournaled, PTL DEF Spec, ImplementsStore, Store!Spec

-----------------------------------------------------------------------------
(* What is left of ShutdownExits without fairness: who can keep a save from *)
(* the lock, and that a save comes to its end.                              *)

\* The holder of the lock is in the loops of save, and no handler that was left
\* by sys.exit has it.
HolderSaves ==
  /\ lock # Nobody => pc[lock] \in {"databases", "documents"}
  /\ proc = "exiting" => lock \notin Handlers

LEMMA HolderSavesInit == Init => HolderSaves
BY DEF Init, HolderSaves, Handlers, Handler, Nobody

LEMMA HolderSavesNext == IInv /\ HolderSaves /\ [Next]_vars => HolderSaves'
<1> SUFFICES ASSUME IInv, HolderSaves, [Next]_vars PROVE HolderSaves'
  OBVIOUS
<1> USE DEF HolderSaves
<1>1. lock \in Savers \union {Nobody} /\ pc \in [Savers -> {"idle", "waiting", "databases", "documents"}]
  BY DEF IInv, TypeOK
<1>2. ASSUME NEW s \in Savers, SaveStep(s) PROVE HolderSaves'
  <2>1. CASE Acquire(s)
    BY <1>1, <2>1, SaverFacts DEF Acquire, Runs, procVars
  <2>2. CASE ReadFile(s) \/ Upload(s)
    BY <2>2 DEF ReadFile, Upload, procVars
  <2>3. CASE ListDocuments(s)
    BY <1>1, <2>3, SaverFacts DEF ListDocuments, procVars
  <2>4. CASE Release(s)
    BY <2>4, SaverFacts DEF Release, HolderAfter
  <2> QED
    BY <1>2, <2>1, <2>2, <2>3, <2>4 DEF SaveStep
<1>3. CASE Tick
  BY <1>1, <1>3, SaverFacts DEF Tick, procVars
<1>4. ASSUME NEW s \in TurnSavers, EndTurn(s) PROVE HolderSaves'
  BY <1>1, <1>4, SaverFacts DEF EndTurn, procVars
<1>5. CASE Sigterm
  <2>1. CASE proc = "up"
    <3>1. terms + 1 \in 1..MaxTerms /\ terms + 1 > terms
      BY <1>5, WorkspaceAssumption DEF Sigterm, IInv, TypeOK
    <3>2. pc[Handler(terms + 1)] = "idle"
      BY <3>1 DEF IInv, Stack
    <3> QED
      BY <1>1, <1>5, <2>1, <3>2 DEF Sigterm
  <2>2. CASE proc = "starting"
    <3>1. \A s \in Savers : pc[s] = "idle"
      BY <2>2 DEF IInv, Exclusion, AgentRuns
    <3> QED
      BY <1>1, <1>5, <2>2, <3>1, SaverFacts DEF Sigterm
  <2> QED
    BY <1>5, <2>1, <2>2 DEF Sigterm
<1>6. CASE Exit \/ Kill
  BY <1>6, SaverFacts DEF Exit, Kill, Down
<1>7. CASE Restore \/ Boot
  BY <1>7 DEF Restore, Boot, saveVars
<1>8. ASSUME NEW f \in Files, BeginWrite(f) \/ EndWrite(f) \/ Remove(f) PROVE HolderSaves'
  BY <1>8 DEF BeginWrite, EndWrite, Remove, saveVars, procVars
<1>9. CASE UNCHANGED vars
  BY <1>9 DEF vars, saveVars, procVars
<1> QED
  BY <1>2, <1>3, <1>4, <1>5, <1>6, <1>7, <1>8, <1>9 DEF Next

\* A lock that is held is held by who can go on, or by a signal handler that a
\* second SIGTERM interrupted.
HolderGoesOn ==
  lock # Nobody /\ ~Runs(lock) =>
    proc = "up" /\ \E n \in 1..MaxTerms : n < terms /\ lock = Handler(n)

\* Nothing but a second SIGTERM keeps the handler of the first from the lock: the
\* run second_sigterm shows the one way in which a shutdown can hang, and there is
\* no other (main.py: _sigterm_handler; workspace_sync.py: save under _save_lock).
THEOREM OnlySecondSigtermBlocks == Spec => [](HolderGoesOn /\ (terms <= 1 /\ lock # Nobody => Runs(lock)))
<1>1. ASSUME IInv, HolderSaves, lock # Nobody, ~Runs(lock)
      PROVE  proc = "up" /\ \E n \in 1..MaxTerms : n < terms /\ lock = Handler(n)
  <2>1. lock \in Savers /\ terms \in 0..MaxTerms /\ MaxTerms \in Nat
    BY <1>1, WorkspaceAssumption DEF IInv, TypeOK
  <2>2. proc \in {"up", "exiting"}
    BY <1>1, <2>1 DEF IInv, Exclusion, HolderSaves, AgentRuns
  <2>3. lock \in Handlers /\ proc = "up" /\ lock # Handler(terms)
    BY <1>1, <2>2 DEF Runs, HolderSaves
  <2>4. PICK n \in 1..MaxTerms : lock = Handler(n)
    BY <2>3 DEF Handlers
  <2>5. ~(n > terms)
    BY <1>1, <2>4 DEF IInv, Stack, HolderSaves
  <2>6. n # terms
    BY <2>3, <2>4
  <2> QED
    BY <2>1, <2>3, <2>4, <2>5, <2>6
<1>2. IInv /\ HolderSaves => HolderGoesOn /\ (terms <= 1 /\ lock # Nobody => Runs(lock))
  BY <1>1, WorkspaceAssumption DEF HolderGoesOn, IInv, TypeOK
<1> QED
  BY <1>2, Invariant, HolderSavesInit, HolderSavesNext, PTL DEF Spec

Stages == {"waiting", "databases", "documents"}

\* A step of a save takes it on: to the next loop, or past a file, or past the
\* upload of one.
Nearer(s) ==
  \/ <<pc[s], pc'[s]>> \in {<<"waiting", "databases">>, <<"databases", "documents">>,
                           <<"documents", "idle">>}
  \/ pc'[s] = pc[s] /\ todo'[s] \subseteq todo[s] /\ todo'[s] # todo[s]
  \/ pc'[s] = pc[s] /\ todo'[s] = todo[s] /\ held[s] # Nothing /\ held'[s] = Nothing

\* Where a save is, seen from outside, only it itself changes, or the end of the
\* process.
SavesComeToAnEnd ==
  [][\A s \in Savers : pc[s] \in Stages =>
        Nearer(s) \/ proc' = "down" \/ UNCHANGED <<pc[s], todo[s], held[s]>>]_vars

\* A save gets nearer to its end with each of its steps, whatever fails, and no
\* step of anyone sets it back: neither another save nor the agent that goes on
\* writing gives it more to do (workspace_sync.py: save).
THEOREM SavesEnd == Spec => SavesComeToAnEnd
<1>1. ASSUME IInv, [Next]_vars, NEW s \in Savers, pc[s] \in Stages
      PROVE  Nearer(s) \/ proc' = "down" \/ UNCHANGED <<pc[s], todo[s], held[s]>>
  <2>0. /\ DOMAIN pc = Savers /\ DOMAIN todo = Savers /\ DOMAIN held = Savers
        /\ terms \in 0..MaxTerms
    BY <1>1 DEF IInv, TypeOK
  <2>1. ASSUME NEW u \in Savers, SaveStep(u), u # s
        PROVE  UNCHANGED <<pc[s], todo[s], held[s]>>
    <3>1. CASE Acquire(u) \/ ListDocuments(u)
      BY <2>0, <2>1, <3>1 DEF Acquire, ListDocuments
    <3>2. CASE ReadFile(u)
      BY <2>0, <2>1, <3>2 DEF ReadFile
    <3>3. CASE Upload(u) \/ Release(u)
      BY <2>0, <2>1, <3>3 DEF Upload, Release
    <3> QED
      BY <2>1, <3>1, <3>2, <3>3 DEF SaveStep
  <2>2. CASE SaveStep(s)
    <3>1. CASE Acquire(s) \/ ListDocuments(s) \/ Release(s)
      BY <2>0, <3>1 DEF Acquire, ListDocuments, Release, Nearer
    <3>2. CASE ReadFile(s)
      <4>1. PICK f \in todo[s] : todo' = [todo EXCEPT ![s] = @ \ {f}]
        BY <2>0, <3>2 DEF ReadFile
      <4>2. todo'[s] = todo[s] \ {f} /\ pc' = pc
        BY <2>0, <3>2, <4>1 DEF ReadFile
      <4> QED
        BY <4>2 DEF Nearer
    <3>3. CASE Upload(s)
      <4>1. held[s] # Nothing /\ held'[s] = Nothing /\ UNCHANGED <<pc, todo>>
        BY <2>0, <3>3 DEF Upload
      <4> QED
        BY <4>1 DEF Nearer
    <3> QED
      BY <2>2, <3>1, <3>2, <3>3 DEF SaveStep
  <2>3. CASE Exit \/ Kill
    BY <2>3 DEF Exit, Kill, Down
  <2>4. CASE Tick \/ \E u \in TurnSavers : EndTurn(u)
    BY <2>0, <1>1, <2>4, SaverFacts DEF Tick, EndTurn, Stages
  <2>5. CASE Sigterm
    <3>1. CASE proc = "up"
      <4>1. terms + 1 \in 1..MaxTerms /\ terms + 1 > terms
        BY <2>0, <2>5, WorkspaceAssumption DEF Sigterm
      <4>2. pc[Handler(terms + 1)] = "idle"
        BY <1>1, <4>1 DEF IInv, Stack
      <4> QED
        BY <2>0, <1>1, <2>5, <3>1, <4>2 DEF Sigterm, Stages
    <3>2. CASE proc # "up"
      BY <2>0, <2>5, <3>2 DEF Sigterm
    <3> QED
      BY <3>1, <3>2
  <2>6. CASE Restore \/ Boot \/ UNCHANGED vars
    BY <2>6 DEF Restore, Boot, vars, saveVars
  <2>7. ASSUME NEW f \in Files, BeginWrite(f) \/ EndWrite(f) \/ Remove(f)
        PROVE  UNCHANGED <<pc[s], todo[s], held[s]>>
    BY <2>7 DEF BeginWrite, EndWrite, Remove, saveVars
  <2> QED
    BY <1>1, <2>1, <2>2, <2>3, <2>4, <2>5, <2>6, <2>7 DEF Next
<1>2. IInv /\ [Next]_vars =>
        [\A s \in Savers : pc[s] \in Stages =>
           Nearer(s) \/ proc' = "down" \/ UNCHANGED <<pc[s], todo[s], held[s]>>]_vars
  BY <1>1
<1> QED
  BY <1>2, Invariant, PTL DEF Spec, SavesComeToAnEnd

-----------------------------------------------------------------------------
(* When PrimaryStorageKept holds.                                           *)

\* Files that are not databases with a journal beside them and another object.
Unmixable(f) == f \notin journal \/ local[f] = remote[f]

\* What a start takes from the disk was in no object, of every file that the journal
\* of the former process cannot spoil.
OnlyUnsavedIsLost ==
  [][proc = "starting" /\ proc' = "up" =>
        \A f \in Files : Unmixable(f) =>
          local[f].has \intersect remote[f].has \subseteq local'[f].has]_vars

\* PrimaryStorageKept is false (run kept_disk), but what a start takes from a disk
\* that was kept are writes that no upload had stored, unless it puts the object of
\* a database beside the journal of a killed process (workspace_sync.py: restore).
THEOREM SavedIsNotLost == Spec => OnlyUnsavedIsLost
<1>1. ASSUME IInv, [Next]_vars, proc = "starting", proc' = "up", NEW f \in Files, Unmixable(f)
      PROVE  local[f].has \intersect remote[f].has \subseteq local'[f].has
  <2>1. CASE Restore
    <3>1. PICK got \in SUBSET Files, listed \in BOOLEAN : Brought(got, listed)
      BY <1>1, <2>1, RestoreFacts DEF IInv
    <3>2. f \notin Clashing(got)
      BY <1>1 DEF Unmixable, Clashing
    <3>3. local'[f] \in {remote[f], local[f], Absent}
      BY <3>1, <3>2 DEF Brought
    <3>4. CASE local'[f] # Absent
      BY <3>1, <3>2, <3>4 DEF Brought
    <3>5. CASE local'[f] = Absent
      <4>1. \/ remote[f] = Absent \/ remote[f].torn
            \/ local[f] = Absent \/ local[f].torn
        BY <3>1, <3>2, <3>5 DEF Brought
      <4> QED
        BY <1>1, <4>1, ContentFacts DEF IInv, TornIsEmpty
    <3> QED
      BY <3>4, <3>5
  <2>2. CASE \E s \in Savers : SaveStep(s)
    BY <1>1, <2>2 DEF SaveStep, Acquire, ReadFile, Upload, ListDocuments, Release, Runs
  <2>3. CASE Tick \/ Sigterm \/ (\E s \in TurnSavers : EndTurn(s)) \/ Exit \/ Kill \/ Boot
    BY <1>1, <2>3 DEF Tick, Sigterm, EndTurn, Exit, Kill, Down, Boot
  <2>4. CASE \E g \in Files : BeginWrite(g) \/ EndWrite(g) \/ Remove(g)
    BY <1>1, <2>4 DEF BeginWrite, EndWrite, Remove, AgentRuns
  <2>5. CASE UNCHANGED vars
    BY <1>1, <2>5 DEF vars, procVars
  <2> QED
    BY <1>1, <2>1, <2>2, <2>3, <2>4, <2>5 DEF Next
<1>2. IInv /\ [Next]_vars =>
        [proc = "starting" /\ proc' = "up" =>
           \A f \in Files : Unmixable(f) =>
             local[f].has \intersect remote[f].has \subseteq local'[f].has]_vars
  BY <1>1
<1> QED
  BY <1>2, Invariant, PTL DEF Spec, OnlyUnsavedIsLost
=============================================================================
