--------------------------------- MODULE Paths ---------------------------------
(***************************************************************************)
(* What WorkspaceSync lets into the workspace and out of it                *)
(* (bridge/workspace_sync.py): the namespace a session is bound to, the    *)
(* paths that are synchronised, the links and directories a download meets *)
(* on the disk, and the skills the runtime reads.  How whole saves and     *)
(* restores follow each other is module Workspace; here a save uploads one *)
(* file after another, in any order, and may end after each.               *)
(***************************************************************************)
EXTENDS Naturals, Sequences

CONSTANTS
  Keys,         \* paths below the prefix and the workspace: sequences of names
  MaxChanges,   \* bound: files and links the agent makes
  MaxStarts     \* bound: processes started for the session

ASSUME PathsAssumption ==
  /\ \A p \in Keys : p \in Seq(STRING)
  /\ MaxChanges \in Nat /\ MaxStarts \in Nat

\* SKIP_PATTERNS: directories, and names as editors and SQLite leave them.
SkippedDirectories == {"__pycache__", "node_modules", ".git"}
SkippedNames == {"x.tmp"}
\* Names SKILL_NAME_RE refuses.
IllegalSkillNames == {"__pycache__", ".git", ".."}

VARIABLES
  bucket,     \* S3_BUCKET is set
  session,    \* runtime_session_id: "valid", "invalid" or "none"
  root,       \* WORKSPACE_PATH: "missing", "directory", "file" or "link"
  stage,      \* "new", "ready" once constructed, "restored"
  disk,       \* files and links in the workspace
  objects,    \* objects in the bucket
  judged,     \* path of the file save has decided to upload, << >> if none
  starts,     \* processes started so far
  changes,    \* changes of the agent so far
  complete    \* history: the disk is what a restore without failures left of an
              \* empty workspace

pathVars == <<bucket, session, root, stage, disk, objects, judged, starts, changes, complete>>

\* p lies in the directory d.
Below(p, d) == Len(d) < Len(p) /\ SubSeq(p, 1, Len(d)) = d
AtOrBelow(p, d) == p = d \/ Below(p, d)

File(p, markdown, origin) ==
  [path |-> p, kind |-> "file", markdown |-> markdown, origin |-> origin]
Object(ns, p, markdown, origin) ==
  [namespace |-> ns, path |-> p, markdown |-> markdown, origin |-> origin]

-----------------------------------------------------------------------------
(* Which paths, which namespace.                                            *)

\* _safe_relative
Safe(p) == p # << >> /\ \A i \in DOMAIN p : p[i] \notin {"..", "/"}

\* _should_skip: a pattern of a name is matched against the end of the path, one
\* of a directory against every directory on the way.
Skipped(p) ==
  \/ p[Len(p)] \in SkippedNames
  \/ \E i \in 1..(Len(p) - 1) : p[i] \in SkippedDirectories

IsSkill(p) == p[1] = "skills"

\* Whether a file is valid Markdown is asked of skills only: _read_markdown.
Contents(p) == IF IsSkill(p) THEN BOOLEAN ELSE {FALSE}

\* _is_approved_skill
IsApprovedSkill(p) ==
  Len(p) = 3 /\ IsSkill(p) /\ p[2] \notin IllegalSkillNames /\ p[3] = "SKILL.md"

\* Mutant: every file of a skill is taken.
SyncsAnySkillFile(p) == Safe(p) /\ ~Skipped(p)

ShouldSync(p) == Safe(p) /\ ~Skipped(p) /\ (IsSkill(p) => IsApprovedSkill(p))

\* Mutant: a namespace need only look like one.
WellFormed(ns) == session = "valid" /\ ns \in {"own", "other"}

\* _validate_namespace: the one derived from a valid session, or an exception.
BoundNamespace(ns) == session = "valid" /\ ns = "own"

\* _validated_namespace, which restore and save come to only with a bucket.
Validated(ns) == bucket /\ BoundNamespace(ns)
\* Mutant: a skill is looked for in the directory of the skills itself.
InstructsAtTop(f) ==
  root = "directory" /\ f.kind = "file" /\ f.path = <<"skills", "SKILL.md">> /\ f.markdown

\* load_skill_instructions: the skills the agent is told of.
Instructs(f) ==
  /\ root = "directory" /\ f.kind = "file"
  /\ IsApprovedSkill(f.path) /\ f.markdown

-----------------------------------------------------------------------------
(* The life of the workspace.                                               *)

\* One object may be there that no save of this session has put.
Strangers ==
  UNION {{Object(ns, p, markdown, "stranger") : ns \in {"own", "other"}, markdown \in Contents(p)}
           : p \in Keys}

PathsInit ==
  /\ bucket \in BOOLEAN
  /\ session \in {"valid", "invalid", "none"}
  /\ root \in {"missing", "directory", "file", "link"}
  /\ objects \in {{}} \union {{o} : o \in Strangers}
  /\ stage = "new" /\ disk = {} /\ judged = << >> /\ starts = 1
  /\ changes = 0 /\ complete = FALSE
\* __init__: the root is made; a link or a file in its place is an exception.
Prepare ==
  /\ stage = "new" /\ root \in {"missing", "directory"}
  /\ root' = "directory" /\ stage' = "ready"
  /\ UNCHANGED <<bucket, session, disk, objects, judged, starts, changes, complete>>

\* _local_path and mkdir: no link on the way or at the end; os.replace: no
\* directory in its place.
Fits(p) ==
  \A f \in disk : /\ f.kind = "link" => ~AtOrBelow(p, f.path)
                  /\ ~Below(p, f.path) /\ ~Below(f.path, p)

\* Mutant: only objects at the top are listed.
OfferedAtTop(ns) ==
  {o \in objects : o.namespace = ns /\ ShouldSync(o.path) /\ Len(o.path) = 1}

\* What restore would fetch.  The listing comes in the order of the keys, so that
\* an object is followed by those in the directory of its name.
Offered(ns) ==
  {o \in objects : /\ o.namespace = ns /\ ShouldSync(o.path)
                   /\ IsApprovedSkill(o.path) => o.markdown}

\* restore, with the downloads that fail.  A failed one leaves neither a temporary
\* file nor a directory (_download_atomically, rmdir).
RestorePaths(ns) ==
  /\ stage = "ready" /\ Validated(ns)
  /\ \E failing \in SUBSET Offered(ns) :
       LET fetched == {o \in Offered(ns) \ failing : Fits(o.path)}
           kept == {o \in fetched : ~\E q \in fetched : Below(o.path, q.path)}
       IN /\ disk' = {f \in disk : \A o \in kept : o.path # f.path}
                       \union {File(o.path, o.markdown, ns) : o \in kept}
          /\ complete' = (disk = {} /\ failing = {})
  /\ stage' = "restored"
  /\ UNCHANGED <<bucket, session, root, objects, judged, starts, changes>>

\* Without a bucket there is nothing to restore.
RestoreNothing ==
  /\ stage = "ready" /\ ~bucket
  /\ stage' = "restored"
  /\ UNCHANGED <<bucket, session, root, disk, objects, judged, starts, changes, complete>>

\* The agent makes a file or a link, in place of what is there.
Make ==
  /\ stage = "restored" /\ changes < MaxChanges /\ changes' = changes + 1
  /\ \E p \in {k \in Keys : Safe(k)}, kind \in {"file", "link"} : \E markdown \in Contents(p) :
       /\ kind = "link" => ~markdown
       /\ disk' = {f \in disk : ~AtOrBelow(f.path, p) /\ ~Below(p, f.path)}
            \union {[path |-> p, kind |-> kind, markdown |-> markdown, origin |-> "agent"]}
  /\ complete' = FALSE
  /\ UNCHANGED <<bucket, session, root, stage, objects, judged, starts>>

\* save finds a regular file that is to be kept; a skill has to be Markdown.
JudgeFile(ns) ==
  /\ stage = "restored" /\ Validated(ns) /\ judged = << >>
  /\ \E f \in disk : /\ f.kind = "file" /\ ShouldSync(f.path)
                     /\ IsApprovedSkill(f.path) => f.markdown
                     /\ judged' = f.path
  /\ UNCHANGED <<bucket, session, root, stage, disk, objects, starts, changes, complete>>

\* upload_file opens the path again, and follows a link that is there by now.  A
\* failure is logged.
UploadPath(ns) ==
  /\ judged # << >> /\ judged' = << >> /\ Validated(ns)
  /\ \/ UNCHANGED objects
     \/ \E f \in disk, markdown \in Contents(judged) :
          /\ f.path = judged /\ (f.kind = "file" => markdown = f.markdown)
          /\ objects' =
               {o \in objects : o.namespace # ns \/ o.path # judged}
                 \union {Object(ns, judged, markdown, "save")}
  /\ UNCHANGED <<bucket, session, root, stage, disk, starts, changes, complete>>

\* The process ends.  The next one finds the workspace gone, or as it was left.
Restart ==
  /\ stage # "new" /\ starts < MaxStarts /\ starts' = starts + 1
  /\ stage' = "new" /\ judged' = << >> /\ complete' = FALSE
  /\ disk' \in {{}, disk}
  /\ root' = IF disk' = disk THEN root ELSE "missing"
  /\ UNCHANGED <<bucket, session, objects, changes>>

PathsNext ==
  \/ Prepare \/ RestoreNothing \/ Make \/ Restart
  \/ \E ns \in {"own", "other"} : RestorePaths(ns) \/ JudgeFile(ns) \/ UploadPath(ns)

PathsSpec == PathsInit /\ [][PathsNext]_pathVars
-----------------------------------------------------------------------------
PathsTypeOK ==
  /\ stage \in {"new", "ready", "restored"}
  /\ root \in {"missing", "directory", "file", "link"}
  /\ \A f \in disk : f.path \in Keys /\ f.origin \in {"own", "other", "agent"}
  /\ \A o \in objects : o.path \in Keys /\ o.origin \in {"save", "stranger"}
  /\ judged \in Keys \union {<< >>}

\* What restore puts on the disk has a path below the root, is a regular file in
\* regular directories, and is a skill only as approved Markdown (tests/
\* test_workspace_security.py:76), even when it was rewritten between the check
\* of save and its upload (workspace_sync.py:339-343).
RestoredIsSafe ==
  \A f \in disk : f.origin # "agent" =>
    /\ Safe(f.path) /\ (IsSkill(f.path) => IsApprovedSkill(f.path) /\ f.markdown)
    /\ \A g \in disk : g.kind = "link" => ~AtOrBelow(f.path, g.path)

\* A session reads and writes below its own namespace only (workspace_sync.py:59-65).
OwnNamespaceOnly ==
  /\ \A f \in disk : f.origin # "other"
  /\ \A o \in objects : o.origin = "save" => o.namespace = "own"

\* A session works on its own files, and on none that were slipped in.
WorkspaceIsOwn == RestoredIsSafe /\ OwnNamespaceOnly

\* A file other than a skill that was saved comes back, unless a file that once had the name of its
\* directory was saved too: its object is never deleted and takes the name first.
SavedComesBack ==
  complete => \A o \in objects :
    \/ o.origin # "save" \/ IsSkill(o.path)
    \/ \E f \in disk : AtOrBelow(o.path, f.path)

\* A skill that was saved as Markdown is in force again: no saved file can take the
\* name of its directories (workspace_sync.py:121-131 against 229-236).
SkillsComeBack ==
  complete => \A o \in objects :
    o.origin = "save" /\ IsSkill(o.path) /\ o.markdown =>
      \E f \in disk : f.path = o.path /\ Instructs(f)

\* What was saved is there again after a restart that lost the disk.
SavesComeBack == SavedComesBack /\ SkillsComeBack
=============================================================================
