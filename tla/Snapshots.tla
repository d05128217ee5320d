----------------------------- MODULE Snapshots -----------------------------
(***************************************************************************)
(* The snapshots of the workspace (workspace/src/snapshots/zstd-archiver.ts*)
(* and workspace-manager.ts).  A snapshot is an archive of the files and a *)
(* manifest with its hash, written one after the other under one name.     *)
(* Every file is read or written by a system call of its own, so another   *)
(* process, or a crash, may come between any two; within one process only  *)
(* the await between verifySnapshot and the rest of restoreSnapshot lets   *)
(* others in.                                                              *)
(***************************************************************************)
EXTENDS Naturals, Sequences

CONSTANTS Process,     \* the processes that work on the workspace
          File, Value, \* its files and what they may contain
          Absent,      \* a file, an archive or a manifest that is not there
          Torn,        \* an archive or a manifest that a crash cut off
          Name,        \* of snapshots
          MaxArchives  \* bounds the archives that are ever written

VARIABLES files,     \* the workspace
          archive,   \* per name: the stamp of the archive, Absent or Torn
          manifest,  \* per name: the stamp of the archive whose hash it has
          contents,  \* per stamp: the files in that archive
          op,        \* what each process is doing
          complete,  \* ghost: the stamps whose snapshot was finished
          restored,  \* ghost: stamps that a rollback restored and reported
          replaced   \* ghost: names whose archive was written under a rollback

vars == <<files, archive, manifest, contents, op, complete, restored, replaced>>

Stamp == 1 .. MaxArchives
Written == DOMAIN contents
Idle == [do |-> "nothing"]

Init ==
  /\ files \in [File -> Value]
  /\ archive = [n \in Name |-> Absent] /\ manifest = [n \in Name |-> Absent]
  /\ contents = <<>>
  /\ op = [p \in Process |-> Idle]
  /\ complete = {} /\ restored = {} /\ replaced = {}

\* Tools and projects write files at any time.
Edit(f, v) ==
  /\ files[f] # v
  /\ files' = [files EXCEPT ![f] = v]
  /\ UNCHANGED <<archive, manifest, contents, op, complete, restored, replaced>>

Become(p, next) == op' = [op EXCEPT ![p] = next]
-----------------------------------------------------------------------------
\* createSnapshot scans the workspace file by file.
StartCreate(p, n) ==
  /\ op[p] = Idle
  /\ Become(p, [do |-> "scan", name |-> n, read |-> [f \in {} |-> Absent]])
  /\ UNCHANGED <<files, archive, manifest, contents, complete, restored, replaced>>

ScanFile(p, f) ==
  LET read == op[p].read IN
  /\ op[p].do = "scan" /\ f \notin DOMAIN read
  /\ Become(p, [op[p] EXCEPT !.read =
       [g \in DOMAIN read \cup {f} |-> IF g = f THEN files[f] ELSE read[g]]])
  /\ UNCHANGED <<files, archive, manifest, contents, complete, restored, replaced>>

\* The names that a rollback has verified and not read again.
AboutToRead == {op[p].name : p \in {q \in Process : op[q].do = "reread"}}

\* The archive, under a stamp of its own for its timestamp is in its hash.
WriteArchive(p) ==
  LET n == op[p].name
      s == Len(contents) + 1
  IN
  /\ op[p].do = "scan" /\ DOMAIN op[p].read = File
  /\ s \in Stamp
  /\ contents' = Append(contents, op[p].read)
  /\ archive' = [archive EXCEPT ![n] = s]
  /\ replaced' = replaced \cup ({n} \cap AboutToRead)
  /\ Become(p, [do |-> "manifest", name |-> n, stamp |-> s])
  /\ UNCHANGED <<files, manifest, complete, restored>>

WriteManifest(p) ==
  /\ op[p].do = "manifest"
  /\ manifest' = [manifest EXCEPT ![op[p].name] = op[p].stamp]
  /\ complete' = complete \cup {op[p].stamp}
  /\ Become(p, Idle)
  /\ UNCHANGED <<files, archive, contents, restored, replaced>>
-----------------------------------------------------------------------------
\* Mutant of Verifies: that both can be read is enough.
VerifiesReadable(n) == archive[n] \in Written /\ manifest[n] \in Written

\* verifySnapshot: both files are there and the manifest has the archive's hash.
Verifies(n) == archive[n] \in Written /\ manifest[n] = archive[n]

\* rollbackToSnapshot verifies, and throws when that fails.
StartRollback(p, n) ==
  /\ op[p] = Idle
  /\ Verifies(n)
  /\ Become(p, [do |-> "reread", name |-> n])
  /\ UNCHANGED <<files, archive, manifest, contents, complete, restored, replaced>>

\* After the await the archive is read again, and throws when it is torn.
ReadArchive(p) ==
  LET n == op[p].name IN
  /\ op[p].do = "reread"
  /\ Become(p, IF archive[n] \in Written
                 THEN [do |-> "extract", name |-> n, stamp |-> archive[n], left |-> File]
                 ELSE Idle)
  /\ replaced' = IF \E q \in Process \ {p} : op[q].do = "reread" /\ op[q].name = n
                   THEN replaced ELSE replaced \ {n}
  /\ restored' = IF n \in replaced \/ archive[n] \notin Written
                   THEN restored ELSE restored \cup {archive[n]}
  /\ UNCHANGED <<files, archive, manifest, contents, complete>>

ExtractFile(p, f) ==
  /\ op[p].do = "extract" /\ f \in op[p].left
  /\ files' = [files EXCEPT ![f] = contents[op[p].stamp][f]]
  /\ Become(p, IF op[p].left = {f} THEN Idle ELSE [op[p] EXCEPT !.left = @ \ {f}])
  /\ UNCHANGED <<archive, manifest, contents, complete, restored, replaced>>
-----------------------------------------------------------------------------
\* A crash: what the process was writing is cut off or was not begun.
Crash(p) ==
  /\ op[p] # Idle
  /\ Become(p, Idle)
  /\ \/ UNCHANGED <<archive, manifest, replaced>>
     \/ /\ op[p].do = "scan" /\ DOMAIN op[p].read = File
        /\ archive' = [archive EXCEPT ![op[p].name] = Torn]
        /\ replaced' = replaced \cup ({op[p].name} \cap AboutToRead)
        /\ UNCHANGED manifest
     \/ /\ op[p].do = "manifest"
        /\ manifest' = [manifest EXCEPT ![op[p].name] = Torn]
        /\ UNCHANGED <<archive, replaced>>
  /\ UNCHANGED <<files, contents, complete, restored>>

Next ==
  \/ \E f \in File, v \in Value : Edit(f, v)
  \/ \E p \in Process :
       \/ \E n \in Name : StartCreate(p, n) \/ StartRollback(p, n)
       \/ \E f \in File : ScanFile(p, f) \/ ExtractFile(p, f)
       \/ WriteArchive(p) \/ WriteManifest(p) \/ ReadArchive(p) \/ Crash(p)

Spec == Init /\ [][Next]_vars
-----------------------------------------------------------------------------
\* The type invariant: the domain of every variable of the snapshots.
TypeOK ==
  /\ files \in [File -> Value]
  /\ \A n \in Name : {archive[n], manifest[n]} \subseteq Written \cup {Absent, Torn}
  /\ complete \subseteq Written /\ restored \subseteq Written
  /\ replaced \subseteq Name

(***************************************************************************)
(* What a rollback extracts is a snapshot that was finished, archive and   *)
(* manifest, however creations of the same name, crashes within them and   *)
(* other rollbacks interleave; unless that name's archive was written      *)
(* between verifySnapshot and the second read (zstd-archiver.ts:106-113).  *)
(***************************************************************************)
RestoresFinishedSnapshots == restored \subseteq complete
=============================================================================
