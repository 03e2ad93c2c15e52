---------------------------- MODULE RepositoryUpload ----------------------------
(***************************************************************************)
(* upload_repository_asset: a file is hashed, registered with the hub under*)
(* its digest, sent to the object storage and finalized, while anybody may *)
(* write to the file, replace it, or upload the same content.  Any call may*)
(* be lost, before or after it took effect, and a process may stop anywhere*)
(* and be run again.                                                       *)
(*                                                                         *)
(* The digest of a content is the content; an asset is named by its digest.*)
(* A snapshot is the inode, the length and the time stamps, which a write  *)
(* may leave as they were.  The hub and the storage are external: the      *)
(* storage keeps the first complete body and checks nothing.               *)
(***************************************************************************)
EXTENDS Naturals, Sequences

CONSTANTS
    Uploaders,   \* processes that upload the file
    Values,      \* what a chunk of the file may hold
    MaxChunks,   \* bound: length of the file
    MaxWrites,   \* bound: changes made to the file
    MaxRuns      \* bound: runs of all uploaders

ASSUME UploadAssumption ==
    MaxChunks \in Nat /\ MaxWrites \in Nat /\ MaxRuns \in Nat

VARIABLES
    disk,       \* each inode: its content and its stamp
    path,       \* the inode the path names
    writes,     \* changes made so far
    registered, \* assets the hub knows
    available,  \* assets that are finalized
    stored,     \* each asset with the object stored for it
    run,        \* each uploader
    runs,       \* runs so far
    versions,   \* history: contents the file has had
    unnoticed   \* history: an undated write gave the file a length it has had

vars == <<disk, path, writes, registered, available, stored, run, runs, versions, unnoticed>>
fileVars == <<disk, path, writes, versions, unnoticed>>
hubVars == <<registered, available, stored>>

Contents == UNION {[1..n -> Values] : n \in 0..MaxChunks}
Resting == {"idle", "failed"}

Snapshot(inode) == [inode |-> inode, len |-> Len(disk[inode].content), stamp |-> disk[inode].stamp]

NotRunning == [pc |-> "idle", snapshot |-> [inode |-> 0, len |-> 0, stamp |-> 0],
               read |-> <<>>, digest |-> <<>>, disturbed |-> FALSE]

Init ==
    /\ \E content \in Contents :
         /\ disk = [i \in 0..MaxWrites |-> [content |-> content, stamp |-> 0]]
         /\ versions = {content}
    /\ path = 0 /\ writes = 0 /\ unnoticed = FALSE
    /\ registered = {} /\ available = {} /\ stored = {}
    /\ run = [u \in Uploaders |-> NotRunning] /\ runs = 0

Active(u) == run[u].pc \notin Resting
GoTo(u, pc) == run' = [run EXCEPT ![u].pc = pc]

(* The run is over: it has succeeded, or was stopped, or a call was lost.  *)
Over(u) == run' = [run EXCEPT ![u] = NotRunning]

(* The run gives up by itself.                                             *)
GiveUp(u) ==
    run' = [run EXCEPT ![u] = [NotRunning EXCEPT !.pc = "failed", !.disturbed = run[u].disturbed]]

-----------------------------------------------------------------------------
(* Somebody changes the file.                                              *)

(* Everybody who is at work is disturbed.                                  *)
Disturb == run' = [u \in Uploaders |-> [run[u] EXCEPT !.disturbed = @ \/ Active(u)]]

Change(content, inode, stamp) ==
    /\ writes < MaxWrites
    /\ writes' = writes + 1
    /\ disk' = [disk EXCEPT ![inode] = [content |-> content, stamp |-> stamp]]
    /\ path' = inode
    /\ versions' = versions \union {content}
    /\ Disturb
    /\ UNCHANGED <<hubVars, runs>>

(* A write in place, in one piece: another chunk, one more or one less.    *)
(* Time stamps are coarse, and can be set.                                 *)
WriteInPlace(content, stamp) ==
    LET now == disk[path].content
    IN  /\ \/ Len(content) = Len(now) /\ \E i \in DOMAIN now : content = [now EXCEPT ![i] = content[i]]
           \/ Len(content) = Len(now) + 1 /\ now = SubSeq(content, 1, Len(now))
           \/ Len(content) + 1 = Len(now) /\ content = SubSeq(now, 1, Len(content))
        /\ content # now
        /\ stamp \in {disk[path].stamp, writes + 1}
        /\ Change(content, path, stamp)
        /\ unnoticed' = (unnoticed \/ (stamp = disk[path].stamp
                                        /\ \E before \in versions : Len(before) = Len(content)))

(* Another file takes the path.                                            *)
Replace(content) ==
    /\ Change(content, writes + 1, writes + 1)
    /\ UNCHANGED unnoticed

-----------------------------------------------------------------------------
(* PreparedUpload::open: open_and_hash.                                    *)

Open(u) ==
    /\ run[u].pc \in Resting /\ runs < MaxRuns
    /\ runs' = runs + 1
    /\ run' = [v \in Uploaders |->
         IF v = u THEN [NotRunning EXCEPT !.pc = "hash", !.snapshot = Snapshot(path),
                                          !.disturbed = \E w \in Uploaders \ {u} : Active(w)]
         ELSE [run[v] EXCEPT !.disturbed = @ \/ Active(v)]]
    /\ UNCHANGED <<fileVars, hubVars>>

Content(u) == disk[run[u].snapshot.inode].content

(* The file is hashed up to its end.                                       *)
Hash(u) ==
    /\ run[u].pc = "hash"
    /\ LET at == Len(run[u].read) + 1
       IN  IF at <= Len(Content(u))
             THEN run' = [run EXCEPT ![u].read = Append(@, Content(u)[at])]
             ELSE run' = [run EXCEPT ![u].pc = "hashed", ![u].digest = run[u].read, ![u].read = <<>>]
    /\ UNCHANGED <<fileVars, hubVars, runs>>

(* Mutation: only the inode and the length are compared.                   *)
UnchangedInode(u, inode) ==
    [Snapshot(inode) EXCEPT !.stamp = 0] = [run[u].snapshot EXCEPT !.stamp = 0]

(* ensure_snapshot.                                                        *)
Unchanged(u, inode) == Snapshot(inode) = run[u].snapshot

Check(u, now, inode, next) ==
    /\ run[u].pc = now
    /\ IF Unchanged(u, inode) THEN GoTo(u, next) ELSE GiveUp(u)
    /\ UNCHANGED <<fileVars, hubVars, runs>>

(* The metadata of the descriptor, of the path, and of the path again.     *)
CheckHashed(u) ==
    \/ Check(u, "hashed", run[u].snapshot.inode, "hashed_path")
    \/ Check(u, "hashed_path", path, "verify")
    \/ Check(u, "verify", path, "create")

-----------------------------------------------------------------------------
(* The hub's actions.                                                      *)

(* CreateAsset.                                                            *)
Create(u) ==
    /\ run[u].pc = "create"
    /\ registered' = registered \union {run[u].digest}
    /\ \/ GoTo(u, IF run[u].digest \in registered THEN "details" ELSE "recheck")
       \/ Over(u)
    /\ UNCHANGED <<fileVars, available, stored, runs>>

(* An asset that exists and is available needs nothing.                    *)
Details(u) ==
    /\ run[u].pc = "details"
    /\ IF run[u].digest \in available THEN Over(u) ELSE GoTo(u, "refinalize")
    /\ UNCHANGED <<fileVars, hubVars, runs>>

HasObject(asset) == \E object \in Contents : <<asset, object>> \in stored

(* FinalizeAssetUpload: the hub looks for the object.                      *)
Finalized(u) == available' = available \union {run[u].digest} /\ Over(u)

(* Mutation: an upload that is not available yet is started over.          *)
RefinalizeNever(u) ==
    /\ run[u].pc = "refinalize"
    /\ GoTo(u, "recheck")
    /\ UNCHANGED <<fileVars, hubVars, runs>>

(* An asset that exists may have its object: it is finalized, or else      *)
(* uploaded.                                                               *)
Refinalize(u) ==
    /\ run[u].pc = "refinalize"
    /\ IF HasObject(run[u].digest) THEN Finalized(u) ELSE GoTo(u, "recheck") /\ UNCHANGED available
    /\ UNCHANGED <<fileVars, registered, stored, runs>>

Finalize(u) ==
    /\ run[u].pc = "finalize"
    /\ IF HasObject(run[u].digest) THEN Finalized(u) ELSE GiveUp(u) /\ UNCHANGED available
    /\ UNCHANGED <<fileVars, registered, stored, runs>>

(* The path is verified, then the URL issued, with the required headers.   *)
(* Of a file that was empty at the snapshot nothing is read.               *)
IssueUrl(u) ==
    \/ Check(u, "recheck", path, "issue")
    \/ /\ run[u].pc = "issue"
       /\ GoTo(u, IF run[u].snapshot.len = 0 THEN "finish" ELSE "send")
       /\ UNCHANGED <<fileVars, hubVars, runs>>

-----------------------------------------------------------------------------
(* put_prepared_upload: the body is read while it is sent.                 *)

(* A chunk is read and given to the storage; the last one is kept back     *)
(* until the upload is finished.  It must be there.                        *)
SendChunk(u) ==
    /\ run[u].pc = "send"
    /\ LET at == Len(run[u].read) + 1
       IN  IF at > Len(Content(u)) THEN GiveUp(u)
           ELSE run' = [run EXCEPT ![u].read = Append(@, Content(u)[at]),
                                   ![u].pc = IF at = run[u].snapshot.len THEN "finish" ELSE "send"]
    /\ UNCHANGED <<fileVars, hubVars, runs>>

(* UploadStream::finish: the metadata of the descriptor and of the path,   *)
(* then the digest of what was read.                                       *)
Finish(u) ==
    \/ Check(u, "finish", run[u].snapshot.inode, "finish_path")
    \/ Check(u, "finish_path", path, "compare")
    \/ /\ run[u].pc = "compare"
       /\ IF run[u].read = run[u].digest THEN GoTo(u, "put") ELSE GiveUp(u)
       /\ UNCHANGED <<fileVars, hubVars, runs>>

(* The body is complete: the storage takes it unless it has an object.     *)
Put(u) ==
    /\ run[u].pc = "put"
    /\ IF HasObject(run[u].digest)
         THEN GiveUp(u) /\ UNCHANGED stored
         ELSE /\ stored' = stored \union {<<run[u].digest, run[u].read>>}
              /\ GoTo(u, "sent") \/ Over(u)
    /\ UNCHANGED <<fileVars, registered, available, runs>>

(* The path is the same after the upload.                                  *)
CheckSent(u) == Check(u, "sent", path, "finalize")

(* A call is lost, storage answers before it has the whole body, the time  *)
(* is up, or the process is stopped.                                       *)
Interrupted(u) ==
    /\ Active(u)
    /\ Over(u)
    /\ UNCHANGED <<fileVars, hubVars, runs>>

-----------------------------------------------------------------------------
Next ==
    \/ \E content \in Contents :
         Replace(content) \/ \E stamp \in 0..MaxWrites : WriteInPlace(content, stamp)
    \/ \E u \in Uploaders :
         \/ Open(u) \/ Hash(u) \/ CheckHashed(u)
         \/ Create(u) \/ Details(u) \/ Refinalize(u) \/ IssueUrl(u)
         \/ SendChunk(u) \/ Finish(u) \/ Put(u) \/ CheckSent(u)
         \/ Finalize(u) \/ Interrupted(u)

Spec == Init /\ [][Next]_vars

-----------------------------------------------------------------------------
(* Although the storage checks nothing and the file may change under the   *)
(* upload without a trace, an object is what its asset was registered as;  *)
(* and an upload that succeeds leaves its asset available and stored.      *)
StoredAsHashed ==
    /\ \A asset, object \in Contents : <<asset, object>> \in stored => asset = object
    /\ \A asset \in available : <<asset, asset>> \in stored

(* Unless an undated write gave the file a length it has had before, so    *)
(* that its metadata may be those of another content, what is registered   *)
(* was the content of the file at one time, and no mixture of two.         *)
NeverTorn == unnoticed \/ registered \subseteq versions

(* What the repository serves is what a file once was.                     *)
StoredFaithfully == StoredAsHashed /\ NeverTorn

(* After whatever went wrong before, a run that nothing disturbs succeeds. *)
UndisturbedSucceeds == \A u \in Uploaders : run[u].pc = "failed" => run[u].disturbed
=============================================================================
