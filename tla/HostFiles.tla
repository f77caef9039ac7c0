------------------------------ MODULE HostFiles ------------------------------
(***************************************************************************)
(* The file operations of a session's target (api/hostops.go,              *)
(* hostops_transfer.go and hostops_ops.go over hostops.FileTransport):     *)
(* uploads that stream into a stub and commit it by a rename, moves,       *)
(* copies, and deletions that run on after their request was answered.     *)
(*                                                                         *)
(* Nothing locks a file: any number of requests, and the shells of the     *)
(* target, work on the same tree, and each call of a FileTransport is a    *)
(* step.  Servers differ in what a rename does to an existing target: the  *)
(* local one overwrites, an SFTP server refuses, and only one with the     *)
(* posix-rename extension can also be asked to overwrite.                  *)
(***************************************************************************)
EXTENDS Naturals, FiniteSets

CONSTANTS
  Paths,     \* every path of the small tree, the stubs included
  Parent,    \* the directory of each path; that of Root is Root
  Depth,     \* how deep the tree is
  Root,      \* the workspace root, or an SSH target's "/" and "."
  Dest,      \* the file uploads go to
  Target,    \* what a link leads to
  Stub,      \* uploadStubPath: a name of its own for each upload
  Requests,  \* requests, one operation each
  Movable,   \* the paths a move or a copy is asked to work on
  Kinds      \* targets: "local", "posix" (SFTP with posix-rename), "plain" (without)

ASSUME HostFilesAssumption ==
  /\ Depth \in Nat
  /\ Root \in Paths /\ Dest \in Paths \ {Root} /\ Movable \subseteq Paths
  /\ Parent \in [Paths -> Paths] /\ Stub \in [Requests -> Paths]
  /\ Kinds \subseteq {"local", "posix", "plain"}
  \* uploadStubPath: the name is random, and nobody else asks for it.
  /\ \A r \in Requests : Stub[r] \notin Movable \cup {Dest}
  /\ \A r, q \in Requests : Stub[r] = Stub[q] => r = q
  \* It is a tree, as deep as Depth says; links lead to what they end at.
  /\ \E level \in [Paths -> 0..Depth] :
       \A p \in Paths \ {Root} : level[p] = level[Parent[p]] + 1
  /\ DOMAIN Target \subseteq Paths
  /\ \A l \in DOMAIN Target : Target[l] \in Paths \ DOMAIN Target

VARIABLES
  kind,   \* what the target is
  fs,     \* the tree
  req,    \* what each request is doing
  gone,   \* history: a request asked to delete or to move away the destination
  lost    \* history: a commit that had found its stub removed the destination
          \* and then could not put the stub in its place

filesVars == <<kind, fs, req, gone, lost>>

None == [is |-> "none"]
Dir == [is |-> "dir"]
Link == [is |-> "link"]
File(by, whole) == [is |-> "file", by |-> by, whole |-> whole]

Exists(p) == fs[p] # None
Put(p, node) == fs' = [fs EXCEPT ![p] = node]
Goto(r, step) == req' = [req EXCEPT ![r].at = step]
Done(r) == Goto(r, "done")

-----------------------------------------------------------------------------
(* Names                                                                   *)

\* S and the entries of its directories.  The entries of one of the links are
\* those of the directory it leads to.
Listed(S, links) ==
  S \cup {q \in Paths \ {Root} : Parent[q] \in S \cup {Target[l] : l \in S \cap links}}

\* What a walk from p has come to after n steps.
Reach(p, links) ==
  LET reach[n \in 0..Depth] == IF n = 0 THEN {p} ELSE Listed(reach[n - 1], links)
  IN  reach

\* p and what is below it.
Under(p) == Reach(p, {})[Depth]

\* The same for an SFTP walk, which asks Stat, and Stat follows links.
Walk(p) == Reach(p, {q \in Paths : fs[q] = Link})[Depth]

\* Variant: only the spelling "." of the root is refused.
RefusesOneSpelling(p, spelled) == p = Root /\ spelled = "."

\* resolveDestructiveHostopsPath refuses the root however it is spelled: SSH
\* paths go through path.Clean, local ones through session.ResolvePath.
Refuses(p, spelled) == p = Root

\* Variant: every upload streams into the same stub.
OneStub(r) == Stub[CHOOSE q \in Requests : TRUE]

StubPath(r) == Stub[r]

-----------------------------------------------------------------------------
FilesInit ==
  /\ kind \in Kinds
  /\ fs = [p \in Paths |->
             IF p \in {Stub[r] : r \in Requests} THEN None
             ELSE IF p \in DOMAIN Target THEN Link
             ELSE IF \E q \in Paths \ {Root} : Parent[q] = p THEN Dir
             ELSE File({}, TRUE)]
  /\ req = [r \in Requests |-> [at |-> "new"]]
  /\ gone = FALSE /\ lost = FALSE

(* Uploads                                                                 *)

\* uploadHostFile opens the stub.
Upload(r) ==
  /\ req[r].at = "new"
  /\ IF fs[Parent[Dest]] = Dir
       THEN Put(StubPath(r), File({r}, FALSE)) /\ req' = [req EXCEPT ![r] = [at |-> "stream"]]
       ELSE Done(r) /\ UNCHANGED fs
  /\ UNCHANGED <<kind, gone, lost>>

\* The body arrives in full and Close succeeds.  A stub that was deleted in the
\* meantime swallows the rest.
StreamEnds(r) ==
  /\ req[r].at = "stream"
  /\ IF Exists(StubPath(r)) THEN Put(StubPath(r), File(fs[StubPath(r)].by \cup {r}, TRUE))
     ELSE UNCHANGED fs
  /\ Goto(r, "commit")
  /\ UNCHANGED <<kind, gone, lost>>

\* The client goes away, the disk is full, or the connection ends.
StreamFails(r) ==
  /\ req[r].at = "stream"
  /\ Goto(r, "cleanup")
  /\ UNCHANGED <<kind, fs, gone, lost>>

\* cleanupUploadStub, best effort.
Cleanup(r) ==
  /\ req[r].at = "cleanup"
  /\ Put(StubPath(r), None) \/ UNCHANGED fs
  /\ Done(r)
  /\ UNCHANGED <<kind, gone, lost>>

Rename(from, to) == fs' = [fs EXCEPT ![from] = None, ![to] = fs[from]]

\* Commit: one rename that overwrites, or on a server that has none a plain one
\* that works if nothing is there.  Over SFTP whatever made both fail, with or
\* without posix-rename, leads on to Stat; without a connection nothing does.
Commit(r) ==
  /\ req[r].at = "commit"
  /\ \/ /\ Exists(StubPath(r)) /\ (kind # "plain" \/ ~Exists(Dest))
        /\ fs[Parent[Dest]] = Dir
        /\ Rename(StubPath(r), Dest) /\ Done(r)
     \/ kind # "local" /\ Goto(r, "stat") /\ UNCHANGED fs
     \/ Goto(r, "cleanup") /\ UNCHANGED fs
  /\ UNCHANGED <<kind, gone, lost>>

\* Variant: a failed rename is taken to mean that the destination is in the way.
SourceTaken(r) == TRUE

SourceThere(r) == Exists(StubPath(r))

\* Commit's Stat, which may fail too: without its source the destination is left
\* alone.  What it saw may be out of date when the destination is removed.
CommitStat(r) ==
  /\ req[r].at = "stat"
  /\ \/ /\ SourceThere(r)
        /\ req' = [req EXCEPT ![r] = [at |-> "clear", saw |-> Exists(StubPath(r))]]
     \/ Goto(r, "cleanup")
  /\ UNCHANGED <<kind, fs, gone, lost>>

CommitClears(r) ==
  /\ req[r].at = "clear"
  /\ \/ Exists(Dest) /\ Put(Dest, None) /\ Goto(r, "replace")
     \/ Goto(r, "cleanup") /\ UNCHANGED fs
  /\ UNCHANGED <<kind, gone, lost>>

\* The second rename fails if the stub has gone since, if something is in the way
\* again, or with the connection: what was there before is lost then.
CommitReplaces(r) ==
  /\ req[r].at = "replace"
  /\ \/ /\ Exists(StubPath(r)) /\ ~Exists(Dest) /\ fs[Parent[Dest]] = Dir
        /\ Rename(StubPath(r), Dest) /\ Done(r) /\ UNCHANGED lost
     \/ Goto(r, "cleanup") /\ lost' = (lost \/ req[r].saw) /\ UNCHANGED fs
  /\ UNCHANGED <<kind, gone>>

-----------------------------------------------------------------------------
(* Moves and copies                                                        *)

\* moveHostFile: os.Rename overwrites a file, an SFTP server does not.  A move that
\* is refused, or of a file onto itself, changes nothing.  The directories of the
\* tree stay where they are: only moves of files are modelled.
Move(r) ==
  /\ req[r].at = "new"
  /\ \E src, dst \in Movable, spelled \in {".", "/"} :
       /\ src # dst /\ ~Refuses(src, spelled) /\ ~Refuses(dst, spelled)
       /\ fs[src].is = "file" /\ fs[Parent[dst]] = Dir
       /\ IF kind = "local" THEN fs[dst].is \in {"none", "file"} ELSE ~Exists(dst)
       /\ Rename(src, dst)
       /\ gone' = (gone \/ src = Dest)
  /\ Done(r)
  /\ UNCHANGED <<kind, lost>>

\* runCopy.  Over SFTP the source is read as a whole before the target is opened;
\* the local Copy opens the source here and reads it when the target is open.  No
\* upload is named as the writer of a file that is truncated and not yet written.
CopyReads(r) ==
  /\ req[r].at = "new"
  /\ \E src, dst \in Movable :
       /\ fs[src].is = "file"
       /\ req' = [req EXCEPT ![r] =
                    [at |-> "copy", data |-> fs[src], src |-> src, dst |-> dst]]
  /\ UNCHANGED <<kind, fs, gone, lost>>

\* Nothing in the code keeps a file from being copied onto itself: a local copy
\* truncates what it has opened and not yet read.
CopyFinds(r) ==
  IF kind = "local" /\ req[r].src = req[r].dst /\ fs[req[r].dst] = req[r].data
    THEN File({}, FALSE) ELSE req[r].data

CopyOpens(r) ==
  /\ req[r].at = "copy"
  /\ IF fs[Parent[req[r].dst]] = Dir /\ fs[req[r].dst].is \in {"none", "file"}
       THEN /\ Put(req[r].dst, File({}, FALSE))
            /\ req' = [req EXCEPT ![r].at = "write", ![r].data = CopyFinds(r)]
       ELSE Done(r) /\ UNCHANGED fs
  /\ UNCHANGED <<kind, gone, lost>>

\* A local source may have been rewritten since it was opened.  Either copy may
\* fail half way, and a target that somebody replaced is no longer its own.
CopyWrites(r) ==
  /\ req[r].at = "write"
  /\ IF fs[req[r].dst] = File({}, FALSE)
       THEN \/ Put(req[r].dst, req[r].data)
            \/ kind = "local" /\ fs[req[r].src].is = "file" /\ Put(req[r].dst, fs[req[r].src])
            \/ UNCHANGED fs
       ELSE UNCHANGED fs
  /\ Done(r)
  /\ UNCHANGED <<kind, gone, lost>>

-----------------------------------------------------------------------------
(* Deletions                                                               *)

Entries(p) ==
  LET listed == IF fs[p] = Link THEN Target[p] ELSE p
  IN  {q \in Paths \ {Root} : Parent[q] = listed /\ Exists(q)}

\* session.ResolvePath leaves no link in a local path.
Resolved(p) == IF kind = "local" /\ fs[p] = Link THEN Target[p] ELSE p

\* deleteHostFile answers at once and leaves the rest to runDelete, which lists
\* the directory first; what has no entries to list is removed as one file.
Delete(r) ==
  /\ req[r].at = "new"
  /\ \E p \in Paths, spelled \in {".", "/"} :
       LET on == Resolved(p) IN
       /\ ~Refuses(on, spelled) /\ Exists(on)
       /\ req' = [req EXCEPT ![r] = [at |-> "remove", on |-> on, left |-> Entries(on)]]
       /\ gone' = (gone \/ (on # Root /\ Dest \in Under(on)))
  /\ UNCHANGED <<kind, fs, lost>>

\* What Remove takes away: the entries before their directory.
Removes(p) == IF kind = "local" THEN Under(p) ELSE Walk(p)

\* One Remove.  The local one is content if there is nothing; the SFTP one asks
\* first, and cannot remove a link as the directory it takes it for.
RemoveSucceeds(p) ==
  /\ kind # "local" => Exists(p) /\ fs[p] # Link
  /\ fs' = [q \in Paths |-> IF q \in Removes(p) THEN None ELSE fs[q]]
RemoveFails(p) ==
  \/ UNCHANGED fs
  \/ fs' = [q \in Paths |-> IF q \in Removes(p) \ {p} THEN None ELSE fs[q]]

\* The entries one by one, in the order they were listed, and the target last.
DeleteStep(r) ==
  /\ req[r].at = "remove"
  /\ LET on == req[r].on
         left == req[r].left IN
     \/ \E q \in left : /\ RemoveSucceeds(q)
                        /\ req' = [req EXCEPT ![r].left = left \ {q}]
     \/ \E q \in left : RemoveFails(q) /\ Done(r)
     \/ left = {} /\ (RemoveSucceeds(on) \/ RemoveFails(on)) /\ Done(r)
  /\ UNCHANGED <<kind, gone, lost>>

FilesNext ==
  \E r \in Requests :
    \/ Upload(r) \/ StreamEnds(r) \/ StreamFails(r) \/ Cleanup(r)
    \/ Commit(r) \/ CommitStat(r) \/ CommitClears(r) \/ CommitReplaces(r)
    \/ Move(r) \/ CopyReads(r) \/ CopyOpens(r) \/ CopyWrites(r)
    \/ Delete(r) \/ DeleteStep(r)

FilesSpec == FilesInit /\ [][FilesNext]_filesVars

-----------------------------------------------------------------------------
(* Properties                                                              *)

\* Outside the stubs, what an upload wrote is the whole body of one upload,
\* however many go to the same destination and wherever they are aborted.
NoPartialUpload ==
  \A p \in Paths \ {Stub[r] : r \in Requests} :
    fs[p].is = "file" /\ fs[p].by # {} =>
      fs[p].whole /\ Cardinality(fs[p].by) = 1

\* Nobody takes the destination away who was not asked to: not a deletion of
\* something else, not an upload that is aborted, and not a commit whose stub was
\* gone before it asked.  A local target keeps the promise.  Over SFTP, whatever
\* the server can do, a commit whose renames failed and that then found its stub
\* removes the destination first: it is absent until the next rename, and lost if
\* that fails, be it because the stub went after Stat.
KeepsDestination ==
  \/ Exists(Dest)
  \/ gone
  \/ kind # "local" /\ (lost \/ \E r \in Requests : req[r].at = "replace" /\ req[r].saw)

\* No link leads to a directory that the destination is in.  An SFTP deletion
\* follows one that does (DeletesInside), and comes to the destination that way.
NoWayAround == \A l \in DOMAIN Target : Dest \in Under(Target[l]) => Target[l] = Dest

\* A deletion removes only what is under the path it names (hostops.go: "a
\* directory and everything under it").  The SFTP one follows a link out of it.
DeletesInside ==
  [][\A r \in Requests : req[r].at = "remove" /\ req'[r] # req[r] =>
       \A p \in Paths : fs'[p] = fs[p] \/ p \in Under(req[r].on)]_filesVars
=============================================================================
