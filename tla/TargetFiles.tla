---------------------------- MODULE TargetFiles ----------------------------
(***************************************************************************)
(* The file provider, internal/pkg/discovery/file/file.go: a scan reads    *)
(* the names in a directory and then one file after the other, while the   *)
(* files are edited.  A file is the set of target ids it parses to: the    *)
(* empty set when there is no such file, when it is half written or not    *)
(* YAML, and when it lists no target, which the parser all skips alike.    *)
(***************************************************************************)
EXTENDS Naturals

CONSTANTS
  Ids,      \* target ids
  NumFiles  \* the files are numbered in the order of os.ReadDir

NumFilesAssumption == NumFiles \in Nat

VARIABLES
  directory, \* the directory can be read
  content,   \* the ids in each file
  phase,     \* where Run is
  todo,      \* the files of the listing that are not read yet
  found,     \* the ids read so far
  report,    \* the last list given to discovery
  steady,    \* history: the <<file, id>> there ever since the scan began
  ran        \* history: the ids that were in a file since the scan began

vars == <<directory, content, phase, todo, found, report, steady, ran>>

FileNames == 1 .. NumFiles

TypeOK ==
  /\ directory \in BOOLEAN
  /\ content \in [FileNames -> SUBSET Ids]
  /\ phase \in {"wait", "files", "send", "stopped"}
  /\ todo \in SUBSET FileNames
  /\ found \in SUBSET Ids
  /\ report \in SUBSET Ids
  /\ steady \in SUBSET (FileNames \X Ids)
  /\ ran \in SUBSET Ids

\* What a scan could read at this moment.
Pairs == {p \in FileNames \X Ids : directory /\ p[2] \in content[p[1]]}
Shown == {p[2] : p \in Pairs}

Init ==
  /\ directory \in BOOLEAN
  /\ content \in [FileNames -> SUBSET Ids]
  /\ phase = "wait"
  /\ todo = {}
  /\ found = {}
  /\ report = {}
  /\ steady = {}
  /\ ran = {}

-----------------------------------------------------------------------------
(* Whoever edits the files, and whoever mounts the directory.              *)

Edit == /\ \/ /\ \E f \in FileNames, ids \in SUBSET Ids : content' = [content EXCEPT ![f] = ids]
              /\ UNCHANGED directory
           \/ /\ directory' = ~directory
              /\ UNCHANGED content
        /\ steady' = steady \cap Pairs'
        /\ ran' = ran \cup Shown'
        /\ UNCHANGED <<phase, todo, found, report>>

-----------------------------------------------------------------------------
(* Run and scanDirectory.  A directory that cannot be listed ends the scan *)
(* and the last report stands: the step would change nothing.              *)

\* A name may be listed whose file holds no target, or is gone when it is read.
ReadDir == /\ phase = "wait"
           /\ directory
           /\ phase' = "files"
           /\ \E names \in SUBSET FileNames :
                /\ {f \in FileNames : content[f] # {}} \subseteq names
                /\ todo' = names
           /\ found' = {}
           /\ steady' = Pairs
           /\ ran' = Shown
           /\ UNCHANGED <<directory, content, report>>

Parsed(f) == IF directory THEN content[f] ELSE {}

InOrder(f) == f \in todo /\ \A g \in todo : f <= g

\* Mutant: the first file that is skipped ends the scan.
ReadFileMut == /\ phase = "files"
               /\ \E f \in FileNames :
                    /\ InOrder(f)
                    /\ todo' = IF Parsed(f) = {} THEN {} ELSE todo \ {f}
                    /\ found' = found \cup Parsed(f)
               /\ UNCHANGED <<directory, content, phase, report, steady, ran>>

ReadFile == /\ phase = "files"
            /\ \E f \in FileNames : /\ InOrder(f)
                                     /\ todo' = todo \ {f}
                                     /\ found' = found \cup Parsed(f)
            /\ UNCHANGED <<directory, content, phase, report, steady, ran>>

FilesDone == /\ phase = "files"
             /\ todo = {}
             /\ phase' = "send"
             /\ UNCHANGED <<directory, content, todo, found, report, steady, ran>>

\* Mutant: the lists of all scans are collected.
SendMut == /\ phase = "send"
           /\ phase' = "wait"
           /\ report' = report \cup found
           /\ UNCHANGED <<directory, content, todo, found, steady, ran>>

Send == /\ phase = "send"
        /\ phase' = "wait"
        /\ report' = found
        /\ UNCHANGED <<directory, content, todo, found, steady, ran>>

\* The context is cancelled: both selects of Run return.
Quit == /\ phase \in {"wait", "send"}
        /\ phase' = "stopped"
        /\ UNCHANGED <<directory, content, todo, found, report, steady, ran>>

Scan == ReadDir \/ ReadFile \/ FilesDone \/ Send

Next == Edit \/ Scan \/ Quit

Spec == Init /\ [][Next]_vars

-----------------------------------------------------------------------------
\* A target that stays in its file during a scan is in the list the scan sends,
\* whatever happens to the other files, and nothing is in it that no file held
\* meanwhile (file.go 93-125).  A target that moves to a file the scan has
\* passed may be missed.
ScanIsExact ==
  phase = "send" => {p[2] : p \in steady} \subseteq found /\ found \subseteq ran

\* A target that no file holds any more leaves the reports, if the directory
\* can be read.
RemovedIsForgotten ==
  \A id \in Ids : <>[](directory /\ id \notin Shown) => <>[](id \notin report) \/ <>(phase = "stopped")
=============================================================================
