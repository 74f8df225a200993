------------------------------- MODULE RepoScan -------------------------------
(***************************************************************************)
(* check_repo_privacy.py: a scan of the working tree and of every blob of  *)
(* the local git store, beside a repository that changes meanwhile.        *)
(*                                                                         *)
(* The blobs are read from a git process (cat-file --batch) over two pipes *)
(* of bounded size: a request goes down one, a header, the content and a   *)
(* newline come up the other.  git may die, hang up or miss an object, and *)
(* any file or object may go away between two steps.  What is prohibited   *)
(* in a name or a text is a fact about the item (dirty).                   *)
(***************************************************************************)
EXTENDS Integers, Sequences, FiniteSets

CONSTANTS
  Files, Blobs,
  Size,      \* pieces a blob's content takes in the pipe
  PipeSize,  \* pieces or requests a pipe holds
  History    \* FALSE: --no-history

ASSUME ScanAssumption ==
  /\ IsFiniteSet(Files) /\ IsFiniteSet(Blobs) /\ Files \cap Blobs = {}
  /\ Size \in Nat /\ PipeSize \in Nat \ {0} /\ History \in BOOLEAN

VARIABLES
  dirty,     \* files and blobs with prohibited content
  there,     \* files and blobs that exist
  pc,        \* where the scanner is
  todo,      \* files listed, or blobs enumerated, and not yet looked at
  item,      \* the file or blob it is at, or None
  need,      \* pieces of content it has still to read
  found,     \* the list of violations is not empty
  down, up,  \* the two pipes
  open,      \* the scanner's end of the downward pipe is open
  git,       \* "none", "idle", "busy", "exited", "failed"
  sending,   \* pieces git has still to send
  scanned,   \* history: items whose content was examined
  trouble    \* history: something vanished, failed or died

pipes == <<down, up>>
child == <<git, sending>>
world == <<dirty, there>>
vars  == <<world, pc, todo, item, need, found, pipes, open, child, scanned, trouble>>

None  == "none"
Items == Files \cup Blobs
Alive == git \in {"idle", "busy"}
Pieces == {"missing", "header", "content", "newline"}

-----------------------------------------------------------------------------
Init ==
  /\ dirty \in SUBSET Items /\ there = Items
  /\ pc = "tracked" /\ todo = {} /\ item = None /\ need = 0
  /\ found = FALSE /\ scanned = {} /\ trouble = FALSE
  /\ down = <<>> /\ up = <<>> /\ open = FALSE /\ git = "none" /\ sending = <<>>

Goto(label) == pc' = label

\* A violation is added to the list, "scan incomplete" among them.
Fails == found' = TRUE /\ trouble' = TRUE

\* git ls-files, and the names it prints (none, when it fails without history and
\* without a .git); the directory is listed.
Tracked ==
  /\ pc = "tracked"
  /\ \/ Fails
     \/ /\ UNCHANGED trouble
        /\ UNCHANGED found \/ (dirty \cap Files # {} /\ found' = TRUE)
  /\ \/ todo' = there \cap Files /\ Goto("walk")
     \/ todo' = {} /\ Goto("noWalk")
  /\ UNCHANGED <<world, item, need, pipes, open, child, scanned>>

\* Mutant: os.walk keeps its default, which passes over what it cannot read.
NoWalk_Quiet ==
  /\ pc \in {"walk", "noWalk"}
  /\ todo # {} \/ pc = "noWalk"
  /\ todo' = {} /\ Goto(IF History THEN "list" ELSE "done")
  /\ UNCHANGED <<world, item, need, found, pipes, open, child, scanned, trouble>>

\* os.walk fails: what it has not yielded stays unread.
NoWalk ==
  /\ pc \in {"walk", "noWalk"}
  /\ todo # {} \/ pc = "noWalk"
  /\ Fails /\ todo' = {} /\ Goto(IF History THEN "list" ELSE "done")
  /\ UNCHANGED <<world, item, need, pipes, open, child, scanned>>

\* path.is_file() of the next file; one that is gone is skipped.
Look ==
  /\ pc = "walk" /\ todo # {}
  /\ \E f \in todo :
       /\ todo' = todo \ {f}
       /\ IF f \in there THEN item' = f /\ Goto("read") ELSE UNCHANGED <<pc, item>>
  /\ UNCHANGED <<world, need, found, pipes, open, child, scanned, trouble>>

\* read_bytes: examined, or reported as unreadable.
Read ==
  /\ pc = "read" /\ Goto("walk")
  /\ \/ /\ item \in there
        /\ scanned' = scanned \cup {item}
        /\ found' = (found \/ item \in dirty) /\ UNCHANGED trouble
     \/ Fails /\ UNCHANGED scanned
  /\ item' = None
  /\ UNCHANGED <<world, todo, need, pipes, open, child>>

WalkDone ==
  /\ pc = "walk" /\ todo = {}
  /\ Goto(IF History THEN "list" ELSE "done")
  /\ UNCHANGED <<world, todo, item, need, found, pipes, open, child, scanned, trouble>>

\* _history_object_ids, then the start of git cat-file --batch.
List ==
  /\ pc = "list"
  /\ \/ /\ todo' = there \cap Blobs /\ UNCHANGED <<found, trouble>>
        /\ IF todo' = {} THEN Goto("done") /\ UNCHANGED <<git, open>>
           ELSE Goto("write") /\ git' = "idle" /\ open' = TRUE
     \/ Fails /\ Goto("done") /\ UNCHANGED <<todo, git, open>>
  /\ UNCHANGED <<world, item, need, pipes, sending, scanned>>

\* Mutant: all requests are sent before the first answer is read.
Write_AllFirst ==
  /\ pc = "write" /\ Alive /\ Len(down) < PipeSize
  /\ \E b \in todo : /\ todo' = todo \ {b} /\ down' = Append(down, b)
                     /\ item' = b
  /\ Goto(IF todo' = {} THEN "header" ELSE "write")
  /\ UNCHANGED <<world, need, found, up, open, child, scanned, trouble>>

\* One request is sent; the next waits for the whole answer to this one.
Write ==
  /\ pc = "write" /\ Alive /\ Len(down) < PipeSize
  /\ \E b \in todo : todo' = todo \ {b} /\ down' = Append(down, b) /\ item' = b
  /\ Goto("header")
  /\ UNCHANGED <<world, need, found, up, open, child, scanned, trouble>>

\* ScanFailure or OSError: nothing more is read, the scan is incomplete.
Abandon ==
  /\ found' = TRUE /\ Goto("finally")
  /\ UNCHANGED <<todo, item, need, up, scanned, trouble>>

\* Here the exception also escapes the finally clause, which flushes the pipe again:
\* the tool ends with a traceback and status 1 instead of a report.
BrokenPipe ==
  /\ pc = "write" /\ ~ Alive /\ Abandon
  /\ UNCHANGED <<world, down, open, child>>

\* readline or read returns less than it should: ended early, or truncated.
EndOfStream ==
  /\ pc = "header" \/ (pc = "content" /\ need > 0)
  /\ up = <<>> /\ ~ Alive /\ Abandon
  /\ UNCHANGED <<world, down, open, child>>

Header ==
  /\ pc = "header" /\ up # <<>>
  /\ IF Head(up) = "header"
       THEN /\ up' = Tail(up) /\ need' = Size /\ Goto("content")
            /\ UNCHANGED <<todo, item, found, scanned, trouble>>
       ELSE Abandon
  /\ UNCHANGED <<world, down, open, child>>

\* Mutant: the newline after the content is left in the pipe.
Content_NoNewline ==
  /\ pc = "content" /\ up # <<>>
  /\ up' = Tail(up)
  /\ IF need > 1 THEN need' = need - 1 /\ UNCHANGED <<pc, item, found, scanned>>
     ELSE /\ need' = 0 /\ item' = None /\ scanned' = scanned \cup {item}
          /\ found' = (found \/ item \in dirty)
          /\ Goto(IF todo = {} THEN "close" ELSE "write")
  /\ UNCHANGED <<world, todo, down, open, child, trouble>>

\* The content, then the newline, whose absence nobody notices; then the blob is
\* examined.
Content ==
  /\ pc = "content"
  /\ \/ up # <<>> /\ up' = Tail(up)
     \/ up = <<>> /\ ~ Alive /\ need = 0 /\ UNCHANGED up
  /\ IF need > 0 THEN need' = need - 1 /\ UNCHANGED <<pc, item, found, scanned>>
     ELSE /\ item' = None /\ scanned' = scanned \cup {item}
          /\ found' = (found \/ item \in dirty)
          /\ Goto(IF todo = {} THEN "close" ELSE "write")
          /\ UNCHANGED need
  /\ UNCHANGED <<world, todo, down, open, child, trouble>>

\* The pipe is closed; git has 30 seconds to end, and must end well.
Close ==
  /\ pc = "close" /\ open' = FALSE /\ Goto("wait")
  /\ UNCHANGED <<world, todo, item, need, found, pipes, child, scanned, trouble>>

Wait ==
  /\ pc = "wait"
  /\ \/ git = "exited" /\ Goto("finally") /\ UNCHANGED <<found, trouble>>
     \/ git # "exited" /\ Fails /\ Goto("finally")  \* a bad status, or the timeout
  /\ UNCHANGED <<world, todo, item, need, pipes, open, child, scanned>>

\* Mutant: git is left to itself.
Finally_NoKill ==
  /\ pc = "finally" /\ open' = FALSE /\ Goto("done")
  /\ UNCHANGED <<world, todo, item, need, found, pipes, child, scanned, trouble>>

\* Both pipes are closed, git is killed unless it ended, and waited for.
Finally ==
  /\ pc = "finally" /\ open' = FALSE /\ Goto("done")
  /\ git' = IF Alive THEN "failed" ELSE git
  /\ sending' = <<>> /\ down' = <<>> /\ up' = <<>>
  /\ UNCHANGED <<world, todo, item, need, found, scanned, trouble>>

Scanner == \/ Tracked \/ NoWalk \/ Look \/ Read \/ WalkDone \/ List \/ Write \/ BrokenPipe
           \/ EndOfStream \/ Header \/ Content \/ Close \/ Wait \/ Finally

-----------------------------------------------------------------------------
(* git cat-file --batch.                                                    *)

Take ==
  /\ git = "idle" /\ down # <<>>
  /\ down' = Tail(down) /\ git' = "busy"
  /\ IF Head(down) \in there
       THEN sending' = <<"header">> \o [i \in 1..Size |-> "content"] \o <<"newline">>
            /\ UNCHANGED trouble
       ELSE sending' = <<"missing">> /\ trouble' = TRUE
  /\ UNCHANGED <<world, pc, todo, item, need, found, up, open, scanned>>

Send ==
  /\ git = "busy" /\ Len(up) < PipeSize
  /\ up' = Append(up, Head(sending)) /\ sending' = Tail(sending)
  /\ git' = IF Len(sending) = 1 THEN "idle" ELSE "busy"
  /\ UNCHANGED <<world, pc, todo, item, need, found, down, open, scanned, trouble>>

GitEnds ==
  /\ git = "idle" /\ ~ open /\ down = <<>> /\ pc = "wait"
  /\ git' = "exited"
  /\ UNCHANGED <<world, pc, todo, item, need, found, pipes, open, sending, scanned, trouble>>

GitDies ==
  /\ Alive /\ git' = "failed" /\ sending' = <<>> /\ trouble' = TRUE
  /\ UNCHANGED <<world, pc, todo, item, need, found, pipes, open, scanned>>

\* A file is deleted, or an object pruned or repacked.
Vanish ==
  /\ pc # "done"
  /\ \E x \in there : there' = there \ {x}
  /\ UNCHANGED <<dirty, pc, todo, item, need, found, pipes, open, child, scanned, trouble>>

Git  == Take \/ Send \/ GitEnds
Next == Scanner \/ Git \/ GitDies \/ Vanish

Spec == Init /\ [][Next]_vars
\* The kernel runs both processes; nobody owes a death or a deletion.
FairSpec == Spec /\ WF_vars(Scanner) /\ WF_vars(Git)

-----------------------------------------------------------------------------
\* Types; the pipes hold what they can hold, and are empty between two blobs.
TypeOK ==
  /\ dirty \subseteq Items /\ there \subseteq Items /\ todo \subseteq Items
  /\ pc \in {"tracked", "noWalk", "walk", "read", "list", "write", "header", "content", "close",
             "wait", "finally", "done"}
  /\ item \in Items \cup {None} /\ need \in 0..Size
  /\ found \in BOOLEAN /\ trouble \in BOOLEAN /\ open \in BOOLEAN /\ scanned \subseteq Items
  /\ git \in {"none", "idle", "busy", "exited", "failed"}
  /\ down \in Seq(Blobs) /\ Len(down) <= PipeSize
  /\ up \in Seq(Pieces) /\ Len(up) <= PipeSize /\ sending \in Seq(Pieces)
  /\ pc \in {"header", "content"} => item \in Blobs
  /\ pc = "write" => down = <<>> /\ up = <<>>

\* "Privacy scan passed" is said only when every file and, with the history, every
\* blob that is still there was examined and found clean.
CleanMeansScanned ==
  pc = "done" /\ ~ found =>
    \A x \in there : (x \in Files \/ History) => x \in scanned \ dirty

\* Nothing is reported of a clean repository unless something vanished, failed or
\* died during the scan: requests and answers never get out of step.
AlarmForCause == found => trouble \/ dirty # {}

\* No git process outlives the scan, however it ended.
ChildReaped == pc = "done" => ~ Alive

\* The scan ends: neither process waits for the other with both pipes full.
ScanEnds == <>(pc = "done")
=============================================================================
