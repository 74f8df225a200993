---------------------------- MODULE RepoScanProofs ----------------------------
(* Proofs about RepoScan: what the report of a clean scan is worth, and that the  *)
(* scan neither stands still nor goes on for ever, whatever the files, the blobs, *)
(* the pipes and whoever changes the repository meanwhile.                        *)
EXTENDS RepoScan, SequenceTheorems, FiniteSetTheorems, TLAPS

\* The places of the scanner before and after the working tree was walked.
BeforeGit == {"tracked", "noWalk", "walk", "read", "list"}
AtBlobs   == {"list", "write", "header", "content", "close", "wait", "finally", "done"}

\* What the scanner has in hand.
InHand == IF pc \in {"read", "header", "content"} THEN {item} ELSE {}

\* As long as nothing is reported, nothing examined was dirty, and every file that is
\* there was examined, or is in the list, or in hand.
FilesAccounted ==
  ~ found =>
    /\ scanned \cap dirty = {}
    /\ pc \in {"walk", "read"} => there \cap Files \subseteq scanned \cup todo \cup InHand
    /\ pc \in AtBlobs => there \cap Files \subseteq scanned

\* The same of the blobs, from their enumeration to the end.
BlobsAccounted ==
  ~ found /\ History =>
    /\ pc \in {"write", "header", "content"} =>
         there \cap Blobs \subseteq scanned \cup todo \cup InHand
    /\ pc \in {"close", "wait", "finally", "done"} => there \cap Blobs \subseteq scanned

\* git runs only between its start and the finally clause.
GitBetween == pc \in BeforeGit \cup {"done"} => ~ Alive

\* The parts of the strengthening; the walk hands over to the history only if asked.
ScanInv == FilesAccounted /\ BlobsAccounted /\ GitBetween /\ (there \subseteq Items)

\* Every step of the scanner, of git, and of the world around them keeps the account.
LEMMA ScanInvariant == Spec => []ScanInv
<1>1. Init => ScanInv
  BY DEF Init, ScanInv, FilesAccounted, BlobsAccounted, GitBetween, AtBlobs, BeforeGit, Alive,
         Items
<1>2. ScanInv /\ [Next]_vars => ScanInv'
  <2> SUFFICES ASSUME ScanInv, [Next]_vars PROVE ScanInv'
    OBVIOUS
  <2> USE DEF ScanInv, FilesAccounted, BlobsAccounted, GitBetween, AtBlobs, BeforeGit, InHand,
              Alive, Goto, world, pipes, child
  <2>1. CASE Tracked
    BY <2>1 DEF Tracked, Fails
  <2>2. CASE NoWalk
    BY <2>2 DEF NoWalk, Fails
  <2>3. CASE Look
    BY <2>3 DEF Look
  <2>4. CASE Read
    BY <2>4 DEF Read, Fails
  <2>5. CASE WalkDone
    BY <2>5 DEF WalkDone
  <2>6. CASE List
    BY <2>6 DEF List, Fails
  <2>7. CASE Write
    BY <2>7 DEF Write
  <2>8. CASE BrokenPipe \/ EndOfStream
    BY <2>8 DEF BrokenPipe, EndOfStream, Abandon
  <2>9. CASE Header
    BY <2>9 DEF Header, Abandon
  <2>10. CASE Content
    BY <2>10 DEF Content
  <2>11. CASE Close
    BY <2>11 DEF Close
  <2>12. CASE Wait
    BY <2>12 DEF Wait, Fails
  <2>13. CASE Finally
    BY <2>13 DEF Finally
  <2>14. CASE Git \/ GitDies
    BY <2>14 DEF Git, Take, Send, GitEnds, GitDies
  <2>15. CASE Vanish
    BY <2>15 DEF Vanish
  <2>16. CASE UNCHANGED vars
    BY <2>16 DEF vars
  <2> QED
    BY <2>1, <2>2, <2>3, <2>4, <2>5, <2>6, <2>7, <2>8, <2>9, <2>10, <2>11, <2>12, <2>13,
       <2>14, <2>15, <2>16 DEF Next, Scanner
<1> QED
  BY <1>1, <1>2, PTL DEF Spec

\* "Privacy scan passed" (_print_report) means that every file and blob still there was
\* examined and clean.
THEOREM PassedMeansScanned == Spec => []CleanMeansScanned
<1>1. ScanInv => CleanMeansScanned
  BY DEF ScanInv, FilesAccounted, BlobsAccounted, AtBlobs, CleanMeansScanned, Items
<1> QED
  BY <1>1, ScanInvariant, PTL

\* However scan_repository ends, no git process outlives it (the finally clause).
THEOREM GitReaped == Spec => []ChildReaped
<1>1. ScanInv => ChildReaped
  BY DEF ScanInv, GitBetween, ChildReaped
<1> QED
  BY <1>1, ScanInvariant, PTL

\* Where the two processes are within an answer: its pieces in order, and how many of
\* them the scanner has taken.
Answer(i) == IF i = 1 THEN "header" ELSE IF i <= Size + 1 THEN "content" ELSE "newline"
Taken     == IF pc = "header" THEN 0 ELSE Size + 1 - need

\* What is on its way is the rest of one answer, all of it unless git died meanwhile.
Answering ==
  /\ down = <<>>
  /\ \A i \in 1..Len(up) : up[i] = Answer(Taken + i)
  /\ \A i \in 1..Len(sending) : sending[i] = Answer(Taken + Len(up) + i)
  /\ Taken + Len(up) + Len(sending) <= Size + 2
  /\ Alive => Taken + Len(up) + Len(sending) = Size + 2

\* Or the request is, or the one piece that says the object is gone, unless git died.
Asked   == Len(down) = 1 /\ up = <<>> /\ sending = <<>>
Missing == /\ trouble /\ down = <<>> /\ Len(up) + Len(sending) <= 1
           /\ Alive => Len(up) + Len(sending) = 1
           /\ \A i \in 1..Len(up) : up[i] = "missing"
           /\ \A i \in 1..Len(sending) : sending[i] = "missing"

\* Requests and answers are in step, and git is dead for a reason.
InStep ==
  /\ git = "busy" <=> sending # <<>>
  /\ pc \in BeforeGit => git = "none"
  /\ git = "none" => pc \in BeforeGit \cup {"done"} /\ down = <<>> /\ up = <<>>
  /\ git = "exited" => pc \in {"wait", "finally", "done"}
  /\ git = "failed" /\ pc # "done" => trouble
  /\ pc \in {"write", "close", "wait"} => down = <<>> /\ up = <<>> /\ sending = <<>>
  /\ pc \in {"write", "header", "content"} => todo \subseteq Blobs
  /\ pc = "header" => Asked \/ Missing \/ Answering
  /\ pc = "content" => Answering

PipesInv == TypeOK /\ InStep /\ AlarmForCause

\* What a pipe holds after a piece is taken off its head, or put at its end.
LEMMA Popped ==
  ASSUME NEW S, NEW s \in Seq(S), s # <<>>
  PROVE  /\ Len(s) \in Nat \ {0} /\ Head(s) = s[1] /\ s[1] \in S /\ Tail(s) \in Seq(S)
         /\ Len(Tail(s)) = Len(s) - 1 /\ \A i \in 1..Len(s) - 1 : Tail(s)[i] = s[i + 1]
         /\ Tail(s) = <<>> <=> Len(s) = 1
  <1>1. Tail(s) \in Seq(S) /\ Len(Tail(s)) = Len(s) - 1
    BY HeadTailProperties
  <1>2. Len(s) \in Nat \ {0} /\ Head(s) = s[1] /\ s[1] \in S
    BY EmptySeq, LenProperties
  <1>3. \A i \in 1..Len(s) - 1 : Tail(s)[i] = s[i + 1]
    BY <1>1, HeadTailProperties
  <1>4. Tail(s) = <<>> <=> Len(Tail(s)) = 0
    BY <1>1, EmptySeq
  <1> QED BY <1>1, <1>2, <1>3, <1>4

LEMMA Pushed ==
  ASSUME NEW S, NEW s \in Seq(S), NEW e \in S
  PROVE  /\ Len(s) \in Nat /\ Append(s, e) \in Seq(S) /\ Append(s, e) # <<>>
         /\ Len(Append(s, e)) = Len(s) + 1 /\ Append(s, e)[Len(s) + 1] = e
         /\ \A i \in 1..Len(s) : Append(s, e)[i] = s[i]
  BY AppendProperties

\* git's answer to a request for an object it has.
LEMMA Answered ==
  ASSUME ScanAssumption,
         NEW s, s = <<"header">> \o [i \in 1..Size |-> "content"] \o <<"newline">>
  PROVE  s \in Seq(Pieces) /\ Len(s) = Size + 2 /\ \A i \in 1..Size + 2 : s[i] = Answer(i)
  BY DEF ScanAssumption, Pieces, Answer

\* When a blob was read to its end, nothing is left between the two processes.
LEMMA NothingLeft ==
  ASSUME ScanAssumption, PipesInv, Content, pc' # "content"
  PROVE  down' = <<>> /\ up' = <<>> /\ sending' = <<>> /\ need = 0
  <1>1. pc = "content" /\ Answering /\ need = 0 /\ Taken = Size + 1 /\ UNCHANGED <<down, sending>>
    BY DEF Content, PipesInv, TypeOK, InStep, Taken, Goto, child
  <1>2. Len(up) \in Nat /\ Len(sending) \in Nat /\ Len(up) + Len(sending) <= 1
    BY <1>1 DEF PipesInv, TypeOK, Answering, ScanAssumption
  <1>3. CASE up # <<>>
    <2>1. Len(up) = 1 /\ Len(sending) = 0 /\ up' = Tail(up)
      <3>1. Len(up) # 0
        BY <1>3, EmptySeq DEF PipesInv, TypeOK
      <3>2. up' = Tail(up)
        BY <1>3 DEF Content
      <3> QED BY <1>2, <3>1, <3>2
    <2>2. up' = <<>> /\ sending = <<>>
      BY <1>3, <2>1, Popped, EmptySeq DEF PipesInv, TypeOK
    <2> QED BY <1>1, <2>2 DEF Answering
  <1>4. CASE up = <<>>
    BY <1>1, <1>4 DEF Content, Answering, PipesInv, InStep, Alive
  <1> QED BY <1>3, <1>4

\* Types after each step.
LEMMA TypesStep == ASSUME ScanAssumption, PipesInv, [Next]_vars PROVE TypeOK'
  <1> USE DEF PipesInv, TypeOK, Goto
  <1>1. CASE Tracked \/ NoWalk \/ Look \/ Read \/ WalkDone
    BY <1>1 DEF Tracked, NoWalk, Look, Read, WalkDone, InStep, BeforeGit, Fails, Items, world, pipes,
                child
  <1>2. CASE List \/ Close \/ Wait
    BY <1>2 DEF List, Close, Wait, InStep, BeforeGit, Fails, Items, world, pipes, child
  <1>3. CASE Write
    <2>1. PICK b \in todo : todo' = todo \ {b} /\ down' = Append(down, b) /\ item' = b
      BY <1>3 DEF Write
    <2>2. b \in Blobs
      BY <1>3 DEF Write, InStep
    <2>3. down' \in Seq(Blobs) /\ Len(down') <= PipeSize
      BY <1>3, <2>1, <2>2, Pushed DEF Write, ScanAssumption
    <2> QED BY <1>3, <2>1, <2>2, <2>3 DEF Write, Items, world, child
  <1>4. CASE BrokenPipe \/ EndOfStream
    BY <1>4 DEF BrokenPipe, EndOfStream, Abandon, world, child
  <1>5. CASE Header
    <2>1. Tail(up) \in Seq(Pieces) /\ Len(Tail(up)) <= PipeSize
      BY <1>5, Popped DEF Header, ScanAssumption
    <2>2. up' \in Seq(Pieces) /\ Len(up') <= PipeSize
      BY <1>5, <2>1 DEF Header, Abandon
    <2>3. need' \in 0..Size
      BY <1>5 DEF Header, Abandon, ScanAssumption
    <2>4. found' \in BOOLEAN /\ pc' \in {"content", "finally"}
      BY <1>5 DEF Header, Abandon
    <2> QED BY <1>5, <2>2, <2>3, <2>4 DEF Header, Abandon, world, child
  <1>6. CASE Content
    <2>1. up # <<>> => Tail(up) \in Seq(Pieces) /\ Len(Tail(up)) <= PipeSize
      BY Popped DEF ScanAssumption
    <2>2. up' \in Seq(Pieces) /\ Len(up') <= PipeSize
      BY <1>6, <2>1 DEF Content
    <2>3. pc' = "write" => down' = <<>> /\ up' = <<>>
      BY <1>6, NothingLeft
    <2>4. need' \in 0..Size
      BY <1>6 DEF Content, ScanAssumption
    <2>5. found' \in BOOLEAN /\ scanned' \subseteq Items /\ pc' \in {"content", "close", "write"}
      BY <1>6 DEF Content, Items
    <2> QED BY <1>6, <2>2, <2>3, <2>4, <2>5 DEF Content, world, child
  <1>7. CASE Finally
    <2>1. <<>> \in Seq(Blobs) /\ <<>> \in Seq(Pieces) /\ Len(<<>>) <= PipeSize
      BY EmptySeq DEF ScanAssumption
    <2> QED BY <1>7, <2>1 DEF Finally, world
  <1>8. CASE Take
    <2>1. down' \in Seq(Blobs) /\ Len(down') <= PipeSize
      BY <1>8, Popped DEF Take, ScanAssumption
    <2>2. sending' \in Seq(Pieces)
      <3>1. <<"missing">> \in Seq(Pieces)
        BY DEF Pieces
      <3> QED BY <1>8, <3>1, Answered DEF Take
    <2>3. pc # "write"
      BY <1>8 DEF Take
    <2> QED BY <1>8, <2>1, <2>2, <2>3 DEF Take, world
  <1>9. CASE Send
    <2>1. sending # <<>> /\ pc # "write"
      BY <1>9 DEF Send, InStep
    <2>2. sending' \in Seq(Pieces) /\ Head(sending) \in Pieces
      BY <1>9, <2>1, Popped DEF Send
    <2>3. up' \in Seq(Pieces) /\ Len(up') <= PipeSize
      BY <1>9, <2>2, Pushed DEF Send, ScanAssumption
    <2> QED BY <1>9, <2>1, <2>2, <2>3 DEF Send, world
  <1>10. CASE GitEnds \/ GitDies \/ Vanish
    <2>1. <<>> \in Seq(Pieces)
      BY EmptySeq
    <2> QED BY <1>10, <2>1 DEF GitEnds, GitDies, Vanish, Items, world, pipes, child
  <1>11. CASE UNCHANGED vars
    BY <1>11 DEF vars, world, pipes, child
  <1> QED BY <1>1, <1>2, <1>3, <1>4, <1>5, <1>6, <1>7, <1>8, <1>9, <1>10, <1>11
          DEF Next, Scanner, Git

\* Requests and answers stay in step.
LEMMA InStepStep == ASSUME ScanAssumption, PipesInv, [Next]_vars PROVE InStep'
  <1> USE DEF PipesInv, InStep, BeforeGit, Goto, Alive
  <1>1. CASE Tracked \/ NoWalk \/ Look \/ Read \/ WalkDone
    BY <1>1 DEF Tracked, NoWalk, Look, Read, WalkDone, Fails, TypeOK, world, pipes, child
  <1>2. CASE List \/ Close \/ Wait
    BY <1>2 DEF List, Close, Wait, Fails, TypeOK, world, pipes, child
  <1>3. CASE Write
    <2>1. PICK b \in todo : down' = <<b>>
      BY <1>3 DEF Write
    <2> QED BY <1>3, <2>1 DEF Write, Asked, world, child
  <1>4. CASE BrokenPipe \/ EndOfStream
    BY <1>4 DEF BrokenPipe, EndOfStream, Abandon, TypeOK, world, child
  <1>5. CASE Header
    <2>1. CASE Head(up) = "header"
      <3>1. Answering /\ Taken = 0
        BY <1>5, <2>1, Popped DEF Header, Asked, Missing, Taken, TypeOK
      <3>2. Taken' = 1 /\ Len(up') = Len(up) - 1 /\ \A i \in 1..Len(up') : up'[i] = up[i + 1]
        <4>1. up \in Seq(Pieces) /\ up # <<>> /\ up' = Tail(up)
          BY <1>5, <2>1 DEF Header, TypeOK
        <4>2. Len(up') = Len(up) - 1 /\ \A i \in 1..Len(up') : up'[i] = up[i + 1]
          BY <4>1, Popped
        <4>3. Taken' = 1
          BY <1>5, <2>1 DEF Header, Taken, ScanAssumption
        <4> QED BY <4>2, <4>3
      <3>3. Answering'
        BY <1>5, <2>1, <3>1, <3>2, Popped, EmptySeq
           DEF Header, Answering, Answer, TypeOK, ScanAssumption, child
      <3> QED BY <1>5, <2>1, <3>3 DEF Header, world, child
    <2>2. CASE Head(up) # "header"
      BY <1>5, <2>2 DEF Header, Abandon, TypeOK, world, child
    <2> QED BY <2>1, <2>2
  <1>6. CASE Content
    <2>1. CASE pc' = "content"
      <3>1. need > 0 /\ need' = need - 1 /\ up # <<>> /\ up' = Tail(up) /\ UNCHANGED child
        BY <1>6, <2>1 DEF Content, TypeOK
      <3>2. Taken' = Taken + 1 /\ Len(up') = Len(up) - 1
            /\ \A i \in 1..Len(up') : up'[i] = up[i + 1]
        BY <1>6, <2>1, <3>1, Popped DEF Content, Taken, TypeOK, ScanAssumption
      <3>3. Answering'
        <4>1. Taken \in Nat /\ Len(up) \in Nat \ {0} /\ Len(sending) \in Nat /\ Size \in Nat
          BY <1>6, <3>1, Popped DEF Content, Taken, TypeOK, ScanAssumption
        <4>2. Answering /\ UNCHANGED <<down, sending, git>>
          BY <1>6, <3>1 DEF Content, child
        <4>3. \A i \in 1..Len(up') : up'[i] = Answer(Taken' + i)
          BY <3>2, <4>1, <4>2 DEF Answering
        <4>4. \A i \in 1..Len(sending') : sending'[i] = Answer(Taken' + Len(up') + i)
          BY <3>2, <4>1, <4>2 DEF Answering
        <4> QED BY <3>2, <4>1, <4>2, <4>3, <4>4 DEF Answering
      <3> QED BY <1>6, <2>1, <3>3 DEF Content, world, child
    <2>2. CASE pc' # "content"
      BY <1>6, <2>2, NothingLeft DEF Content, world, child
    <2> QED BY <2>1, <2>2
  <1>7. CASE Finally
    BY <1>7 DEF Finally, TypeOK
  <1>8. CASE Take
    <2>1. pc \notin {"write", "close", "wait", "content"} \cup BeforeGit /\ git' = "busy"
      BY <1>8 DEF Take, Answering
    <2>2. sending' # <<>>
      BY <1>8, Answered, EmptySeq DEF Take, ScanAssumption
    <2>3. CASE pc = "header"
      <3>1. Len(down) = 1 /\ up = <<>> /\ down' = <<>>
        BY <1>8, <2>3, Popped DEF Take, Asked, Missing, Answering, TypeOK
      <3>2. Missing' \/ Answering'
        <4>1. CASE Head(down) \in there
          <5>1. Len(sending') = Size + 2 /\ \A i \in 1..Size + 2 : sending'[i] = Answer(i)
            BY <1>8, <4>1, Answered DEF Take
          <5> QED BY <1>8, <2>3, <3>1, <5>1, EmptySeq DEF Take, Answering, Taken, ScanAssumption
        <4>2. CASE Head(down) \notin there
          <5>1. Len(<<"missing">>) = 1 /\ <<"missing">>[1] = "missing" /\ Len(<<>>) = 0
            OBVIOUS
          <5>2. sending' = <<"missing">> /\ up' = <<>> /\ trouble' /\ down' = <<>>
            BY <1>8, <3>1, <4>2 DEF Take
          <5> QED BY <5>1, <5>2 DEF Missing
        <4> QED BY <4>1, <4>2
      <3> QED BY <1>8, <2>2, <2>3, <3>2 DEF Take, world
    <2> QED BY <1>8, <2>1, <2>2, <2>3 DEF Take, world
  <1>9. CASE Send
    <2>1. /\ sending # <<>> /\ Len(sending) \in Nat \ {0} /\ Len(up) \in Nat
          /\ Len(sending') = Len(sending) - 1 /\ Len(up') = Len(up) + 1
          /\ \A i \in 1..Len(sending') : sending'[i] = sending[i + 1]
          /\ \A i \in 1..Len(up) : up'[i] = up[i]
          /\ up'[Len(up) + 1] = sending[1]
          /\ (sending' = <<>>) <=> Len(sending) = 1
      BY <1>9, Popped, Pushed DEF Send, TypeOK
    <2>2. pc = "header" => Missing' \/ Answering'
      <3>1. CASE pc = "header" /\ Missing
        BY <1>9, <2>1, <3>1 DEF Send, Missing
      <3>2. CASE pc = "header" /\ Answering
        BY <1>9, <2>1, <3>2 DEF Send, Answering, Taken, ScanAssumption
      <3> QED BY <1>9, <2>1, <3>1, <3>2 DEF Send, Asked
    <2>3. pc = "content" => Answering'
      <3> SUFFICES ASSUME pc = "content" PROVE Answering'
        OBVIOUS
      <3>1. Answering /\ UNCHANGED <<down, pc, need>> /\ Alive' /\ Taken' = Taken /\ Taken \in Int
        BY <1>9 DEF Send, Taken, TypeOK, ScanAssumption
      <3>2. \A i \in 1..Len(up') : up'[i] = Answer(Taken' + i)
        <4>1. up'[Len(up) + 1] = Answer(Taken + (Len(up) + 1))
          BY <2>1, <3>1 DEF Answering
        <4>2. \A i \in 1..Len(up) : up'[i] = Answer(Taken + i)
          BY <2>1, <3>1 DEF Answering
        <4> QED BY <2>1, <3>1, <4>1, <4>2
      <3>3. \A i \in 1..Len(sending') : sending'[i] = Answer(Taken' + Len(up') + i)
        <4> SUFFICES ASSUME NEW i \in 1..Len(sending')
                     PROVE  sending'[i] = Answer(Taken' + Len(up') + i)
          OBVIOUS
        <4>1. i + 1 \in 1..Len(sending) /\ sending'[i] = sending[i + 1]
          BY <2>1
        <4>2. sending[i + 1] = Answer(Taken + Len(up) + (i + 1))
          BY <3>1, <4>1 DEF Answering
        <4>3. Taken + Len(up) + (i + 1) = Taken' + Len(up') + i
          BY <2>1, <3>1
        <4> QED BY <4>1, <4>2, <4>3
      <3> QED BY <1>9, <2>1, <3>1, <3>2, <3>3 DEF Send, Answering
    <2> QED BY <1>9, <2>1, <2>2, <2>3 DEF Send, world
  <1>10. CASE GitEnds
    BY <1>10 DEF GitEnds, TypeOK, world, pipes, child
  <1>11. CASE GitDies
    BY <1>11, EmptySeq DEF GitDies, Asked, Missing, Answering, Taken, TypeOK, ScanAssumption, world,
       pipes
  <1>12. CASE Vanish
    BY <1>12 DEF Vanish, Asked, Missing, Answering, Taken, world, pipes, child
  <1>13. CASE UNCHANGED vars
    BY <1>13 DEF vars, Asked, Missing, Answering, Taken, world, pipes, child
  <1> QED BY <1>1, <1>2, <1>3, <1>4, <1>5, <1>6, <1>7, <1>8, <1>9, <1>10, <1>11, <1>12, <1>13
          DEF Next, Scanner, Git

\* Whatever is reported had a cause.
LEMMA CauseStep == ASSUME ScanAssumption, PipesInv, [Next]_vars PROVE AlarmForCause'
  <1> USE DEF PipesInv, InStep, BeforeGit, AlarmForCause, Goto, Fails, Alive, TypeOK, world
  <1>1. CASE Tracked \/ NoWalk \/ Look \/ Read \/ WalkDone
    BY <1>1 DEF Tracked, NoWalk, Look, Read, WalkDone
  <1>2. CASE List \/ Write \/ Close \/ Wait \/ Finally
    BY <1>2 DEF List, Write, Close, Wait, Finally
  <1>3. CASE BrokenPipe \/ EndOfStream
    BY <1>3 DEF BrokenPipe, EndOfStream, Abandon
  <1>4. CASE Header
    <2>1. Head(up) # "header" => trouble
      BY <1>4 DEF Header, Asked, Missing, Answering, Taken, Answer
    <2> QED BY <1>4, <2>1 DEF Header, Abandon
  <1>5. CASE Content
    BY <1>5 DEF Content
  <1>6. CASE Git \/ GitDies \/ Vanish
    BY <1>6 DEF Git, Take, Send, GitEnds, GitDies, Vanish
  <1>7. CASE UNCHANGED vars
    BY <1>7 DEF vars
  <1> QED BY <1>1, <1>2, <1>3, <1>4, <1>5, <1>6, <1>7 DEF Next, Scanner

\* Every behaviour keeps the pipes in step.
LEMMA PipesInvariant == ASSUME ScanAssumption PROVE Spec => []PipesInv
<1>1. Init => PipesInv
  <2> SUFFICES ASSUME Init PROVE PipesInv
    OBVIOUS
  <2>1. <<>> \in Seq(Blobs) /\ <<>> \in Seq(Pieces) /\ Len(<<>>) <= PipeSize /\ 0 \in 0..Size
    BY EmptySeq DEF ScanAssumption
  <2>2. TypeOK
    BY <2>1 DEF Init, TypeOK, Items
  <2>3. InStep /\ AlarmForCause
    BY DEF Init, InStep, BeforeGit, AlarmForCause, Alive
  <2> QED BY <2>2, <2>3 DEF PipesInv
<1>2. PipesInv /\ [Next]_vars => PipesInv'
  BY TypesStep, InStepStep, CauseStep DEF PipesInv
<1> QED
  BY <1>1, <1>2, PTL DEF Spec

\* Types; the pipes hold no more than they can, and nothing between two blobs
\* (_iter_git_blobs).
THEOREM TypesKept == ASSUME ScanAssumption PROVE Spec => []TypeOK
<1>1. PipesInv => TypeOK
  BY DEF PipesInv
<1> QED
  BY <1>1, PipesInvariant, PTL

\* "Scan incomplete" is never said of a clean repository in which nothing vanished,
\* failed or died, whatever fits into the pipes (scan_repository).
THEOREM AlarmsHaveCause == ASSUME ScanAssumption PROVE Spec => []AlarmForCause
<1>1. PipesInv => AlarmForCause
  BY DEF PipesInv
<1> QED
  BY <1>1, PipesInvariant, PTL

-----------------------------------------------------------------------------
(* What can be proved of the end of the scan: nobody waits for ever, and every   *)
(* step counts.                                                                  *)

\* The scanner is in flush with a full pipe, or in readline or read with an empty one.
ScannerWaits ==
  /\ Alive
  /\ \/ pc = "write" /\ Len(down) = PipeSize
     \/ pc \in {"header", "content"} /\ up = <<>>

\* git reads from an empty pipe, or writes to a full one.
GitWaits == \/ git = "idle" /\ down = <<>>
            \/ git = "busy" /\ Len(up) = PipeSize

\* A scan that has started git never stands still, whatever fits into the pipes and
\* however large the blobs are: scanner and git never both wait (_iter_git_blobs
\* asks for one blob at a time and reads all of it).
THEOREM NeverBothWait == ASSUME ScanAssumption PROVE Spec => []~(ScannerWaits /\ GitWaits)
<1>1. PipesInv => ~(ScannerWaits /\ GitWaits)
  <2> SUFFICES ASSUME PipesInv, ScannerWaits PROVE ~ GitWaits
    OBVIOUS
  <2>1. /\ down \in Seq(Blobs) /\ up \in Seq(Pieces) /\ sending \in Seq(Pieces)
        /\ Size \in Nat /\ PipeSize \in Nat \ {0} /\ need \in 0 .. Size
        /\ git = "busy" <=> sending # <<>>
    BY DEF PipesInv, TypeOK, InStep, ScanAssumption
  <2>2. Len(<<>>) = 0 /\ (sending = <<>> => Len(sending) = 0)
    BY EmptySeq
  <2>3. pc \in {"header", "content"} /\ up = <<>> /\ Len(up) = 0
    BY <2>1, <2>2 DEF ScannerWaits, PipesInv, InStep
  <2>4. CASE Asked
    BY <2>1, <2>2, <2>4 DEF Asked, GitWaits
  <2>5. CASE Missing
    <3>1. sending # <<>>
      BY <2>1, <2>2, <2>3, <2>5 DEF Missing, ScannerWaits
    <3> QED
      BY <2>1, <2>3, <3>1 DEF GitWaits
  <2>6. CASE Answering
    <3>1. Taken \in 0 .. Size + 1 /\ Len(sending) = Size + 2 - Taken
      BY <2>1, <2>3, <2>6 DEF Answering, ScannerWaits, Taken
    <3>2. sending # <<>>
      BY <2>1, <2>2, <3>1
    <3> QED
      BY <2>1, <2>3, <3>2 DEF GitWaits
  <2> QED
    BY <2>3, <2>4, <2>5, <2>6 DEF PipesInv, InStep
<1> QED
  BY <1>1, PipesInvariant, PTL

\* How far the scan is from its end: the phase, the files or blobs of its list, where it
\* is with one of them, requests on their way, and pieces to be sent and read.
Phase == [tracked |-> 7, noWalk |-> 6, walk |-> 6, read |-> 6, list |-> 5, write |-> 4,
          header |-> 4, content |-> 4, close |-> 3, wait |-> 2, finally |-> 1, done |-> 0][pc]
Stage == IF pc = "header" THEN Size + 2 ELSE IF pc = "content" THEN need + 1
         ELSE IF pc = "read" THEN 1 ELSE 0
Pending   == 2 * Len(sending) + Len(up) + IF Alive THEN 1 ELSE 0
Remaining == <<Phase, Cardinality(todo), Stage, Len(down), Pending>>

\* The first number that differs is smaller.
Below(m, n) == \E i \in 1 .. 5 : m[i] < n[i] /\ \A j \in 1 .. i - 1 : m[j] = n[j]

\* Where they differ first.
LEMMA Compared ==
  ASSUME NEW m, NEW n,
         \/ m[1] < n[1] 
         \/ m[1] = n[1] /\ m[2] < n[2]
         \/ m[1] = n[1] /\ m[2] = n[2] /\ m[3] < n[3]
         \/ m[1] = n[1] /\ m[2] = n[2] /\ m[3] = n[3] /\ m[4] < n[4]
         \/ m[1] = n[1] /\ m[2] = n[2] /\ m[3] = n[3] /\ m[4] = n[4] /\ m[5] < n[5]
  PROVE  Below(m, n)
<1>1. /\ \A j \in 1 .. 1 - 1 : m[j] = n[j]
      /\ m[1] = n[1] => \A j \in 1 .. 2 - 1 : m[j] = n[j]
      /\ m[1] = n[1] /\ m[2] = n[2] => \A j \in 1 .. 3 - 1 : m[j] = n[j]
      /\ m[1] = n[1] /\ m[2] = n[2] /\ m[3] = n[3] => \A j \in 1 .. 4 - 1 : m[j] = n[j]
      /\ m[1] = n[1] /\ m[2] = n[2] /\ m[3] = n[3] /\ m[4] = n[4] => \A j \in 1 .. 5 - 1 : m[j] = n[j]
  OBVIOUS
<1>2. ASSUME NEW i \in 1 .. 5, m[i] < n[i], \A j \in 1 .. i - 1 : m[j] = n[j] PROVE Below(m, n)
  BY <1>2 DEF Below
<1> QED
  BY <1>1, <1>2

\* The five, one by one.
LEMMA Numbers ==
  /\ Remaining[1] = Phase /\ Remaining[2] = Cardinality(todo) /\ Remaining[3] = Stage
  /\ Remaining[4] = Len(down) /\ Remaining[5] = Pending
  /\ Remaining'[1] = Phase' /\ Remaining'[2] = Cardinality(todo)' /\ Remaining'[3] = Stage'
  /\ Remaining'[4] = Len(down)' /\ Remaining'[5] = Pending'
BY DEF Remaining

\* A list of files and blobs is finite.
LEMMA ListCounted ==
  ASSUME ScanAssumption, NEW S \in SUBSET Items
  PROVE  /\ IsFiniteSet(S) /\ Cardinality(S) \in Nat
         /\ \A x \in S : Cardinality(S \ {x}) < Cardinality(S)
<1>1. IsFiniteSet(Items)
  BY FS_Union DEF ScanAssumption, Items
<1>2. IsFiniteSet(S) /\ Cardinality(S) \in Nat
  BY <1>1, FS_Subset, FS_CardinalityType
<1>3. ASSUME NEW x \in S PROVE Cardinality(S \ {x}) < Cardinality(S)
  <2>1. Cardinality(S \ {x}) = Cardinality(S) - 1
    BY <1>2, FS_RemoveElement
  <2> QED
    BY <1>2, <2>1
<1> QED
  BY <1>2, <1>3

\* All five are natural numbers.
LEMMA RemainingTypes ==
  ASSUME ScanAssumption, PipesInv
  PROVE  /\ Phase \in 0 .. 7 /\ IsFiniteSet(todo) /\ Cardinality(todo) \in Nat
         /\ Stage \in Nat /\ Len(down) \in Nat /\ Pending \in Nat
<1>2. IsFiniteSet(todo) /\ Cardinality(todo) \in Nat
  BY ListCounted DEF PipesInv, TypeOK
<1>3. Len(down) \in Nat /\ Len(up) \in Nat /\ Len(sending) \in Nat
  BY DEF PipesInv, TypeOK
<1>4. Phase \in 0 .. 7
  BY DEF PipesInv, TypeOK, Phase
<1>5. Stage \in Nat /\ Pending \in Nat
  BY <1>3 DEF PipesInv, TypeOK, ScanAssumption, Stage, Pending
<1> QED
  BY <1>2, <1>3, <1>4, <1>5

\* Each step of the scanner.
LEMMA ScannerCounts ==
  ASSUME ScanAssumption, PipesInv, PipesInv', Scanner
  PROVE  Below(Remaining', Remaining)
<1> DEFINE N == Cardinality(todo)
<1>1. /\ Phase \in 0 .. 7 /\ IsFiniteSet(todo) /\ N \in Nat
      /\ Stage \in Nat /\ Size \in Nat /\ need \in 0 .. Size
  BY RemainingTypes DEF ScanAssumption, PipesInv, TypeOK
<1>3. ASSUME NEW x \in todo, todo' = todo \ {x} PROVE N' < N
  BY <1>3, ListCounted DEF PipesInv, TypeOK
<1>4. SUFFICES \/ Phase' < Phase \/ (Phase' = Phase /\ N' < N)
               \/ (Phase' = Phase /\ N' = N /\ Stage' < Stage)
  BY Numbers, Compared
<1> HIDE DEF N
<1>5. CASE Tracked \/ NoWalk \/ WalkDone
  BY <1>5 DEF Tracked, NoWalk, WalkDone, Goto, Phase
<1>6. CASE Look
  <2>1. PICK f \in todo : todo' = todo \ {f}
    BY <1>6 DEF Look
  <2>2. pc = "walk" /\ pc' \in {"walk", "read"}
    BY <1>6 DEF Look, Goto
  <2> QED
    BY <1>3, <2>1, <2>2 DEF Phase
<1>7. CASE Read
  BY <1>7 DEF Read, Goto, Phase, Stage, N
<1>8. CASE List \/ Close \/ Wait \/ Finally \/ BrokenPipe \/ EndOfStream
  BY <1>8 DEF List, Close, Wait, Finally, BrokenPipe, EndOfStream, Abandon, Goto, Phase
<1>9. CASE Write
  <2>1. PICK b \in todo : todo' = todo \ {b}
    BY <1>9 DEF Write
  <2> QED
    BY <1>3, <1>9, <2>1 DEF Write, Goto, Phase
<1>10. CASE Header
  BY <1>1, <1>10 DEF Header, Abandon, Goto, Phase, Stage, N
<1>11. CASE Content
  <2>1. pc = "content" /\ UNCHANGED todo /\ pc' \in {"content", "write", "close"}
        /\ (pc' = "content" => need' = need - 1)
    BY <1>11 DEF Content, Goto
  <2> QED
    BY <1>1, <2>1 DEF Phase, Stage, N
<1> QED
  BY <1>5, <1>6, <1>7, <1>8, <1>9, <1>10, <1>11 DEF Scanner

\* Each step of git, and what kills it.
LEMMA GitCounts ==
  ASSUME ScanAssumption, PipesInv, PipesInv', Git \/ GitDies \/ Vanish
  PROVE  /\ Git => Below(Remaining', Remaining)
         /\ Remaining' = Remaining \/ Below(Remaining', Remaining)
<1>1. /\ Len(down) \in Nat /\ Len(up) \in Nat /\ Len(sending) \in Nat /\ Pending \in Nat
      /\ down \in Seq(Blobs) /\ up \in Seq(Pieces) /\ sending \in Seq(Pieces)
      /\ (git = "busy" <=> sending # <<>>)
  BY RemainingTypes DEF PipesInv, TypeOK, InStep
<1>2. UNCHANGED <<pc, todo, need>>
  BY DEF Git, Take, Send, GitEnds, GitDies, Vanish
<1>3. Phase' = Phase /\ Cardinality(todo)' = Cardinality(todo) /\ Stage' = Stage
  BY <1>2 DEF Phase, Stage
<1>4. Len(down)' < Len(down) \/ (Len(down)' = Len(down) /\ Pending' < Pending)
        => Below(Remaining', Remaining)
  BY <1>3, Numbers, Compared
<1>5. CASE Take
  BY <1>1, <1>4, <1>5, Popped DEF Take
<1>6. CASE Send
  <2>1. Len(sending') = Len(sending) - 1 /\ Len(up') = Len(up) + 1
    BY <1>1, <1>6, Popped, Pushed DEF Send
  <2>2. Alive /\ Alive'
    BY <1>6 DEF Send, Alive
  <2>3. Pending' < Pending
    BY <1>1, <2>1, <2>2 DEF Pending
  <2> QED
    BY <1>4, <1>6, <2>3 DEF Send
<1>7. CASE GitEnds
  <2>1. Alive /\ ~ Alive' /\ UNCHANGED <<down, up, sending>>
    BY <1>7 DEF GitEnds, Alive, pipes
  <2>2. Pending' < Pending
    BY <1>1, <2>1 DEF Pending
  <2> QED
    BY <1>4, <2>1, <2>2
<1>8. CASE GitDies
  <2>1. Alive /\ ~ Alive' /\ UNCHANGED <<down, up>> /\ Len(sending') = 0
    BY <1>8, EmptySeq DEF GitDies, Alive, pipes
  <2>2. Pending' < Pending
    BY <1>1, <2>1 DEF Pending
  <2> QED
    BY <1>4, <2>1, <2>2
<1>9. CASE Vanish
  <2>1. UNCHANGED <<down, up, sending, git>> /\ ~ Git
    BY <1>9 DEF Vanish, Git, Take, Send, GitEnds, pipes, child, world
  <2>2. Remaining' = Remaining
    BY <1>3, <2>1 DEF Remaining, Pending, Alive
  <2> QED
    BY <2>1, <2>2
<1> QED
  BY <1>5, <1>6, <1>7, <1>8, <1>9 DEF Git

\* What a step does to the five numbers.
Counts == /\ Scanner \/ Git => Below(Remaining', Remaining)
          /\ GitDies \/ Vanish => Remaining' = Remaining \/ Below(Remaining', Remaining)

\* The scan cannot go on for ever: every step of the scanner and of git lowers the first
\* of five natural numbers that it changes, and neither a death of git nor a file or
\* object that goes away raises one (scan_repository; as scanner and git never both wait,
\* it ends as long as both run).
THEOREM EveryStepCounts ==
  ASSUME ScanAssumption
  PROVE  Spec => [](\A i \in 1 .. 5 : Remaining[i] \in Nat) /\ [][Counts]_vars
<1>1. PipesInv => \A i \in 1 .. 5 : Remaining[i] \in Nat
  <2> SUFFICES ASSUME PipesInv, NEW i \in 1 .. 5 PROVE Remaining[i] \in Nat
    OBVIOUS
  <2>1. \A j \in 1 .. 5 : j \in {1, 2, 3, 4, 5}
    OBVIOUS
  <2> QED
    BY <2>1, Numbers, RemainingTypes
<1>2. PipesInv /\ PipesInv' /\ [Next]_vars => [Counts]_vars
  BY ScannerCounts, GitCounts DEF Counts
<1> QED
  BY <1>1, <1>2, PipesInvariant, PTL DEF Spec
=============================================================================
