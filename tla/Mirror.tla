------------------------------- MODULE Mirror -------------------------------
(***************************************************************************)
(* The command that mirrors release images: the releases of the update     *)
(* graph that are new enough, and for each of them the goroutines that     *)
(* copy its images, fed through an unbuffered channel.                     *)
(***************************************************************************)
EXTENDS Naturals, Sequences, SequencesExt

CONSTANTS
  Copiers,    \* the goroutines: 10
  Nodes,      \* the graph: a sequence of [version, payload]
  Minimum,    \* Version{4, 3}
  Nightly,    \* the release that is always mirrored
  Tags,       \* of each payload: the sequence of the images it refers to
  NoImage

VARIABLES
  releases,       \* still to mirror, the one in work first
  toSend,         \* images that main has still to send
  mainPc,         \* "idle", "release", "send", "wait" or "done"
  copying,        \* of each copier: an image, NoImage, or "gone"
  closed,         \* the channel
  errorOccurred,  \* of this release...
  anyError,       \* ...and of the command
  mirrored        \* images in the destination

mirrorVars == <<releases, toSend, mainPc, copying, closed, errorOccurred, anyError, mirrored>>

Lt(v, w) == v[1] < w[1] \/ v[2] < w[2] \/ v[3] < w[3]

AddFromGraph == LET new == SelectSeq(Nodes, LAMBDA n : ~Lt(n.version, Minimum))
                IN  [i \in DOMAIN new |-> new[i].payload]
Releases == Append(AddFromGraph, Nightly)

MirrorInit ==
  /\ releases = <<>>
  /\ toSend = <<>> /\ mainPc = "idle" /\ copying = [c \in Copiers |-> "gone"] /\ closed = FALSE
  /\ errorOccurred = FALSE /\ anyError = FALSE /\ mirrored = {}

StartMirror ==
  /\ mainPc = "idle" /\ mainPc' = "release" /\ releases' = Releases
  /\ UNCHANGED <<toSend, copying, closed, errorOccurred, anyError, mirrored>>

\* The graph cannot be read, or has a version that cannot.
NoGraph ==
  /\ mainPc = "idle" /\ mainPc' = "done" /\ anyError' = TRUE
  /\ UNCHANGED <<releases, toSend, copying, closed, errorOccurred, mirrored>>

\* getReleaseImageStream, and the goroutines.
StartRelease ==
  /\ mainPc = "release" /\ releases # <<>>
  /\ toSend' = <<Head(releases)>> \o Tags[Head(releases)]
  /\ copying' = [c \in Copiers |-> NoImage]
  /\ closed' = FALSE /\ errorOccurred' = FALSE /\ mainPc' = "send"
  /\ UNCHANGED <<releases, anyError, mirrored>>
NoImageStream ==
  /\ mainPc = "release" /\ releases # <<>>
  /\ releases' = Tail(releases) /\ anyError' = TRUE
  /\ UNCHANGED <<toSend, mainPc, copying, closed, errorOccurred, mirrored>>

Send(c) ==
  /\ mainPc = "send" /\ toSend # <<>> /\ copying[c] = NoImage
  /\ copying' = [copying EXCEPT ![c] = Head(toSend)] /\ toSend' = Tail(toSend)
  /\ UNCHANGED <<releases, mainPc, closed, errorOccurred, anyError, mirrored>>

\* Mutant: a copier stops with its first error.
copyImage_Stops(c) ==
  /\ copying[c] \notin {NoImage, "gone"}
  /\ \/ mirrored' = mirrored \cup {copying[c]} /\ copying' = [copying EXCEPT ![c] = NoImage] /\ UNCHANGED errorOccurred
     \/ errorOccurred' = TRUE /\ copying' = [copying EXCEPT ![c] = "gone"] /\ UNCHANGED mirrored
  /\ UNCHANGED <<releases, toSend, mainPc, closed, anyError>>

copyImage(c) ==
  /\ copying[c] \notin {NoImage, "gone"}
  /\ \/ mirrored' = mirrored \cup {copying[c]} /\ UNCHANGED errorOccurred
     \/ errorOccurred' = TRUE /\ UNCHANGED mirrored
  /\ copying' = [copying EXCEPT ![c] = NoImage]
  /\ UNCHANGED <<releases, toSend, mainPc, closed, anyError>>

Close ==
  /\ mainPc = "send" /\ toSend = <<>>
  /\ closed' = TRUE /\ mainPc' = "wait"
  /\ UNCHANGED <<releases, toSend, copying, errorOccurred, anyError, mirrored>>

CopierEnds(c) ==
  /\ closed /\ copying[c] = NoImage
  /\ copying' = [copying EXCEPT ![c] = "gone"]
  /\ UNCHANGED <<releases, toSend, mainPc, closed, errorOccurred, anyError, mirrored>>

\* Mutant: the copiers are not waited for.
Wait_Not ==
  /\ mainPc = "wait"
  /\ anyError' = (anyError \/ errorOccurred)
  /\ releases' = Tail(releases) /\ mainPc' = "release"
  /\ UNCHANGED <<toSend, copying, closed, errorOccurred, mirrored>>

Wait ==
  /\ mainPc = "wait" /\ \A c \in Copiers : copying[c] = "gone"
  /\ anyError' = (anyError \/ errorOccurred)
  /\ releases' = Tail(releases) /\ mainPc' = "release"
  /\ UNCHANGED <<toSend, copying, closed, errorOccurred, mirrored>>

Finish ==
  /\ mainPc = "release" /\ releases = <<>> /\ mainPc' = "done"
  /\ UNCHANGED <<releases, toSend, copying, closed, errorOccurred, anyError, mirrored>>

MirrorNext ==
  \/ StartMirror \/ NoGraph \/ StartRelease \/ NoImageStream \/ Close \/ Wait \/ Finish
  \/ \E c \in Copiers : Send(c) \/ copyImage(c) \/ CopierEnds(c)
MirrorFairness == WF_mirrorVars(MirrorNext)

---------------------------------------------------------------------------
\* The command ends without an error only if every image of every release
\* that it set out to mirror is there, and it sets out to mirror none that
\* is older than the minimum (the wait group, the error flag, Lt).
MirroredOrError ==
  /\ mainPc = "done" /\ ~anyError =>
       \A r \in ToSet(Releases) : r \in mirrored /\ ToSet(Tags[r]) \subseteq mirrored
  /\ \A n \in ToSet(Nodes) :
       n.payload \in ToSet(Releases) =>
         \/ n.version[1] > Minimum[1]
         \/ n.version[1] = Minimum[1] /\ n.version[2] > Minimum[2]
         \/ n.version[1] = Minimum[1] /\ n.version[2] = Minimum[2] /\ n.version[3] >= Minimum[3]

\* The command ends: main never waits for a copier that is gone.
MirrorEnds == (mainPc = "release") ~> (mainPc = "done")
===========================================================================
