------------------------------ MODULE Renderer ------------------------------
(***************************************************************************)
(* The end of the mirror, in the desktop's page: latestFrame of the store, *)
(* the effect of StreamStage that pushes it, H264Renderer, and the         *)
(* VideoDecoder of the browser (external: WebCodecs).  A frame is a key or *)
(* a delta.  A delta the decoder gets after it missed a frame is torn: it  *)
(* refers to a picture the decoder never had.                              *)
(***************************************************************************)
EXTENDS Naturals, Sequences

CONSTANTS
    MaxQueue,   \* MAX_QUEUE: deltas are dropped when more than this wait
    MaxBacklog  \* bound: chunks in the decoder, keyframes included

ASSUME RendererAssumption ==
    MaxQueue \in Nat /\ MaxBacklog \in Nat /\ MaxBacklog > MaxQueue

VARIABLES
    stage,      \* StreamStage is shown, hidden by the pairing panel, or crashed
    attached,   \* the renderer's canvas: none, the page's, one that is gone
    latest,     \* latestFrame
    due,        \* the effect has not run for latest
    missed,     \* a frame since the last keyframe did not get to the decoder
    decoder,    \* its state: none, without a keyframe yet, running, closed
    broken,     \* decoderBroken
    queue,      \* what the decoder has still to decode
    picture     \* what is on the canvas

pageVars == <<stage, attached, latest, due, missed, decoder, broken, queue, picture>>

Frame == {"key", "delta"}

PageTypeOK ==
    /\ stage \in {"shown", "hidden", "crashed"}
    /\ attached \in {"none", "page", "gone"}
    /\ latest \in Frame \cup {"none"}
    /\ due \in BOOLEAN
    /\ due => stage = "shown" /\ latest # "none"
    /\ missed \in BOOLEAN
    /\ decoder \in {"none", "fresh", "running", "closed"}
    /\ broken \in BOOLEAN
    /\ queue \in Seq({"key", "delta", "torn"})
    /\ Len(queue) <= MaxBacklog
    /\ picture \in {"none", "clean", "torn"}

PageInit ==
    /\ stage = "hidden"
    /\ attached = "none"
    /\ latest = "none"
    /\ due = FALSE
    /\ missed = FALSE
    /\ decoder = "none"
    /\ broken = FALSE
    /\ queue = <<>>
    /\ picture = "none"

------------------------------------------------------------------------------
\* The store and the stage.

\* A frame event: one that comes before the effect ran for the last replaces it.
\* A crashed page listens no more.
FrameArrives(f) ==
    /\ latest' = IF stage = "crashed" THEN latest ELSE f
    /\ due' = (stage = "shown")
    /\ missed' = (missed \/ due)
    /\ UNCHANGED <<stage, attached, decoder, broken, queue, picture>>

\* Mutated: the effect runs although its stage is gone.
HideLeavesEffect ==
    /\ stage = "shown"
    /\ stage' = "hidden"
    /\ attached' = "none"
    /\ decoder' = "none"
    /\ broken' = FALSE
    /\ queue' = <<>>
    /\ picture' = "none"
    /\ UNCHANGED <<latest, due, missed>>

\* The page takes its renderer along, and a new one starts with the frame that
\* was last, however old.
Hide ==
    /\ stage = "shown"
    /\ stage' = "hidden"
    /\ attached' = "none"
    /\ due' = FALSE
    /\ decoder' = "none"
    /\ broken' = FALSE
    /\ queue' = <<>>
    /\ picture' = "none"
    /\ UNCHANGED <<latest, missed>>

\* There is a canvas if there is a frame or the device can stream.  The renderer
\* gets it when the stage appears, or never.
Show ==
    /\ stage = "hidden"
    /\ stage' = "shown"
    /\ attached' \in IF latest = "none" THEN {"page", "none"} ELSE {"page"}
    /\ due' = (latest # "none")
    /\ UNCHANGED <<latest, missed, decoder, broken, queue, picture>>

\* The stage goes on with another device: one that cannot stream takes the canvas
\* away, and the next one is not attached.
DeviceChanges ==
    /\ stage = "shown"
    /\ latest = "none"
    /\ attached = "page"
    /\ attached' = "gone"
    /\ UNCHANGED <<stage, latest, due, missed, decoder, broken, queue, picture>>

\* attach draws the idle grid over the picture.
Resize ==
    /\ stage = "shown"
    /\ attached = "page"
    /\ picture' = "none"
    /\ UNCHANGED <<stage, attached, latest, due, missed, decoder, broken, queue>>

------------------------------------------------------------------------------
\* H264Renderer.push, by its branches.

Pushing == stage = "shown" /\ due /\ due' = FALSE

PushNowhere ==
    /\ Pushing
    /\ attached = "none"
    /\ missed' = TRUE
    /\ UNCHANGED <<stage, attached, latest, decoder, broken, queue, picture>>

\* Mutated: one more may wait.
StaleOneLater ==
    latest = "delta" /\ decoder # "none" /\ ~broken /\ Len(queue) > MaxQueue + 1

\* Backpressure is for deltas, and not for a broken decoder.
Stale == latest = "delta" /\ decoder # "none" /\ ~broken /\ Len(queue) > MaxQueue

DropStale ==
    /\ Pushing /\ attached # "none"
    /\ Stale
    /\ missed' = TRUE
    /\ UNCHANGED <<stage, attached, latest, decoder, broken, queue, picture>>

\* Mutated: a broken decoder is left alone.
NeverRecreates == decoder = "none"

\* Without a decoder any frame makes one, with a broken one a keyframe does.
Recreates == decoder = "none" \/ (broken /\ latest = "key")

\* close() of a decoder that closed itself throws, outside the try: React takes
\* the page down.
CrashOnClose ==
    /\ Pushing /\ attached # "none"
    /\ Recreates /\ decoder = "closed"
    /\ stage' = "crashed"
    /\ attached' = "none"
    /\ picture' = "none"
    /\ decoder' = "none"
    /\ broken' = FALSE
    /\ queue' = <<>>
    /\ UNCHANGED <<latest, missed>>

\* decode() throws, of its own accord or for want of a keyframe.
Throws(dec, pending) ==
    /\ decoder' = dec
    /\ queue' = pending
    /\ broken' = TRUE
    /\ missed' = TRUE

Accepts(pending) ==
    /\ Len(pending) < MaxBacklog
    /\ decoder' = "running"
    /\ missed' = (missed /\ latest # "key")
    /\ queue' = Append(pending, IF latest = "delta" /\ missed THEN "torn" ELSE latest)

PushToNew ==
    /\ Pushing /\ attached # "none"
    /\ Recreates /\ decoder # "closed"
    /\ \/ latest = "key" /\ Accepts(<<>>) /\ broken' = FALSE
       \/ Throws("fresh", <<>>)
    /\ UNCHANGED <<stage, attached, latest, picture>>

PushToOld ==
    /\ Pushing /\ attached # "none"
    /\ ~Stale /\ ~Recreates /\ decoder \in {"fresh", "running"}
    /\ \/ (latest = "key" \/ decoder = "running") /\ Accepts(queue) /\ UNCHANGED broken
       \/ Throws(decoder, queue)
    /\ UNCHANGED <<stage, attached, latest, picture>>

\* A closed decoder gets no deltas.
AwaitKeyframe ==
    /\ Pushing /\ attached # "none"
    /\ ~Stale /\ ~Recreates /\ decoder = "closed"
    /\ missed' = TRUE
    /\ UNCHANGED <<stage, attached, latest, decoder, broken, queue, picture>>

Push ==
    \/ PushNowhere \/ DropStale \/ CrashOnClose \/ PushToNew \/ PushToOld \/ AwaitKeyframe

------------------------------------------------------------------------------
\* The decoder.

\* The output callback draws, on the page or on the canvas that is gone.
Output ==
    /\ queue # <<>>
    /\ picture' = IF attached # "page" THEN picture
                  ELSE IF Head(queue) = "torn" THEN "torn" ELSE "clean"
    /\ queue' = Tail(queue)
    /\ UNCHANGED <<stage, attached, latest, due, missed, decoder, broken>>

\* The error callback: a chunk that cannot be decoded, a codec the browser takes
\* back.  The decoder is closed by then.
FatalError ==
    /\ decoder \in {"fresh", "running"}
    /\ decoder' = "closed"
    /\ queue' = <<>>
    /\ broken' = TRUE
    /\ UNCHANGED <<stage, attached, latest, due, missed, picture>>

PageStep ==
    \/ Hide \/ Show \/ DeviceChanges \/ Resize \/ Push \/ Output \/ FatalError

------------------------------------------------------------------------------
\* Deltas never wait behind more than MaxQueue chunks, unless they come after a
\* decode that threw: then they are not dropped (h264Renderer.ts:53-58).
DeltasDoNotQueueUp ==
    ~broken => \A i \in 1..Len(queue) : queue[i] # "key" => i <= MaxQueue + 1
==============================================================================
