------------------------------- MODULE Mirror -------------------------------
(***************************************************************************)
(* From the phone's encoder to the canvas of the desktop: Phone and        *)
(* Renderer, and the frames between them.  A frame takes H264Encoder,      *)
(* FrameSender, the relay, handleFrame and the page's event in one step:   *)
(* nothing on the way reorders frames or holds them back, and what is lost *)
(* is lost with a socket or in a room the desktop is not in.               *)
(***************************************************************************)
EXTENDS Phone, Renderer

vars == <<phoneVars, pageVars>>

TypeOK == PhoneTypeOK /\ PageTypeOK

Init == PhoneInit /\ PageInit

\* The capture has a socket that takes its frames.
Flowing == encoder \in Sock

\* The frames of one encoder do not continue those of another.
PhoneMoves ==
    /\ PhoneNext
    /\ missed' = (missed \/ encoder' # encoder)
    /\ UNCHANGED <<stage, attached, latest, due, decoder, broken, queue, picture>>

PageMoves == PageStep /\ UNCHANGED phoneVars

\* A frame is encoded and sent to the page, or to nobody.
SendFrame(f) ==
    /\ Flowing
    /\ FrameArrives(f)
    /\ UNCHANGED phoneVars

LoseFrame ==
    /\ Flowing
    /\ missed' = TRUE
    /\ UNCHANGED <<phoneVars, stage, attached, latest, due, decoder, broken, queue, picture>>

Next ==
    \/ PhoneMoves \/ PageMoves \/ LoseFrame
    \/ \E f \in Frame : SendFrame(f)

Spec == Init /\ [][Next]_vars

------------------------------------------------------------------------------
\* While the phone's screen changes its encoder makes a keyframe a second, and
\* effects run.  Of the keyframes some are not overtaken and are accepted, and
\* some of what a decoder accepted is decoded.
PushKeyframe ==
    PageMoves /\ latest = "key" /\ due /\ ~due' /\ (missed' => stage' = "crashed")

Fairness ==
    /\ WF_vars(SendFrame("key"))
    /\ SF_vars(PushKeyframe)
    /\ SF_vars(Output /\ UNCHANGED phoneVars)

FairSpec == Spec /\ Fairness

\* Whatever was lost, thrown or hidden, a capture whose socket is alive gets its
\* picture back on a stage whose canvas the renderer has (h264Renderer.ts:93-95,
\* H264Encoder.kt:29), except after a fatal error of the decoder: then the next
\* keyframe takes the page down.  A canvas that appears after its stage is never
\* attached, and no picture comes until the stage is shown anew (StreamStage.tsx:
\* 69, 99-113, 161).
PictureComesBack ==
    stage = "shown" /\ attached = "page" /\ Flowing
        ~> picture = "clean" \/ stage # "shown" \/ attached # "page" \/ ~Flowing
==============================================================================
