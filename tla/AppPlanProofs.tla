---------------------------- MODULE AppPlanProofs ----------------------------
(***************************************************************************)
(* What a UI call of App has still to do, todo, is one of thirty-odd       *)
(* sequences.  They fall into five phases; the lemmas say from which phase *)
(* each step of a call starts and to which it leads.  AppProofs says what  *)
(* holds in each phase.                                                    *)
(***************************************************************************)
EXTENDS App, SequenceTheorems, TLAPS

\* Nothing touches the session or its watcher any more.
Idle == {<<>>, <<"startRelay">>}

\* The watcher of the session on screen is still to be stopped.
Stopping ==
    {<<"stopWatch", "stopCam", "choose">>,
     <<"stopWatch", "stopCam", "choose", "startRelay">>,
     <<"clearSaved", "stopWatch", "stopCam", "choose", "startRelay">>,
     <<"stopWatch", "clearSaved", "stopWatch", "stopCam", "choose", "startRelay">>,
     <<"clearSaved", "stopWatch", "fresh">>,
     <<"stopWatch", "fresh">>}

\* It was stopped, and the session is about to be replaced ...
Resuming == {<<"resumeSession">>, <<"resumeSession", "startRelay">>}
Changing ==
    Resuming \cup
    {<<"stopCam", "choose">>, <<"stopCam", "choose", "startRelay">>,
     <<"choose">>, <<"choose", "startRelay">>,
     <<"clearSaved", "legacySession">>, <<"clearSaved", "legacySession", "startRelay">>,
     <<"legacySession">>, <<"legacySession", "startRelay">>,
     <<"clearSaved", "cloudSession">>, <<"clearSaved", "cloudSession", "startRelay">>,
     <<"cloudSession">>, <<"cloudSession", "startRelay">>,
     <<"fresh">>, <<"freshSession">>}

\* ... by the one of the saved pairing, ...
Resumed == {<<"resumeDevice">>, <<"resumeDevice", "startRelay">>}

\* ... or by a new cloud session, whose watcher is still to be started.
Starting ==
    {<<"createRow", "stopWatch", "watch">>,
     <<"createRow", "stopWatch", "watch", "startRelay">>,
     <<"stopWatch", "watch">>, <<"stopWatch", "watch", "startRelay">>,
     <<"watch">>, <<"watch", "startRelay">>,
     <<"createRow", "startRelay", "stopWatch", "watch">>,
     <<"startRelay", "stopWatch", "watch">>}

\* Its row comes first.
Creating ==
    {<<"createRow", "stopWatch", "watch">>,
     <<"createRow", "stopWatch", "watch", "startRelay">>,
     <<"createRow", "startRelay", "stopWatch", "watch">>}

Plans == Idle \cup Stopping \cup Changing \cup Resumed \cup Starting

------------------------------------------------------------------------------
\* What is left of a call after a step that adds steps: nothing, or startRelay.
LEMMA Snoc1 ==
    ASSUME NEW a, NEW e
    PROVE  /\ <<a>> \o <<e>> = <<a, e>>
           /\ <<a>> \o <<>> = <<a>>
<1> DEFINE S == {a, e}  l == <<a>> \o <<e>>  r == <<a, e>>
<1>0. a \in S /\ e \in S
  OBVIOUS
<1> HIDE DEF S
<1>1. l = r
  <2>1. l \in Seq(S) /\ r \in Seq(S) /\ Len(l) = 2 /\ Len(r) = 2
    BY <1>0
  <2>2. \A i \in 1..2 : l[i] = r[i]
    BY <1>0
  <2> HIDE DEF l, r
  <2> QED
    BY <2>1, <2>2, SeqEqual
<1>2. <<a>> \in Seq(S)
  BY <1>0
<1> QED
  BY <1>1, <1>2, ConcatEmptySeq

LEMMA Snoc2 ==
    ASSUME NEW a, NEW b, NEW e
    PROVE  /\ <<a, b>> \o <<e>> = <<a, b, e>>
           /\ <<a, b>> \o <<>> = <<a, b>>
<1> DEFINE S == {a, b, e}  l == <<a, b>> \o <<e>>  r == <<a, b, e>>
<1>0. a \in S /\ b \in S /\ e \in S
  OBVIOUS
<1> HIDE DEF S
<1>1. l = r
  <2>1. l \in Seq(S) /\ r \in Seq(S) /\ Len(l) = 3 /\ Len(r) = 3
    BY <1>0
  <2>2. \A i \in 1..3 : l[i] = r[i]
    BY <1>0
  <2> HIDE DEF l, r
  <2> QED
    BY <2>1, <2>2, SeqEqual
<1>2. <<a, b>> \in Seq(S)
  BY <1>0
<1> QED
  BY <1>1, <1>2, ConcatEmptySeq

LEMMA Snoc3 ==
    ASSUME NEW a, NEW b, NEW c, NEW e
    PROVE  /\ <<a, b, c>> \o <<e>> = <<a, b, c, e>>
           /\ <<a, b, c>> \o <<>> = <<a, b, c>>
<1> DEFINE S == {a, b, c, e}  l == <<a, b, c>> \o <<e>>  r == <<a, b, c, e>>
<1>0. a \in S /\ b \in S /\ c \in S /\ e \in S
  OBVIOUS
<1> HIDE DEF S
<1>1. l = r
  <2>1. l \in Seq(S) /\ r \in Seq(S) /\ Len(l) = 4 /\ Len(r) = 4
    BY <1>0
  <2>2. \A i \in 1..4 : l[i] = r[i]
    BY <1>0
  <2> HIDE DEF l, r
  <2> QED
    BY <2>1, <2>2, SeqEqual
<1>2. <<a, b, c>> \in Seq(S)
  BY <1>0
<1> QED
  BY <1>1, <1>2, ConcatEmptySeq

LEMMA Snoc4 ==
    ASSUME NEW a, NEW b, NEW c, NEW d, NEW e
    PROVE  /\ <<a, b, c, d>> \o <<e>> = <<a, b, c, d, e>>
           /\ <<a, b, c, d>> \o <<>> = <<a, b, c, d>>
<1> DEFINE S == {a, b, c, d, e}  l == <<a, b, c, d>> \o <<e>>  r == <<a, b, c, d, e>>
<1>0. a \in S /\ b \in S /\ c \in S /\ d \in S /\ e \in S
  OBVIOUS
<1> HIDE DEF S
<1>1. l = r
  <2>1. l \in Seq(S) /\ r \in Seq(S) /\ Len(l) = 5 /\ Len(r) = 5
    BY <1>0
  <2>2. \A i \in 1..5 : l[i] = r[i]
    BY <1>0
  <2> HIDE DEF l, r
  <2> QED
    BY <2>1, <2>2, SeqEqual
<1>2. <<a, b, c, d>> \in Seq(S)
  BY <1>0
<1> QED
  BY <1>1, <1>2, ConcatEmptySeq

LEMMA Snoc5 ==
    ASSUME NEW a, NEW b, NEW c, NEW d, NEW f, NEW e
    PROVE  /\ <<a, b, c, d, f>> \o <<e>> = <<a, b, c, d, f, e>>
           /\ <<a, b, c, d, f>> \o <<>> = <<a, b, c, d, f>>
<1> DEFINE S == {a, b, c, d, f, e}  l == <<a, b, c, d, f>> \o <<e>>  r == <<a, b, c, d, f, e>>
<1>0. a \in S /\ b \in S /\ c \in S /\ d \in S /\ f \in S /\ e \in S
  OBVIOUS
<1> HIDE DEF S
<1>1. l = r
  <2>1. l \in Seq(S) /\ r \in Seq(S) /\ Len(l) = 6 /\ Len(r) = 6
    BY <1>0
  <2>2. \A i \in 1..6 : l[i] = r[i]
    BY <1>0
  <2> HIDE DEF l, r
  <2> QED
    BY <2>1, <2>2, SeqEqual
<1>2. <<a, b, c, d, f>> \in Seq(S)
  BY <1>0
<1> QED
  BY <1>1, <1>2, ConcatEmptySeq

LEMMA Pair3 ==
    ASSUME NEW a, NEW b, NEW c, NEW d, NEW e
    PROVE  <<a, b>> \o <<c, d, e>> = <<a, b, c, d, e>>
<1> DEFINE S == {a, b, c, d, e}  l == <<a, b>> \o <<c, d, e>>  r == <<a, b, c, d, e>>
<1>0. a \in S /\ b \in S /\ c \in S /\ d \in S /\ e \in S
  OBVIOUS
<1> HIDE DEF S
<1>1. l = r
  <2>1. l \in Seq(S) /\ r \in Seq(S) /\ Len(l) = 5 /\ Len(r) = 5
    BY <1>0
  <2>2. \A i \in 1..5 : l[i] = r[i]
    BY <1>0
  <2> HIDE DEF l, r
  <2> QED
    BY <2>1, <2>2, SeqEqual
<1> QED
  BY <1>1

LEMMA Continued ==
    /\ Refresh \o <<"startRelay">> = <<"stopWatch", "stopCam", "choose", "startRelay">>
    /\ (Refresh \o <<"startRelay">>) \o <<>> = Refresh \o <<"startRelay">>
    /\ <<"stopWatch", "clearSaved">> \o Refresh \o <<"startRelay">>
          = <<"stopWatch", "clearSaved", "stopWatch", "stopCam", "choose", "startRelay">>
<1>1. Refresh \o <<"startRelay">> = <<"stopWatch", "stopCam", "choose", "startRelay">>
  BY Snoc3 DEF Refresh
<1>2. (Refresh \o <<"startRelay">>) \o <<>> = Refresh \o <<"startRelay">>
  <2>1. <<"stopWatch", "stopCam", "choose", "startRelay">> \o <<>>
          = <<"stopWatch", "stopCam", "choose", "startRelay">>
    BY Snoc4
  <2> QED
    BY <1>1, <2>1, Zenon
<1>3. <<"stopWatch", "clearSaved">> \o Refresh \o <<"startRelay">>
        = <<"stopWatch", "clearSaved", "stopWatch", "stopCam", "choose", "startRelay">>
  <2>1. <<"stopWatch", "clearSaved">> \o Refresh
          = <<"stopWatch", "clearSaved", "stopWatch", "stopCam", "choose">>
    BY Pair3 DEF Refresh
  <2>2. <<"stopWatch", "clearSaved", "stopWatch", "stopCam", "choose">> \o <<"startRelay">>
          = <<"stopWatch", "clearSaved", "stopWatch", "stopCam", "choose", "startRelay">>
    BY Snoc5
  <2> QED
    BY <2>1, <2>2
<1> QED
  BY <1>1, <1>2, <1>3

LEMMA PlansAreSeqs == Plans \subseteq Seq(Steps)
<1> DEFINE S == Steps
<1>1. \A x \in {"stopWatch", "stopCam", "clearSaved", "choose", "legacySession",
                "resumeSession", "resumeDevice", "cloudSession", "createRow", "watch",
                "fresh", "freshSession", "startRelay"} : x \in S
  BY DEF Steps
<1> HIDE DEF S
<1>2. /\ Idle \subseteq Seq(S) /\ Stopping \subseteq Seq(S)
  BY <1>1 DEF Idle, Stopping
<1>3. Changing \subseteq Seq(S)
  BY <1>1 DEF Changing, Resuming
<1>4. Resumed \subseteq Seq(S) /\ Starting \subseteq Seq(S)
  BY <1>1 DEF Resumed, Starting
<1> QED
  BY <1>2, <1>3, <1>4 DEF Plans, S

\* A step that adds nothing.
LEMMA DoNothingMore ==
    ASSUME todo \in Plans, NEW name, Do(name, <<>>)
    PROVE  todo # <<>> /\ Head(todo) = name /\ todo' = Tail(todo)
<1>1. todo \in Seq(Steps) /\ todo # <<>>
  BY PlansAreSeqs DEF Do
<1>2. Tail(todo) \in Seq(Steps)
  BY <1>1, HeadTailProperties
<1> QED
  BY <1>2, ConcatEmptySeq DEF Do

\* What is left of a sequence written out.  (The provers reduce a Tail they see,
\* but not one they reach through an equation.)
LEMMA TailOf ==
    ASSUME NEW s, NEW a, NEW b, NEW c, NEW d, NEW e, NEW f
    PROVE  /\ s = <<a>> => Tail(s) = <<>>
           /\ s = <<a, b>> => Tail(s) = <<b>>
           /\ s = <<a, b, c>> => Tail(s) = <<b, c>>
           /\ s = <<a, b, c, d>> => Tail(s) = <<b, c, d>>
           /\ s = <<a, b, c, d, e>> => Tail(s) = <<b, c, d, e>>
           /\ s = <<a, b, c, d, e, f>> => Tail(s) = <<b, c, d, e, f>>
<1>1. /\ Tail(<<a>>) = <<>>
      /\ Tail(<<a, b>>) = <<b>>
      /\ Tail(<<a, b, c>>) = <<b, c>>
      /\ Tail(<<a, b, c, d>>) = <<b, c, d>>
      /\ Tail(<<a, b, c, d, e>>) = <<b, c, d, e>>
      /\ Tail(<<a, b, c, d, e, f>>) = <<b, c, d, e, f>>
  OBVIOUS
<1> QED
  BY <1>1, Zenon

\* The phase each step of a call belongs to, and the one it leads to.
LEMMA PlanSteps ==
    ASSUME todo \in Plans
    PROVE  /\ Do("stopWatch", <<>>) =>
                \/ todo \in Stopping /\ todo' \in Stopping \cup (Changing \ Resuming)
                \/ todo \in Starting /\ todo' \in Starting
           /\ Do("stopCam", <<>>) => todo \in Changing /\ todo' \in Changing \ Resuming
           /\ Do("clearSaved", <<>>) =>
                \/ todo \in Stopping /\ todo' \in Stopping
                \/ todo \in Changing /\ todo' \in Changing \ Resuming
           /\ Do("legacySession", <<>>) => todo \in Changing /\ todo' \in Idle
           /\ Do("cloudSession", <<>>) => todo \in Changing /\ todo' \in Idle
           /\ Do("freshSession", <<>>) => todo \in Changing /\ todo' \in Idle
           /\ Do("createRow", <<>>) => todo \in Starting /\ todo' \in Starting
           /\ Do("watch", <<>>) => todo \in Starting /\ todo' \in Idle
           /\ Do("startRelay", <<>>) =>
                \/ todo \in Idle /\ todo' = <<>>
                \/ todo \in Starting /\ todo' = <<"stopWatch", "watch">>
           /\ Do("resumeDevice", <<>>) => todo \in Resumed /\ todo' \in Idle
<1>1. ASSUME NEW name, Do(name, <<>>)
      PROVE  todo # <<>> /\ Head(todo) = name /\ todo' = Tail(todo)
  BY <1>1, DoNothingMore
<1>2. ASSUME todo # <<>>
      PROVE  /\ todo \in Idle => Head(todo) = "startRelay" /\ Tail(todo) = <<>>
             /\ todo \in Stopping => Head(todo) \in {"stopWatch", "clearSaved"}
             /\ todo \in Changing =>
                  Head(todo) \in {"stopCam", "choose", "clearSaved", "legacySession",
                                  "resumeSession", "fresh", "freshSession", "cloudSession"}
             /\ todo \in Resumed => Head(todo) = "resumeDevice" /\ Tail(todo) \in Idle
             /\ todo \in Starting =>
                  Head(todo) \in {"createRow", "stopWatch", "watch", "startRelay"}
  <2>1. /\ todo \in Idle => Head(todo) = "startRelay" /\ Tail(todo) = <<>>
        /\ todo \in Resumed => Head(todo) = "resumeDevice" /\ Tail(todo) \in Idle
    BY <1>2, TailOf DEF Idle, Resumed
  <2> QED
    BY <1>2, <2>1 DEF Stopping, Changing, Resuming, Starting
<1>3. /\ todo \in Stopping /\ Head(todo) = "stopWatch"
            => Tail(todo) \in Stopping \cup (Changing \ Resuming)
      /\ todo \in Stopping /\ Head(todo) = "clearSaved" => Tail(todo) \in Stopping
  <2>1. todo \in Stopping /\ Head(todo) = "stopWatch"
         => Tail(todo) \in Stopping \cup (Changing \ Resuming)
    BY TailOf DEF Stopping, Changing, Resuming
  <2>2. todo \in Stopping /\ Head(todo) = "clearSaved" => Tail(todo) \in Stopping
    BY TailOf DEF Stopping
  <2> QED
    BY <2>1, <2>2
<1>4. /\ todo \in Changing /\ Head(todo) = "stopCam" => Tail(todo) \in Changing \ Resuming
      /\ todo \in Changing /\ Head(todo) = "clearSaved" => Tail(todo) \in Changing \ Resuming
  <2>1. todo \in Changing /\ Head(todo) = "stopCam" => Tail(todo) \in Changing \ Resuming
    BY TailOf DEF Changing, Resuming
  <2>2. todo \in Changing /\ Head(todo) = "clearSaved" => Tail(todo) \in Changing \ Resuming
    BY TailOf DEF Changing, Resuming
  <2> QED
    BY <2>1, <2>2
<1>5. /\ todo \in Changing /\ Head(todo) = "legacySession" => Tail(todo) \in Idle
      /\ todo \in Changing /\ Head(todo) \in {"cloudSession", "freshSession"}
            => Tail(todo) \in Idle
  <2>1. todo \in Changing /\ Head(todo) = "legacySession" => Tail(todo) \in Idle
    BY TailOf DEF Changing, Resuming, Idle
  <2>2. todo \in Changing /\ Head(todo) \in {"cloudSession", "freshSession"}
            => Tail(todo) \in Idle
    BY TailOf DEF Changing, Resuming, Idle
  <2> QED
    BY <2>1, <2>2
<1>6. /\ todo \in Starting /\ Head(todo) = "createRow" => Tail(todo) \in Starting
      /\ todo \in Starting /\ Head(todo) = "stopWatch" => Tail(todo) \in Starting
      /\ todo \in Starting /\ Head(todo) = "watch" => Tail(todo) \in Idle
      /\ todo \in Starting /\ Head(todo) = "startRelay"
            => Tail(todo) = <<"stopWatch", "watch">>
  BY TailOf DEF Starting, Idle
<1>7. ASSUME Do("stopWatch", <<>>)
      PROVE  \/ todo \in Stopping /\ todo' \in Stopping \cup (Changing \ Resuming)
             \/ todo \in Starting /\ todo' \in Starting
  <2>1. todo # <<>> /\ Head(todo) = "stopWatch" /\ todo' = Tail(todo)
    BY <1>7, <1>1
  <2> QED
    BY <2>1, <1>2, <1>3, <1>4, <1>5, <1>6 DEF Plans
<1>8. ASSUME Do("stopCam", <<>>)
      PROVE  todo \in Changing /\ todo' \in Changing \ Resuming
  <2>1. todo # <<>> /\ Head(todo) = "stopCam" /\ todo' = Tail(todo)
    BY <1>8, <1>1
  <2> QED
    BY <2>1, <1>2, <1>3, <1>4, <1>5, <1>6 DEF Plans
<1>9. ASSUME Do("clearSaved", <<>>)
      PROVE  \/ todo \in Stopping /\ todo' \in Stopping
             \/ todo \in Changing /\ todo' \in Changing \ Resuming
  <2>1. todo # <<>> /\ Head(todo) = "clearSaved" /\ todo' = Tail(todo)
    BY <1>9, <1>1
  <2> QED
    BY <2>1, <1>2, <1>3, <1>4, <1>5, <1>6 DEF Plans
<1>10. ASSUME Do("legacySession", <<>>)
      PROVE  todo \in Changing /\ todo' \in Idle
  <2>1. todo # <<>> /\ Head(todo) = "legacySession" /\ todo' = Tail(todo)
    BY <1>10, <1>1
  <2> QED
    BY <2>1, <1>2, <1>3, <1>4, <1>5, <1>6 DEF Plans
<1>11. ASSUME NEW n \in {"cloudSession", "freshSession"}, Do(n, <<>>)
      PROVE  todo \in Changing /\ todo' \in Idle
  <2>1. todo # <<>> /\ Head(todo) = n /\ todo' = Tail(todo)
    BY <1>11, <1>1
  <2> QED
    BY <2>1, <1>2, <1>3, <1>4, <1>5, <1>6 DEF Plans
<1>12. ASSUME Do("createRow", <<>>)
      PROVE  todo \in Starting /\ todo' \in Starting
  <2>1. todo # <<>> /\ Head(todo) = "createRow" /\ todo' = Tail(todo)
    BY <1>12, <1>1
  <2> QED
    BY <2>1, <1>2, <1>3, <1>4, <1>5, <1>6 DEF Plans
<1>13. ASSUME Do("watch", <<>>)
      PROVE  todo \in Starting /\ todo' \in Idle
  <2>1. todo # <<>> /\ Head(todo) = "watch" /\ todo' = Tail(todo)
    BY <1>13, <1>1
  <2> QED
    BY <2>1, <1>2, <1>3, <1>4, <1>5, <1>6 DEF Plans
<1>14. ASSUME Do("startRelay", <<>>)
      PROVE  \/ todo \in Idle /\ todo' = <<>>
             \/ todo \in Starting /\ todo' = <<"stopWatch", "watch">>
  <2>1. todo # <<>> /\ Head(todo) = "startRelay" /\ todo' = Tail(todo)
    BY <1>14, <1>1
  <2> QED
    BY <2>1, <1>2, <1>3, <1>4, <1>5, <1>6 DEF Plans
<1>15. ASSUME Do("resumeDevice", <<>>)
      PROVE  todo \in Resumed /\ todo' \in Idle
  <2>1. todo # <<>> /\ Head(todo) = "resumeDevice" /\ todo' = Tail(todo)
    BY <1>15, <1>1
  <2> QED
    BY <2>1, <1>2, <1>3, <1>4, <1>5, <1>6 DEF Plans
<1> QED
  BY <1>7, <1>8, <1>9, <1>10, <1>11, <1>12, <1>13, <1>14, <1>15

\* The steps that put others before the rest.
LEMMA PlanBranches ==
    ASSUME todo \in Plans
    PROVE  /\ Do("choose", <<"clearSaved", "legacySession">>) =>
                todo \in Changing /\ todo' \in Changing \ Resuming
           /\ Do("choose", <<"resumeSession">>) => todo \in Changing /\ todo' \in Resuming
           /\ Do("choose", <<"cloudSession">>) =>
                todo \in Changing /\ todo' \in Changing \ Resuming
           /\ Do("resumeSession", <<"resumeDevice">>) =>
                todo \in Resuming /\ todo' \in Resumed
           /\ Do("resumeSession", <<"clearSaved", "cloudSession">>) =>
                todo \in Resuming /\ todo' \in Changing \ Resuming
           /\ Do("resumeDevice", <<"clearSaved", "cloudSession">>) =>
                todo \in Resumed /\ todo' \in Changing \ Resuming
           /\ Do("cloudSession", <<"createRow", "stopWatch", "watch">>) =>
                todo \in Changing /\ todo' \in Starting
           /\ Do("fresh", <<"freshSession">>) =>
                todo \in Changing /\ todo' \in Changing \ Resuming
           /\ Do("fresh", Refresh \o <<"startRelay">>) =>
                todo \in Changing /\ todo' \in Stopping
           /\ Do("freshSession", <<"createRow", "startRelay", "stopWatch", "watch">>) =>
                todo \in Changing /\ todo' \in Starting
<1>1. ASSUME todo # <<>>
      PROVE  /\ todo \in Idle => Head(todo) = "startRelay"
             /\ todo \in Stopping => Head(todo) \in {"stopWatch", "clearSaved"}
             /\ todo \in Changing =>
                  Head(todo) \in {"stopCam", "choose", "clearSaved", "legacySession",
                                  "resumeSession", "fresh", "freshSession", "cloudSession"}
             /\ todo \in Resumed => Head(todo) = "resumeDevice"
             /\ todo \in Starting =>
                  Head(todo) \in {"createRow", "stopWatch", "watch", "startRelay"}
  BY <1>1 DEF Idle, Stopping, Changing, Resuming, Resumed, Starting
<1>2. /\ todo \in Changing /\ Head(todo) \in {"choose", "cloudSession"}
            => Tail(todo) = <<>> \/ Tail(todo) = <<"startRelay">>
      /\ todo \in Changing /\ Head(todo) \in {"fresh", "freshSession"} => Tail(todo) = <<>>
  BY TailOf DEF Changing, Resuming
<1>3. /\ todo \in Changing /\ Head(todo) = "resumeSession"
            => todo \in Resuming /\ (Tail(todo) = <<>> \/ Tail(todo) = <<"startRelay">>)
      /\ todo \in Resumed => Tail(todo) = <<>> \/ Tail(todo) = <<"startRelay">>
  BY TailOf DEF Changing, Resuming, Resumed
<1>4. Resuming \subseteq Changing
  BY DEF Changing
<1>5. ASSUME Do("choose", <<"clearSaved", "legacySession">>)
      PROVE  todo \in Changing /\ todo' \in Changing \ Resuming
  <2>1. todo \in Changing
    BY <1>1, <1>5 DEF Do, Plans
  <2>2. \/ todo' = <<"clearSaved", "legacySession">>
        \/ todo' = <<"clearSaved", "legacySession", "startRelay">>
    BY <1>2, <1>5, <2>1, Snoc2 DEF Do
  <2> QED
    BY <2>1, <2>2 DEF Changing, Resuming
<1>6. ASSUME Do("choose", <<"resumeSession">>)
      PROVE  todo \in Changing /\ todo' \in Resuming
  BY <1>1, <1>2, <1>6, Snoc1 DEF Do, Plans, Resuming
<1>7. ASSUME Do("choose", <<"cloudSession">>)
      PROVE  todo \in Changing /\ todo' \in Changing \ Resuming
  <2>1. todo \in Changing
    BY <1>1, <1>7 DEF Do, Plans
  <2>2. todo' = <<"cloudSession">> \/ todo' = <<"cloudSession", "startRelay">>
    BY <1>2, <1>7, <2>1, Snoc1 DEF Do
  <2> QED
    BY <2>1, <2>2 DEF Changing, Resuming
<1>8. ASSUME Do("resumeSession", <<"resumeDevice">>)
      PROVE  todo \in Resuming /\ todo' \in Resumed
  BY <1>1, <1>3, <1>8, Snoc1 DEF Do, Plans, Resumed
<1>9. ASSUME NEW n \in {"resumeSession", "resumeDevice"},
             Do(n, <<"clearSaved", "cloudSession">>)
      PROVE  /\ todo' \in Changing \ Resuming
             /\ n = "resumeSession" => todo \in Resuming
             /\ n = "resumeDevice" => todo \in Resumed
  <2>1. todo \in Resuming \cup Resumed
    BY <1>1, <1>3, <1>9 DEF Do, Plans
  <2>2. \/ todo' = <<"clearSaved", "cloudSession">>
        \/ todo' = <<"clearSaved", "cloudSession", "startRelay">>
    <3>1. Tail(todo) = <<>> \/ Tail(todo) = <<"startRelay">>
      BY <2>1, TailOf DEF Resuming, Resumed
    <3> QED
      BY <1>9, <3>1, Snoc2 DEF Do
  <2>3. /\ todo \in Resuming => Head(todo) = "resumeSession"
        /\ todo \in Resumed => Head(todo) = "resumeDevice"
    BY DEF Resuming, Resumed
  <2> QED
    BY <1>9, <2>1, <2>2, <2>3 DEF Changing, Resuming, Do
<1>10. ASSUME Do("cloudSession", <<"createRow", "stopWatch", "watch">>)
       PROVE  todo \in Changing /\ todo' \in Starting
  <2>1. todo \in Changing
    BY <1>1, <1>10 DEF Do, Plans
  <2>2. \/ todo' = <<"createRow", "stopWatch", "watch">>
        \/ todo' = <<"createRow", "stopWatch", "watch", "startRelay">>
    BY <1>2, <1>10, <2>1, Snoc3 DEF Do
  <2> QED
    BY <2>1, <2>2 DEF Starting
<1>11. ASSUME Do("fresh", <<"freshSession">>)
       PROVE  todo \in Changing /\ todo' \in Changing \ Resuming
  <2>1. todo \in Changing
    BY <1>1, <1>11 DEF Do, Plans
  <2>2. todo' = <<"freshSession">>
    BY <1>2, <1>11, <2>1, Snoc1 DEF Do
  <2> QED
    BY <2>1, <2>2 DEF Changing, Resuming
<1>12. ASSUME Do("fresh", Refresh \o <<"startRelay">>)
       PROVE  todo \in Changing /\ todo' \in Stopping
  <2>1. todo \in Changing
    BY <1>1, <1>12 DEF Do, Plans
  <2>2. todo' = <<"stopWatch", "stopCam", "choose", "startRelay">>
    BY <1>2, <1>12, <2>1, Continued DEF Do
  <2> QED
    BY <2>1, <2>2 DEF Stopping
<1>13. ASSUME Do("freshSession", <<"createRow", "startRelay", "stopWatch", "watch">>)
       PROVE  todo \in Changing /\ todo' \in Starting
  <2>1. todo \in Changing
    BY <1>1, <1>13 DEF Do, Plans
  <2>2. todo' = <<"createRow", "startRelay", "stopWatch", "watch">>
    BY <1>2, <1>13, <2>1, Snoc4 DEF Do
  <2> QED
    BY <2>1, <2>2 DEF Starting
<1> QED
  BY <1>5, <1>6, <1>7, <1>8, <1>9, <1>10, <1>11, <1>12, <1>13

\* No two phases share a sequence.
LEMMA PhasesApart ==
    /\ \A p \in Idle : p \notin Stopping \cup Changing \cup Resumed \cup Starting
    /\ \A p \in Stopping : p \notin Changing \cup Resumed \cup Starting
    /\ \A p \in Changing : p \notin Resumed \cup Starting
    /\ \A p \in Resumed : p \notin Starting
    /\ Resuming \subseteq Changing
    /\ <<>> \in Idle /\ <<"stopWatch", "watch">> \in Starting
<1>1. \A p \in Idle : p \notin Stopping \cup Changing \cup Resumed \cup Starting
  BY DEF Idle, Stopping, Changing, Resuming, Resumed, Starting
<1>2. \A p \in Stopping : p \notin Changing \cup Resumed \cup Starting
  BY DEF Stopping, Changing, Resuming, Resumed, Starting
<1>3. \A p \in Changing : p \notin Resumed \cup Starting
  BY DEF Changing, Resuming, Resumed, Starting
<1>4. \A p \in Resumed : p \notin Starting
  BY DEF Resumed, Starting
<1>5. Resuming \subseteq Changing /\ <<>> \in Idle /\ <<"stopWatch", "watch">> \in Starting
  BY DEF Changing, Idle, Starting
<1> QED
  BY <1>1, <1>2, <1>3, <1>4, <1>5

\* What a UI call starts with.
LEMMA CallsStopFirst ==
    /\ UiCall => todo = <<>> /\ todo' \in Stopping
    /\ Restart => todo' \in Stopping
<1>1. /\ Refresh \in Stopping /\ Refresh \o <<"startRelay">> \in Stopping
      /\ <<"clearSaved", "stopWatch", "fresh">> \in Stopping
  BY Continued DEF Refresh, Stopping
<1>2. <<"stopWatch", "clearSaved">> \o Refresh \o <<"startRelay">> \in Stopping
  BY Continued DEF Stopping
<1> QED
  BY <1>1, <1>2 DEF UiCall, LoginWithDiscord, Logout, RefreshPairing, StartFreshPairing,
                    Restart, Call

LEMMA InitPlan == Init => todo \in Stopping
<1>1. Init => todo = <<"stopWatch", "stopCam", "choose", "startRelay">>
  BY Continued DEF Init
<1> QED
  BY <1>1 DEF Stopping

\* The phase of a call before and after each of its steps.
LEMMA Phases ==
    ASSUME todo \in Plans
    PROVE  /\ StopWatch =>
                \/ todo \in Stopping /\ todo' \in Stopping \cup (Changing \ Resuming)
                \/ todo \in Starting /\ todo' \in Starting
           /\ StopCam => todo \in Changing /\ todo' \in Changing \ Resuming
           /\ ClearActiveSession =>
                \/ todo \in Stopping /\ todo' \in Stopping
                \/ todo \in Changing /\ todo' \in Changing \ Resuming
           /\ Choose =>
                /\ todo \in Changing
                /\ \/ todo' \in Changing \ Resuming
                   \/ todo' \in Resuming /\ saved.device \in devices
           /\ LegacySession => todo \in Changing /\ todo' \in Idle
           /\ ResumeSession =>
                /\ todo \in Resuming
                /\ \/ todo' \in Resumed /\ SessionStarts("cloud", resume.room)
                                       /\ UNCHANGED <<drawn, resume>>
                   \/ todo' \in Changing \ Resuming /\ SessionFails
           /\ ResumeDevice => todo \in Resumed /\ todo' \in Idle \cup (Changing \ Resuming)
           /\ CloudSession \/ FreshSession =>
                /\ todo \in Changing
                /\ \/ todo' \in Starting /\ NewSession("cloud")
                   \/ todo' \in Idle /\ SessionFails
           /\ CreateRow => todo \in Starting /\ todo' \in Starting
           /\ Watch => todo \in Starting /\ todo' \in Idle
           /\ Fresh => todo \in Changing /\ todo' \in (Changing \ Resuming) \cup Stopping
           /\ StartRelay =>
                \/ todo \in Idle /\ todo' = <<>>
                \/ todo \in Starting /\ todo' = <<"stopWatch", "watch">>
<1>1. Choose => /\ todo \in Changing
                /\ \/ todo' \in Changing \ Resuming
                   \/ todo' \in Resuming /\ saved.device \in devices
  BY PlanBranches DEF Choose
<1>2. ResumeDevice => todo \in Resumed /\ todo' \in Idle \cup (Changing \ Resuming)
  BY PlanSteps, PlanBranches DEF ResumeDevice
<1>3. Fresh => todo \in Changing /\ todo' \in (Changing \ Resuming) \cup Stopping
  BY PlanBranches DEF Fresh
<1>4. ResumeSession => /\ todo \in Resuming
                       /\ \/ todo' \in Resumed /\ SessionStarts("cloud", resume.room)
                                              /\ UNCHANGED <<drawn, resume>>
                          \/ todo' \in Changing \ Resuming /\ SessionFails
  BY PlanBranches DEF ResumeSession
<1>5. CloudSession \/ FreshSession => /\ todo \in Changing
                                     /\ \/ todo' \in Starting /\ NewSession("cloud")
                                        \/ todo' \in Idle /\ SessionFails
  BY PlanSteps, PlanBranches DEF CloudSession, FreshSession
<1> QED
  BY <1>1, <1>2, <1>3, <1>4, <1>5, PlanSteps
  DEF StopWatch, StopCam, ClearActiveSession, LegacySession, CreateRow, Watch, StartRelay

\* A row is created at most once in a call, right after its session.
LEMMA RowOnce ==
    ASSUME todo \in Plans
    PROVE  /\ Creating \subseteq Starting
           /\ CreateRow => todo \in Creating /\ todo' \notin Creating
           /\ todo' \in Creating => ~StopWatch /\ ~Watch /\ ~StartRelay
<1>1. Creating \subseteq Starting
  BY DEF Creating, Starting
<1>2. todo \in Starting => /\ Head(todo) = "createRow" => todo \in Creating
                           /\ Head(todo) = "stopWatch" => todo \notin Creating
  BY DEF Creating, Starting
<1>3. todo \in Creating => Tail(todo) \notin Creating
  BY TailOf DEF Creating
<1>4. todo \in Starting /\ Head(todo) = "stopWatch" => Tail(todo) \notin Creating
  BY TailOf DEF Starting, Creating
<1>5. <<>> \notin Creating /\ <<"stopWatch", "watch">> \notin Creating
  BY DEF Creating
<1>6. CreateRow => todo \in Creating /\ todo' \notin Creating
  <2>1. CreateRow => Head(todo) = "createRow" /\ todo' = Tail(todo)
    BY DoNothingMore DEF CreateRow
  <2> QED
    BY <1>2, <1>3, <2>1, Phases
<1>7. StopWatch => todo' \notin Creating
  <2>1. StopWatch => Head(todo) = "stopWatch" /\ todo' = Tail(todo)
    BY DoNothingMore DEF StopWatch
  <2>2. StopWatch => todo \in Starting \/ todo' \in Stopping \cup Changing
    BY Phases
  <2> QED
    BY <1>1, <1>4, <2>1, <2>2, PhasesApart
<1>8. Watch \/ StartRelay => todo' \notin Creating
  BY <1>1, <1>5, Phases, PhasesApart
<1> QED
  BY <1>1, <1>6, <1>7, <1>8
==============================================================================
