---------------------------- MODULE MirrorProofs ----------------------------
(***************************************************************************)
(* Proofs about Mirror for every set of sockets, so for any number of      *)
(* chains of retries at once, and for every limit of the retries and of    *)
(* the decode queue.                                                       *)
(***************************************************************************)
EXTENDS Mirror, TLAPS

\* The branches of a phone's step, with the socket they are about.
LEMMA PhoneCases ==
    ASSUME PhoneNext, NEW P,
           StopCapture => P,
           RestartPhone => P,
           \A s \in Screen : RetryFires(s) => P,
           \A s \in Screen : TapReconnect(s) => P,
           \A s \in Screen : Reconnected(s) => P,
           \A s \in Screen : ReconnectFails(s) => P,
           \A s \in Screen : PostRetry(s) => P,
           \A s \in Service : Grant(s) => P,
           \A s \in Service : ServiceConnected(s) => P,
           \A s \in Service : ServiceFails(s) => P
    PROVE  P
BY DEF PhoneNext, ScreenStep, ServiceStep

------------------------------------------------------------------------------
\* Type correctness of the phone.

LEMMA PhoneInitType == PhoneInit => PhoneTypeOK
<1> SUFFICES ASSUME PhoneInit PROVE PhoneTypeOK
  OBVIOUS
<1>1. {registry, encoder} \cap Sock = {}
  BY PhoneAssumption DEF PhoneInit
<1>2. sock \in [Sock -> {"free", "asking", "up"}]
  BY DEF PhoneInit
<1>3. timers \in 0..MaxTimers
  BY PhoneAssumption DEF PhoneInit
<1> QED
  BY <1>1, <1>2, <1>3 DEF PhoneInit, PhoneTypeOK, SockOrNot

\* A socket nobody refers to may start to dial.
LEMMA DialType ==
    ASSUME PhoneTypeOK, NEW s \in Sock, Dial(s), UNCHANGED capture
    PROVE  /\ sock' \in [Sock -> {"free", "asking", "up"}]
           /\ seen' \in [Sock -> (0..MaxAttempts - 1) \cup {None}]
           /\ registry' \in SockOrNot /\ encoder' \in SockOrNot
           /\ \A t \in {registry', encoder'} \cap Sock : sock'[t] = "up"
BY DEF PhoneTypeOK, Dial, capture

\* An answered socket is up when the registry takes it.
LEMMA AnsweredType ==
    ASSUME PhoneTypeOK, NEW s \in Sock, Answered(s),
           encoder' = encoder \/ encoder' = CaptureFrom(encoder, s)
    PROVE  /\ sock' \in [Sock -> {"free", "asking", "up"}]
           /\ seen' \in [Sock -> (0..MaxAttempts - 1) \cup {None}]
           /\ registry' \in SockOrNot /\ encoder' \in SockOrNot
           /\ \A t \in {registry', encoder'} \cap Sock : sock'[t] = "up"
BY DEF PhoneTypeOK, Answered, CaptureFrom, SockOrNot

\* No reference to a socket survives its end.
LEMMA BreaksType ==
    ASSUME PhoneTypeOK, NEW s \in Sock, Breaks(s),
           encoder' = AsLost(s, encoder)
              \/ encoder' = CaptureFrom(AsLost(s, encoder), registry')
    PROVE  /\ sock' \in [Sock -> {"free", "asking", "up"}]
           /\ registry' \in SockOrNot /\ encoder' \in SockOrNot
           /\ \A t \in {registry', encoder'} \cap Sock : sock'[t] = "up"
<1>1. /\ AsLost(s, registry) \in SockOrNot \ {s}
      /\ AsLost(s, encoder) \in SockOrNot \ {s}
  BY PhoneAssumption DEF PhoneTypeOK, AsLost, SockOrNot
<1>2. /\ registry' \in SockOrNot \ {s}
      /\ encoder' \in SockOrNot \ {s}
  BY <1>1 DEF Breaks, CaptureFrom
<1>3. /\ registry' \in {registry, Lost}
      /\ encoder' \in {encoder, registry, Lost}
  BY DEF Breaks, AsLost, CaptureFrom
<1>4. \A t \in Sock \ {s} : sock'[t] = sock[t]
  BY DEF Breaks, PhoneTypeOK
<1> QED
  BY <1>2, <1>3, <1>4, PhoneAssumption DEF PhoneTypeOK, Breaks

LEMMA PhoneStepType == PhoneTypeOK /\ PhoneNext => PhoneTypeOK'
<1> SUFFICES ASSUME PhoneTypeOK, PhoneNext PROVE PhoneTypeOK'
  OBVIOUS
<1>0. Screen \subseteq Sock /\ Service \subseteq Sock
  BY DEF Sock
<1>1. ASSUME StopCapture PROVE PhoneTypeOK'
  <2>1. {registry', encoder'} \cap Sock = {}
    BY <1>1, PhoneAssumption DEF StopCapture
  <2>2. sock' \in [Sock -> {"free", "asking", "up"}] /\ trying' \in BOOLEAN
    BY <1>1 DEF PhoneTypeOK, StopCapture
  <2> QED
    BY <1>1, <2>1, <2>2 DEF PhoneTypeOK, StopCapture, SockOrNot
<1>2. ASSUME RestartPhone PROVE PhoneTypeOK'
  <2>1. {registry', encoder'} \cap Sock = {}
    BY <1>2, PhoneAssumption DEF RestartPhone
  <2>2. sock' \in [Sock -> {"free", "asking", "up"}]
    BY <1>2 DEF RestartPhone
  <2>3. timers' \in 0..MaxTimers
    BY <1>2, PhoneAssumption DEF RestartPhone
  <2> QED
    BY <1>2, <2>1, <2>2, <2>3 DEF PhoneTypeOK, RestartPhone, SockOrNot
<1>3. ASSUME NEW s \in Screen, RetryFires(s) PROVE PhoneTypeOK'
  <2>1. timers' \in 0..MaxTimers
    BY <1>3, PhoneAssumption DEF PhoneTypeOK, RetryFires
  <2> QED
    BY <1>0, <1>3, <2>1, DialType DEF PhoneTypeOK, RetryFires
<1>4. ASSUME NEW s \in Screen, TapReconnect(s) PROVE PhoneTypeOK'
  BY <1>0, <1>4, DialType DEF PhoneTypeOK, TapReconnect
<1>5. ASSUME NEW s \in Screen, Reconnected(s) PROVE PhoneTypeOK'
  BY <1>0, <1>5, AnsweredType DEF PhoneTypeOK, Reconnected
<1>6. ASSUME NEW s \in Screen, ReconnectFails(s) PROVE PhoneTypeOK'
  <2>1. seen' \in [Sock -> (0..MaxAttempts - 1) \cup {None}]
    BY <1>0, <1>6, PhoneAssumption DEF PhoneTypeOK, ReconnectFails
  <2>2. CASE Refuses(s) /\ UNCHANGED encoder
    BY <1>6, <2>1, <2>2 DEF PhoneTypeOK, ReconnectFails, Refuses
  <2>3. CASE Breaks(s) /\ encoder' = AsLost(s, encoder)
    BY <1>0, <1>6, <2>1, <2>3, BreaksType DEF PhoneTypeOK, ReconnectFails
  <2> QED
    BY <1>6, <2>2, <2>3 DEF ReconnectFails
<1>7. ASSUME NEW s \in Screen, PostRetry(s) PROVE PhoneTypeOK'
  <2>1. seen[s] \in Nat
    BY <1>0, <1>7, PhoneAssumption DEF PhoneTypeOK, PostRetry
  <2>2. attempts' \in Nat /\ timers' \in 0..MaxTimers
    BY <1>7, <2>1, PhoneAssumption DEF PhoneTypeOK, PostRetry
  <2>3. seen' \in [Sock -> (0..MaxAttempts - 1) \cup {None}]
    BY <1>7 DEF PhoneTypeOK, PostRetry
  <2> QED
    BY <1>7, <2>2, <2>3 DEF PhoneTypeOK, PostRetry, capture
<1>8. ASSUME NEW s \in Service, Grant(s) PROVE PhoneTypeOK'
  BY <1>0, <1>8, DialType DEF PhoneTypeOK, Grant
<1>9. ASSUME NEW s \in Service, ServiceConnected(s) PROVE PhoneTypeOK'
  BY <1>0, <1>9, AnsweredType DEF PhoneTypeOK, ServiceConnected
<1>10. ASSUME NEW s \in Service, ServiceFails(s) PROVE PhoneTypeOK'
  <2>1. CASE Refuses(s) /\ encoder' = CaptureFrom(encoder, registry)
    BY <1>10, <2>1 DEF PhoneTypeOK, ServiceFails, Refuses, CaptureFrom
  <2>2. CASE Breaks(s) /\ encoder' = CaptureFrom(AsLost(s, encoder), registry')
    BY <1>0, <1>10, <2>2, BreaksType DEF PhoneTypeOK, ServiceFails
  <2> QED
    BY <1>10, <2>1, <2>2 DEF ServiceFails
<1> QED
  BY <1>1, <1>2, <1>3, <1>4, <1>5, <1>6, <1>7, <1>8, <1>9, <1>10, PhoneCases

------------------------------------------------------------------------------
\* The retries.

LEMMA PhoneInitTrying == PhoneInit => KeepsTrying
BY DEF PhoneInit, KeepsTrying, Sock

\* A step that ends the last connection leaves a retry behind, or the limit
\* reached; one that changes the counter leaves a connection or a retry.
LEMMA PhoneStepTrying ==
    PhoneTypeOK /\ KeepsTrying /\ PhoneNext => KeepsTrying'
<1> SUFFICES ASSUME PhoneTypeOK, KeepsTrying, PhoneNext PROVE KeepsTrying'
  OBVIOUS
<1>0. Screen \subseteq Sock /\ Service \subseteq Sock /\ Screen \cap Service = {}
  BY PhoneAssumption DEF Sock
<1>1. ASSUME StopCapture PROVE KeepsTrying'
  BY <1>0, <1>1 DEF PhoneTypeOK, KeepsTrying, StopCapture
<1>2. ASSUME RestartPhone PROVE KeepsTrying'
  BY <1>0, <1>2 DEF KeepsTrying, RestartPhone
<1>3. ASSUME NEW s \in Screen, RetryFires(s) PROVE KeepsTrying'
  BY <1>0, <1>3 DEF PhoneTypeOK, KeepsTrying, RetryFires, Dial
<1>4. ASSUME NEW s \in Screen, TapReconnect(s) PROVE KeepsTrying'
  BY <1>0, <1>4 DEF PhoneTypeOK, KeepsTrying, TapReconnect, Dial
<1>5. ASSUME NEW s \in Screen, Reconnected(s) PROVE KeepsTrying'
  BY <1>0, <1>5 DEF PhoneTypeOK, KeepsTrying, Reconnected, Answered
<1>6. ASSUME NEW s \in Screen, ReconnectFails(s) PROVE KeepsTrying'
  <2>1. CASE attempts < MaxAttempts
    <3>1. seen'[s] # None
      BY <1>0, <1>6, <2>1, PhoneAssumption DEF PhoneTypeOK, ReconnectFails
    <3> QED
      BY <3>1 DEF KeepsTrying
  <2>2. CASE ~(attempts < MaxAttempts)
    BY <1>6, <2>2, PhoneAssumption DEF PhoneTypeOK, KeepsTrying, ReconnectFails
  <2> QED
    BY <2>1, <2>2
<1>7. ASSUME NEW s \in Screen, PostRetry(s) PROVE KeepsTrying'
  BY <1>7 DEF PhoneTypeOK, KeepsTrying, PostRetry
<1>8. ASSUME NEW s \in Service, Grant(s) PROVE KeepsTrying'
  BY <1>0, <1>8 DEF PhoneTypeOK, KeepsTrying, Grant, Dial
<1>9. ASSUME NEW s \in Service, ServiceConnected(s) PROVE KeepsTrying'
  BY <1>0, <1>9 DEF PhoneTypeOK, KeepsTrying, ServiceConnected, Answered
<1>10. ASSUME NEW s \in Service, ServiceFails(s) PROVE KeepsTrying'
  BY <1>0, <1>10 DEF PhoneTypeOK, KeepsTrying, ServiceFails, Refuses, Breaks
<1> QED
  BY <1>1, <1>2, <1>3, <1>4, <1>5, <1>6, <1>7, <1>8, <1>9, <1>10, PhoneCases

------------------------------------------------------------------------------
\* The page.

Chunk == {"key", "delta", "torn"}

\* No delta waits behind more than MaxQueue chunks of q.
Bounded(q) == \A i \in 1..Len(q) : q[i] # "key" => i <= MaxQueue + 1

PageInv == PageTypeOK /\ DeltasDoNotQueueUp

LEMMA EmptyIsBounded == <<>> \in Seq(Chunk) /\ Len(<<>>) = 0 /\ Bounded(<<>>)
BY DEF Bounded, Chunk

\* A chunk may join if it is a keyframe or there is room for a delta.
LEMMA AppendIsBounded ==
    ASSUME NEW q \in Seq(Chunk), NEW c \in Chunk
    PROVE  /\ Append(q, c) \in Seq(Chunk) /\ Len(Append(q, c)) = Len(q) + 1
           /\ Bounded(q) /\ (c = "key" \/ Len(q) <= MaxQueue) => Bounded(Append(q, c))
BY RendererAssumption DEF Bounded, Chunk

LEMMA TailIsBounded ==
    ASSUME NEW q \in Seq(Chunk), q # <<>>
    PROVE  /\ Tail(q) \in Seq(Chunk) /\ Len(Tail(q)) = Len(q) - 1
           /\ Bounded(q) => Bounded(Tail(q))
BY RendererAssumption DEF Bounded, Chunk

LEMMA PageInitInv == PageInit => PageInv
<1> SUFFICES ASSUME PageInit PROVE PageInv
  OBVIOUS
<1>1. /\ queue \in Seq({"key", "delta", "torn"}) /\ Len(queue) <= MaxBacklog
      /\ DeltasDoNotQueueUp
  BY EmptyIsBounded, RendererAssumption
  DEF PageInit, DeltasDoNotQueueUp, Bounded, Chunk
<1> QED
  BY <1>1 DEF PageInit, PageInv, PageTypeOK

\* A decoder that goes takes its queue along.
LEMMA EmptiedIsBounded ==
    ASSUME queue' = <<>>
    PROVE  /\ queue' \in Seq({"key", "delta", "torn"}) /\ Len(queue') <= MaxBacklog
           /\ DeltasDoNotQueueUp'
BY EmptyIsBounded, RendererAssumption DEF DeltasDoNotQueueUp, Bounded, Chunk

\* Accepting the latest frame.
LEMMA AcceptsInv ==
    ASSUME PageInv, NEW pending \in Seq(Chunk), Accepts(pending),
           ~broken' => Bounded(pending) /\ (latest = "key" \/ Len(pending) <= MaxQueue),
           latest \in Frame
    PROVE  /\ queue' \in Seq(Chunk) /\ Len(queue') <= MaxBacklog
           /\ ~broken' => Bounded(queue')
           /\ decoder' = "running" /\ missed' \in BOOLEAN
<1> DEFINE chunk == IF latest = "delta" /\ missed THEN "torn" ELSE latest
<1>1. chunk \in Chunk /\ (latest = "key" => chunk = "key")
  BY DEF Chunk, Frame
<1>2. queue' = Append(pending, chunk) /\ Len(pending) < MaxBacklog
  BY DEF Accepts
<1>3. Len(pending) \in Nat
  BY DEF Chunk
<1> QED
  BY <1>1, <1>2, <1>3, AppendIsBounded, RendererAssumption
  DEF Accepts, PageInv, PageTypeOK

LEMMA PushToNewInv == PageInv /\ PushToNew => PageInv'
<1> SUFFICES ASSUME PageInv, PushToNew PROVE PageInv'
  OBVIOUS
<1>0. latest \in Frame
  BY DEF PageInv, PageTypeOK, PushToNew, Pushing
<1>1. /\ queue' \in Seq(Chunk) /\ Len(queue') <= MaxBacklog
      /\ ~broken' => Bounded(queue')
      /\ decoder' \in {"fresh", "running"} /\ missed' \in BOOLEAN /\ broken' \in BOOLEAN
  <2>1. CASE latest = "key" /\ Accepts(<<>>) /\ broken' = FALSE
    BY <1>0, <2>1, AcceptsInv, EmptyIsBounded
  <2>2. CASE Throws("fresh", <<>>)
    BY <2>2, EmptyIsBounded, RendererAssumption DEF Throws
  <2> QED
    BY <2>1, <2>2 DEF PushToNew
<1> QED
  BY <1>1 DEF PageInv, PageTypeOK, DeltasDoNotQueueUp, Bounded, Chunk, PushToNew, Pushing

LEMMA PushToOldInv == PageInv /\ PushToOld => PageInv'
<1> SUFFICES ASSUME PageInv, PushToOld PROVE PageInv'
  OBVIOUS
<1>0. /\ latest \in Frame
      /\ queue \in Seq(Chunk) /\ Len(queue) \in Nat /\ Len(queue) <= MaxBacklog
      /\ ~broken => Bounded(queue)
  BY DEF PageInv, PageTypeOK, DeltasDoNotQueueUp, Bounded, PushToOld, Pushing, Chunk
<1>1. ~broken => latest = "key" \/ Len(queue) <= MaxQueue
  BY <1>0, RendererAssumption DEF PushToOld, Stale, Recreates, Frame
<1>2. /\ queue' \in Seq(Chunk) /\ Len(queue') <= MaxBacklog
      /\ ~broken' => Bounded(queue')
      /\ decoder' \in {"fresh", "running"} /\ missed' \in BOOLEAN /\ broken' \in BOOLEAN
  <2>1. CASE Accepts(queue) /\ UNCHANGED broken
    BY <1>0, <1>1, <2>1, AcceptsInv DEF PageInv, PageTypeOK
  <2>2. CASE Throws(decoder, queue)
    BY <1>0, <2>2 DEF Throws, PushToOld
  <2> QED
    BY <2>1, <2>2 DEF PushToOld
<1> QED
  BY <1>2 DEF PageInv, PageTypeOK, DeltasDoNotQueueUp, Bounded, Chunk, PushToOld, Pushing

LEMMA OutputInv == PageInv /\ Output => PageInv'
<1> SUFFICES ASSUME PageInv, Output PROVE PageInv'
  OBVIOUS
<1>1. queue \in Seq(Chunk) /\ queue # <<>> /\ Len(queue) \in Nat
  BY DEF PageInv, PageTypeOK, Chunk, Output
<1>2. /\ queue' \in Seq(Chunk) /\ Len(queue') <= MaxBacklog
      /\ Bounded(queue) => Bounded(queue')
  BY <1>1, TailIsBounded, RendererAssumption DEF PageInv, PageTypeOK, Output
<1> QED
  BY <1>2 DEF PageInv, PageTypeOK, DeltasDoNotQueueUp, Bounded, Chunk, Output

LEMMA PageStepInv == PageInv /\ PageStep => PageInv'
<1> SUFFICES ASSUME PageInv, PageStep PROVE PageInv'
  OBVIOUS
<1> USE DEF PageInv, PageTypeOK, DeltasDoNotQueueUp
<1>1. CASE Hide
  BY <1>1, EmptiedIsBounded DEF Hide
<1>2. CASE Show
  BY <1>2 DEF Show
<1>3. CASE Resize
  BY <1>3 DEF Resize
<1>4. CASE DropStale \/ PushNowhere
  BY <1>4 DEF DropStale, PushNowhere, Pushing
<1>5. CASE CrashOnClose
  BY <1>5, EmptiedIsBounded DEF CrashOnClose, Pushing
<1>6. CASE AwaitKeyframe
  BY <1>6 DEF AwaitKeyframe, Pushing
<1>7. CASE FatalError
  BY <1>7, EmptiedIsBounded DEF FatalError
<1>8. CASE DeviceChanges
  BY <1>8 DEF DeviceChanges
<1> QED
  BY <1>1, <1>2, <1>3, <1>4, <1>5, <1>6, <1>7, <1>8, PushToNewInv, PushToOldInv, OutputInv
  DEF PageStep, Push

LEMMA FrameArrivesInv ==
    ASSUME PageInv, NEW f \in Frame, FrameArrives(f)
    PROVE  PageInv'
BY DEF PageInv, PageTypeOK, DeltasDoNotQueueUp, FrameArrives, Frame

------------------------------------------------------------------------------
\* The whole mirror.

IInv == PhoneTypeOK /\ KeepsTrying /\ PageInv

LEMMA PhoneUnchanged ==
    PhoneTypeOK /\ KeepsTrying /\ UNCHANGED phoneVars => PhoneTypeOK' /\ KeepsTrying'
BY DEF PhoneTypeOK, KeepsTrying, phoneVars, capture

LEMMA StepInv == IInv /\ [Next]_vars => IInv'
<1> SUFFICES ASSUME IInv, [Next]_vars PROVE IInv'
  OBVIOUS
<1>1. CASE PhoneMoves
  <2>1. PageInv'
    BY <1>1 DEF IInv, PageInv, PageTypeOK, DeltasDoNotQueueUp, PhoneMoves
  <2> QED
    BY <1>1, <2>1, PhoneStepType, PhoneStepTrying DEF IInv, PhoneMoves
<1>2. CASE PageMoves
  BY <1>2, PageStepInv, PhoneUnchanged DEF IInv, PageMoves
<1>3. CASE LoseFrame
  <2>1. PageInv' /\ UNCHANGED phoneVars
    BY <1>3 DEF IInv, PageInv, PageTypeOK, DeltasDoNotQueueUp, LoseFrame
  <2> QED
    BY <2>1, PhoneUnchanged DEF IInv
<1>4. ASSUME NEW f \in Frame, SendFrame(f) PROVE IInv'
  BY <1>4, FrameArrivesInv, PhoneUnchanged DEF IInv, SendFrame
<1>5. CASE UNCHANGED vars
  <2>1. PageInv' /\ UNCHANGED phoneVars
    BY <1>5 DEF IInv, PageInv, PageTypeOK, DeltasDoNotQueueUp, vars, pageVars
  <2> QED
    BY <2>1, PhoneUnchanged DEF IInv
<1> QED
  BY <1>1, <1>2, <1>3, <1>4, <1>5 DEF Next

\* Every state of the mirror satisfies the three invariants together.
THEOREM Invariant == Spec => []IInv
<1>1. Init => IInv
  BY PhoneInitType, PhoneInitTrying, PageInitInv DEF Init, IInv
<1> QED
  BY <1>1, StepInv, PTL DEF Spec

\* The variables of the phone and of the page keep their types, and what the
\* registry and the encoder name is a live socket or known as lost.
THEOREM TypeCorrect == Spec => []TypeOK
<1>1. IInv => TypeOK
  BY DEF IInv, PageInv, TypeOK
<1> QED
  BY <1>1, Invariant, PTL

\* Any number of chains of retries, racing on the counter, ends only at the limit
\* (MainActivity.kt:116-124).
THEOREM RetriesGoOn == Spec => []KeepsTrying
<1>1. IInv => KeepsTrying
  BY DEF IInv
<1> QED
  BY <1>1, Invariant, PTL

\* Whatever MAX_QUEUE is, a sound decoder never has a delta beyond it
\* (h264Renderer.ts:53-58).
THEOREM QueueIsBounded == Spec => []DeltasDoNotQueueUp
<1>1. IInv => DeltasDoNotQueueUp
  BY DEF IInv, PageInv
<1> QED
  BY <1>1, Invariant, PTL
==============================================================================
