------------------------------- MODULE Phone -------------------------------
(***************************************************************************)
(* The Android phone: MainActivity with its reconnects, the capture        *)
(* service, and the one SocketRegistry both write to.  Each of the two     *)
(* opens sockets of its own; the encoder keeps the socket its capture      *)
(* began with.  One action is one callback of OkHttp, of Android or of the *)
(* user.  The desktop and the relay are what the callbacks report, the     *)
(* phone has paired, and startCapture is not interrupted by stopCapture.   *)
(***************************************************************************)
EXTENDS Naturals

CONSTANTS
    Screen,        \* names of MainActivity's reconnecting sockets, used again
                   \* when a socket is gone
    Service,       \* of the sockets of ScreenCaptureService
    None,          \* no socket, nothing read
    Lost,          \* a socket that is gone but still referred to
    MaxAttempts,   \* MAX_RECONNECT_ATTEMPTS
    MaxTimers      \* bound: retries posted at once

Sock == Screen \cup Service

ASSUME PhoneAssumption ==
    /\ Screen \cap Service = {}
    /\ None \notin Sock \cup Nat /\ Lost \notin Sock /\ None # Lost
    /\ MaxAttempts \in Nat /\ MaxTimers \in Nat

VARIABLES
    sock,       \* each socket: free, asking from the dial to the answer, up
    seen,       \* the counter as read by its error handler, while that runs
    attempts,   \* reconnectAttempts
    timers,     \* attempts posted with postDelayed
    registry,   \* SocketRegistry.current()
    encoder,    \* the socket of the running encoder's FrameSender
    serving,    \* a ScreenCaptureService is there
    trying      \* history: MainActivity reconnected and nobody closed its socket

capture == <<registry, encoder>>
phoneVars == <<sock, seen, attempts, timers, capture, serving, trying>>

SockOrNot == Sock \cup {None, Lost}

PhoneTypeOK ==
    /\ sock \in [Sock -> {"free", "asking", "up"}]
    /\ seen \in [Sock -> (0..MaxAttempts - 1) \cup {None}]
    /\ attempts \in Nat
    /\ timers \in 0..MaxTimers
    /\ registry \in SockOrNot
    /\ encoder \in SockOrNot
    /\ serving \in BOOLEAN
    /\ \A s \in {registry, encoder} \cap Sock : sock[s] = "up"
    /\ trying \in BOOLEAN

PhoneInit ==
    /\ \E s \in Screen : sock = [t \in Sock |-> IF t = s THEN "asking" ELSE "free"]
    /\ seen = [s \in Sock |-> None]
    /\ attempts = 0
    /\ timers = 0
    /\ registry = None
    /\ encoder = None
    /\ serving = FALSE
    /\ trying = TRUE

------------------------------------------------------------------------------
\* MainActivity.

Dial(s) ==
    /\ sock[s] = "free" /\ seen[s] = None
    /\ sock' = [sock EXCEPT ![s] = "asking"]
    /\ UNCHANGED seen

\* attemptReconnect of a timer, and by hand.
RetryFires(s) ==
    /\ timers > 0
    /\ timers' = timers - 1
    /\ Dial(s)
    /\ UNCHANGED <<attempts, capture, serving, trying>>

TapReconnect(s) ==
    /\ attempts' = 0
    /\ Dial(s)
    /\ trying' = TRUE
    /\ UNCHANGED <<timers, capture, serving>>

\* The user agrees to a capture, which a button or onReady proposed, and the
\* service starts.
Grant(s) ==
    /\ Dial(s)
    /\ serving' = TRUE
    /\ UNCHANGED <<attempts, timers, capture, trying>>

------------------------------------------------------------------------------
\* DesktopSocket: what its listeners report.

\* A success arrives: the answer to this socket or, through the relay, to
\* another one of the phone.
Answered(s) ==
    /\ seen[s] = None
    /\ \/ sock[s] = "asking"
       \/ sock[s] = "up" /\ \E t \in Sock \ {s} : sock[t] # "free"
    /\ sock' = [sock EXCEPT ![s] = "up"]
    /\ registry' = s
    /\ UNCHANGED seen

\* onReady of a reconnect.
Reconnected(s) ==
    /\ Answered(s)
    /\ attempts' = 0
    /\ UNCHANGED <<timers, encoder, serving, trying>>

\* startCapture does nothing while there is an encoder.
CaptureFrom(current, target) == IF current = None THEN target ELSE current

ServiceConnected(s) ==
    /\ Answered(s)
    /\ encoder' = CaptureFrom(encoder, s)
    /\ UNCHANGED <<attempts, timers, serving, trying>>

\* What refers to a dead socket goes on referring to it.
AsLost(s, r) == IF r = s THEN Lost ELSE r

\* A refusal leaves the socket open, a failure is its end.
Refuses(s) ==
    /\ sock[s] # "free"
    /\ UNCHANGED <<sock, registry>>

Breaks(s) ==
    /\ sock[s] # "free"
    /\ sock' = [sock EXCEPT ![s] = "free"]
    /\ registry' = AsLost(s, registry)

\* Mutated: the end of a connection that was answered is not an error.
ReconnectFailsUnanswered(s) ==
    /\ seen[s] = None
    /\ \/ Refuses(s) /\ UNCHANGED encoder
       \/ Breaks(s) /\ encoder' = AsLost(s, encoder)
    /\ seen' = [seen EXCEPT ![s] = IF attempts < MaxAttempts /\ sock[s] = "asking"
                                   THEN attempts ELSE None]
    /\ UNCHANGED <<attempts, timers, serving, trying>>

\* onError of a reconnect reads the counter, and below the limit counts and posts
\* a retry; other threads may write the counter in between.
ReconnectFails(s) ==
    /\ seen[s] = None
    /\ \/ Refuses(s) /\ UNCHANGED encoder
       \/ Breaks(s) /\ encoder' = AsLost(s, encoder)
    /\ seen' = [seen EXCEPT ![s] = IF attempts < MaxAttempts THEN attempts ELSE None]
    /\ UNCHANGED <<attempts, timers, serving, trying>>

PostRetry(s) ==
    /\ seen[s] # None
    /\ timers < MaxTimers
    /\ timers' = timers + 1
    /\ attempts' \in {seen[s] + 1, attempts + 1}
    /\ seen' = [seen EXCEPT ![s] = None]
    /\ UNCHANGED <<sock, capture, serving, trying>>

\* onError of the service captures for the socket in the registry, dead or not.
\* Without one the service stops: StopCapture follows, perhaps after MainActivity
\* gave the registry a socket.
ServiceFails(s) ==
    /\ \/ Refuses(s) /\ encoder' = CaptureFrom(encoder, registry)
       \/ Breaks(s) /\ encoder' = CaptureFrom(AsLost(s, encoder), registry')
    /\ UNCHANGED <<seen, attempts, timers, serving, trying>>

------------------------------------------------------------------------------
\* The end of a capture, and of the service, with a capture or without: stopCapture
\* closes the socket in the registry, which no listener hears of.
StopCapture ==
    /\ serving \/ encoder # None
    /\ serving' = FALSE
    /\ encoder' = None
    /\ registry' = None
    /\ sock' = IF registry \in Sock THEN [sock EXCEPT ![registry] = "free"] ELSE sock
    /\ trying' = (trying /\ registry \notin Screen)
    /\ UNCHANGED <<seen, attempts, timers>>

\* The process ends; onCreate reconnects if there is somebody to reconnect to.
RestartPhone ==
    /\ \E s \in Screen : sock' = [t \in Sock |-> IF t = s THEN "asking" ELSE "free"]
    /\ seen' = [s \in Sock |-> None]
    /\ attempts' = 0
    /\ timers' = 0
    /\ registry' = None
    /\ encoder' = None
    /\ serving' = FALSE
    /\ trying' = TRUE

ScreenStep(s) ==
    RetryFires(s) \/ TapReconnect(s) \/ Reconnected(s) \/ ReconnectFails(s) \/ PostRetry(s)

ServiceStep(s) == Grant(s) \/ ServiceConnected(s) \/ ServiceFails(s)

PhoneNext ==
    \/ StopCapture \/ RestartPhone
    \/ \E s \in Screen : ScreenStep(s)
    \/ \E s \in Service : ServiceStep(s)

------------------------------------------------------------------------------
\* MainActivity stops trying only when the retries are used up, whatever several
\* chains of retries and their unsynchronised counter do (MainActivity.kt:116-124).
KeepsTrying ==
    trying /\ timers = 0 /\ (\A s \in Screen : sock[s] = "free" /\ seen[s] = None)
        => attempts >= MaxAttempts
==============================================================================
