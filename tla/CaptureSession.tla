---------------------------- MODULE CaptureSession ----------------------------
(***************************************************************************)
(* A capture session of the Companion Android app (CaptureService with its *)
(* ControlServers, ControlDispatcher, NativeRegions and Fnaf2Legacy): the  *)
(* main thread that starts and stops it, the thread its frames arrive on,  *)
(* and the two listeners that answer a host.  Each runs between any two    *)
(* steps of the others, and a listener may outlive its session.            *)
(*                                                                         *)
(* An image is its time.  Captures at another size than the native one,    *)
(* the overlay, lessons, the audio probe, the lease's label, the verbs     *)
(* that only read, an image the reader's queue of three has no room for    *)
(* and a stop before the first start are left out.                         *)
(***************************************************************************)
EXTENDS Naturals, FiniteSets

CONSTANTS
  Uses,         (* what hosts may ask for in one behaviour, over how many  *)
                (* sessions and images: bounds                             *)
  Names,        (* regions' names                                          *)
  TRACE_MAX_FRAMES,
  MaxSessions, MaxTraces        (* bounds: sessions and traces             *)

Verbs == {"SET", "CLEAR", "SNAP", "TARGET", "TRACE", "STOP"}

(* Of the constants; assumed where they are given their values.            *)
CaptureAssumption ==
  /\ MaxSessions \in Nat /\ MaxTraces \in Nat /\ TRACE_MAX_FRAMES \in Nat \ {0}
  /\ Uses \subseteq [verbs : SUBSET Verbs, sessions : 1..MaxSessions, images : Nat]

Generations == 1..2 * MaxSessions       (* each start and each stop counts one   *)
Listeners == {"tcp", "local"}
Workers == Listeners \X Generations     (* the listener threads there may be     *)

VARIABLES
  use,                       (* what hosts ask for here, and its bounds    *)
  (* the main thread *)
  generation, stopping,      (* sessionGeneration, stopping                *)
  main, projection,          (* where it is; the generation captured, or 0 *)
  endpoint, token,           (* the generation the file and the token are  *)
                             (* of, or 0                                   *)
  running, up,               (* controlRunning; the sockets that are open  *)
  target,                    (* "fnaf2" or "other"                         *)
  (* the listeners *)
  worker,                    (* where each is, its SNAP, what it writes    *)
  (* the frame thread *)
  shown, taken,              (* the newest image, the last one acquired    *)
  visual,                    (* where it is and the locals of its callback *)
  (* shared *)
  regions, frontSequence,    (* each registered region's front, by image   *)
  snapRequest,               (* the worker whose SNAP stands, or NoOne     *)
  trace, traceActive,        (* Fnaf2Legacy's held trace                   *)
  started, saving, written   (* traces begun, being saved, written         *)

session   == <<use, generation, stopping, main, projection, endpoint, token, running, up>>
frames    == <<shown, taken, visual>>
observed  == <<regions, frontSequence, snapRequest>>
traces    == <<trace, traceActive, started, saving, written>>
vars      == <<session, target, worker, frames, observed, traces>>

NoOne == <<"none", 0>>
NoTrace == [id |-> 0, start |-> 0, rows |-> {}]
NoFrame == [pc |-> "none", gen |-> 0, img |-> 0, legacy |-> FALSE, drain |-> FALSE,
            copies |-> FALSE, snap |-> NoOne]

Init ==
  /\ use \in Uses /\ generation = 0 /\ stopping = FALSE /\ main = "idle" /\ projection = 0
  /\ endpoint = 0 /\ token = 0 /\ running = FALSE /\ up = {} /\ target \in {"fnaf2", "other"}
  /\ worker = [w \in Workers |-> [pc |-> "none", asked |-> 0, got |-> 0, job |-> 0]]
  /\ shown = 0 /\ taken = 0 /\ visual = NoFrame
  /\ regions = <<>> /\ frontSequence = 0 /\ snapRequest = NoOne
  /\ trace = NoTrace /\ traceActive = FALSE /\ started = 0 /\ saving = {}
  /\ written = [t \in 1..MaxTraces |-> 0]

sessionActive(g) == generation = g /\ ~stopping
legacyActive == target = "fnaf2"
At(w, p) == worker[w].pc = p
Goto(w, p) == worker' = [worker EXCEPT ![w].pc = p]

-----------------------------------------------------------------------------
(* The main thread: onStartCommand, stopCapture                            *)

StartCommand ==
  /\ main = "idle" /\ projection = 0 /\ generation < 2 * use.sessions
  /\ stopping' = FALSE /\ main' = "starting"
  /\ UNCHANGED <<use, generation, projection, endpoint, token, running, up, target, worker, frames,
                 observed, traces>>

(* The consent may be no good, or the display.                             *)
Project ==
  /\ main = "starting" /\ generation' = generation + 1
  /\ \/ /\ main' = "failing" /\ UNCHANGED <<projection, frames>>
     \/ /\ main' = "projecting" /\ projection' = generation'
        /\ visual' = [NoFrame EXCEPT !.pc = "idle", !.gen = generation'] /\ taken' = shown
        /\ UNCHANGED shown
  /\ UNCHANGED <<use, stopping, endpoint, token, running, up, target, worker, observed, traces>>

(* servers.start; the second socket, or the first, may refuse to open.     *)
Listen ==
  /\ main = "projecting" /\ token' = generation
  /\ \/ /\ main' = "idle" /\ running' = TRUE /\ endpoint' = generation
        /\ up' = Listeners \X {generation}
        /\ worker' = [w \in Workers |-> IF w \in up' THEN [worker[w] EXCEPT !.pc = "accept"]
                                        ELSE worker[w]]
     \/ /\ main' = "failing" /\ up' \in {{}, {<<"tcp", generation>>}}
        /\ UNCHANGED <<running, endpoint, worker>>
  /\ UNCHANGED <<use, generation, stopping, projection, target, frames, observed, traces>>

(* The operator, a projection that ended, or a start that failed.          *)
StopBegins ==
  /\ main = "failing" \/ (main = "idle" /\ projection # 0)
  /\ stopping' = TRUE /\ generation' = generation + 1 /\ endpoint' = 0 /\ main' = "stopping"
  /\ UNCHANGED <<use, projection, token, running, up, target, worker, frames, observed, traces>>

(* Mutant: the trace detached is still the one held.                       *)
DetachKeepsIt == traceActive' = FALSE /\ UNCHANGED trace

traceDetach == traceActive' = FALSE /\ trace' = NoTrace

StopDetaches ==
  /\ main = "stopping" /\ main' = "detached"
  /\ \/ /\ trace # NoTrace /\ traceDetach /\ saving' = saving \cup {trace.id}
     \/ /\ trace = NoTrace /\ UNCHANGED <<trace, traceActive, saving>>
  /\ UNCHANGED <<use, generation, stopping, projection, endpoint, token, running, up, target, worker,
                 frames, observed, started, written>>

Saved(t) ==
  /\ t \in saving /\ saving' = saving \ {t} /\ written' = [written EXCEPT ![t] = @ + 1]
  /\ UNCHANGED <<session, target, worker, frames, observed, trace, traceActive, started>>

StopServers ==
  /\ main = "detached" /\ main' = "closed" /\ running' = FALSE /\ up' = {}
  /\ UNCHANGED <<use, generation, stopping, projection, endpoint, token, target, worker, frames,
                 observed, traces>>

(* A listener that reads a slow client, encodes a picture (or waits for    *)
(* one) or writes a trace may outlast its join.                            *)
Slow(w) == \/ worker[w].pc \in {"read", "encoding", "writing"}
           \/ At(w, "SNAP") /\ \E v \in Workers : At(v, "encoding")

(* Mutant: the listeners' threads are left to end by themselves.           *)
NotJoined(l) == TRUE

Joined(l) == LET w == <<l, generation - 1>> IN w \in Workers => At(w, "none") \/ Slow(w)

StopJoins ==
  /\ main = "closed" /\ Joined("tcp") /\ main' = "joining"
  /\ UNCHANGED <<use, generation, stopping, projection, endpoint, token, running, up, target, worker,
                 frames, observed, traces>>

StopRevokes ==
  /\ main = "joining" /\ Joined("local") /\ main' = "joined" /\ token' = 0
  /\ UNCHANGED <<use, generation, stopping, projection, endpoint, running, up, target, worker, frames,
                 observed, traces>>

StopFrames ==
  /\ main = "joined" /\ visual.pc \in {"none", "idle"} /\ main' = "quiet" /\ visual' = NoFrame
  /\ UNCHANGED <<use, generation, stopping, projection, endpoint, token, running, up, target, worker,
                 shown, taken, observed, traces>>

(* Assumed: a listener that passed the token check while the other was     *)
(* waited for has acted by now.                                            *)
Acted == \A w \in Workers : worker[w].pc \in Verbs \cup {"starting"} => Slow(w)

StopReleases ==
  /\ main = "quiet" /\ Acted /\ main' = "idle" /\ projection' = 0
  /\ regions' = <<>> /\ frontSequence' = 0
  /\ UNCHANGED <<use, generation, stopping, endpoint, token, running, up, target, worker, frames,
                 snapRequest, traces>>

(* The operator's picker.                                                  *)
setTarget(next) == IF traceActive THEN UNCHANGED target ELSE target' = next

MainTarget ==
  /\ main = "idle" /\ "TARGET" \in use.verbs
  /\ \E next \in {"fnaf2", "other"} : setTarget(next)
  /\ UNCHANGED <<session, worker, frames, observed, traces>>

Main == \/ StartCommand \/ Project \/ Listen \/ StopBegins \/ StopDetaches \/ StopServers
        \/ StopJoins \/ StopRevokes \/ StopFrames \/ StopReleases \/ MainTarget

-----------------------------------------------------------------------------
(* The listeners: controlLoop and localControlLoop                         *)

(* The loop's condition, as it is when the last request has been answered. *)
Again(w) == IF running /\ sessionActive(w[2]) THEN "accept" ELSE "none"

(* A host connects, or the socket has closed or fails.                     *)
Accept(w) ==
  /\ At(w, "accept")
  /\ \/ w \in up /\ Goto(w, "read") /\ UNCHANGED up
     \/ Goto(w, "none") /\ up' = up \ {w}
  /\ UNCHANGED <<use, generation, stopping, main, projection, endpoint, token, running, target, frames,
                 observed, traces>>

(* Mutant: any token there is will do.                                     *)
AnyToken(w) == token # 0

(* Hosts have the token of the endpoint they read.                         *)
Authorized(w) == token = w[2]

(* serveControlRequest; the client may also be gone, or too slow.          *)
Serve(w) ==
  /\ At(w, "read")
  /\ \/ /\ Authorized(w) /\ \E verb \in use.verbs : Goto(w, verb)
     \/ /\ Goto(w, Again(w))
  /\ UNCHANGED <<session, target, frames, observed, traces>>

(* NativeRegions.set, clear: a copy under way is of an older registration. *)
Replaced == visual' = [visual EXCEPT !.copies = FALSE]

RegionSet(w) ==
  /\ At(w, "SET") /\ Goto(w, Again(w)) /\ Replaced
  /\ \E n \in Names : regions' = [m \in DOMAIN regions \cup {n} |->
                                   IF m = n THEN 0 ELSE regions[m]]
  /\ UNCHANGED <<session, target, shown, taken, frontSequence, snapRequest, traces>>

RegionClear(w) ==
  /\ At(w, "CLEAR") /\ Goto(w, Again(w)) /\ Replaced
  /\ regions' = <<>> /\ frontSequence' = 0
  /\ UNCHANGED <<session, target, shown, taken, snapRequest, traces>>

(* NativeRegions.read: what it answers pixels of.                          *)
(* Mutant: a region that has no pixels yet is not looked for.              *)
ReadyOnceCopied == frontSequence # 0

Ready == frontSequence # 0 /\ \A n \in DOMAIN regions : regions[n] # 0

(* snapControl, under snapLock; interrupted, its wait ends at once.        *)
Interrupted(w) == ~running \/ token # w[2]
Asking(w) == worker[w].pc \in {"snapping", "encoding"}

(* Mutant: the request is one, and keeps the last answer.                  *)
NewRequestReused(w) == [worker[w] EXCEPT !.pc = "snapping", !.asked = taken]

NewRequest(w) == [worker[w] EXCEPT !.pc = "snapping", !.asked = taken, !.got = 0]

SnapAsks(w) ==
  /\ At(w, "SNAP") /\ ~\E v \in Workers : Asking(v)
  /\ IF Interrupted(w) THEN Goto(w, Again(w)) /\ UNCHANGED snapRequest
     ELSE snapRequest' = w /\ worker' = [worker EXCEPT ![w] = NewRequest(w)]
  /\ UNCHANGED <<session, target, frames, regions, frontSequence, traces>>

(* Answered, or out of time; a callback may hold on to the old request.    *)
SnapEnds(w) ==
  /\ At(w, "snapping") /\ snapRequest' = NoOne
  /\ \/ worker[w].got # 0 /\ Goto(w, "encoding")
     \/ worker' = [worker EXCEPT ![w].pc = Again(w), ![w].asked = 0]
  /\ visual' = [visual EXCEPT !.snap = IF @ = w THEN NoOne ELSE @]
  /\ UNCHANGED <<session, target, shown, taken, regions, frontSequence, traces>>

Target(w) ==
  /\ At(w, "TARGET") /\ Goto(w, Again(w))
  /\ \E next \in {"fnaf2", "other"} : setTarget(next)
  /\ UNCHANGED <<session, frames, observed, traces>>

(* The dispatcher's own look, outside targetLock.                          *)
TraceAsked(w) ==
  /\ At(w, "TRACE") /\ Goto(w, IF legacyActive THEN "starting" ELSE Again(w))
  /\ UNCHANGED <<session, target, frames, observed, traces>>

(* Mutant: what the dispatcher saw is trusted.                             *)
MayTraceUnlocked == trace = NoTrace

MayTrace == legacyActive /\ trace = NoTrace

(* Refused, too, where its directory cannot be made.                       *)
traceStart(w) ==
  /\ At(w, "starting") /\ Goto(w, Again(w))
  /\ \/ /\ MayTrace /\ started < MaxTraces
        /\ trace' = [id |-> started + 1, start |-> shown, rows |-> {}] /\ traceActive' = TRUE
        /\ started' = started + 1
     \/ UNCHANGED <<trace, traceActive, started>>
  /\ UNCHANGED <<session, target, frames, observed, saving, written>>

traceStop(w) ==
  /\ At(w, "STOP")
  /\ \/ /\ trace # NoTrace /\ traceDetach
        /\ worker' = [worker EXCEPT ![w].pc = "writing", ![w].job = trace.id]
     \/ /\ trace = NoTrace /\ Goto(w, Again(w)) /\ UNCHANGED <<trace, traceActive>>
  /\ UNCHANGED <<session, target, frames, observed, started, saving, written>>

(* A picture is encoded, a trace's file written.                           *)
Writes(w) ==
  /\ \/ At(w, "encoding") /\ UNCHANGED written
     \/ At(w, "writing") /\ written' = [written EXCEPT ![worker[w].job] = @ + 1]
  /\ worker' = [worker EXCEPT ![w].pc = Again(w), ![w].asked = 0, ![w].job = 0]
  /\ UNCHANGED <<session, target, frames, observed, trace, traceActive, started, saving>>

Listener(w) ==
  \/ Accept(w) \/ Serve(w) \/ RegionSet(w) \/ RegionClear(w) \/ SnapAsks(w)
  \/ SnapEnds(w) \/ Target(w) \/ TraceAsked(w) \/ traceStart(w) \/ traceStop(w) \/ Writes(w)

-----------------------------------------------------------------------------
(* The frame thread: onImageAvailable                                      *)

ImageArrives ==
  /\ visual.pc # "none" /\ shown < use.images /\ shown' = shown + 1
  /\ UNCHANGED <<session, target, worker, taken, visual, observed, traces>>

FrameAt(p, next) == visual.pc = p /\ visual' = next
FrameOnly == UNCHANGED <<session, target, worker, shown, traces>>

(* Mutant: a trace takes the newest image, like everybody.                 *)
DrainsNever == FALSE

Drains == legacyActive /\ traceActive

OnImageAvailable ==
  /\ taken < shown /\ sessionActive(visual.gen)
  /\ FrameAt("idle", [visual EXCEPT !.pc = "begun", !.legacy = legacyActive, !.drain = Drains])
  /\ FrameOnly /\ UNCHANGED <<taken, observed>>

(* acquireNextImage for a trace, acquireLatestImage for all else.          *)
AcquireImage ==
  /\ taken' = IF visual.drain THEN taken + 1 ELSE shown
  /\ FrameAt("begun", [visual EXCEPT !.pc = "acquired", !.img = taken',
                                     !.copies = DOMAIN regions # {}])
  /\ FrameOnly /\ UNCHANGED observed

(* NativeRegions.capture, published unless they were replaced meanwhile.   *)
CaptureRegions ==
  /\ FrameAt("acquired", [visual EXCEPT !.pc = "captured", !.copies = FALSE])
  /\ IF visual.copies
     THEN regions' = [n \in DOMAIN regions |-> visual.img] /\ frontSequence' = visual.img
     ELSE UNCHANGED <<regions, frontSequence>>
  /\ FrameOnly /\ UNCHANGED <<taken, snapRequest>>

SnapSeen ==
  /\ FrameAt("captured", [visual EXCEPT !.pc = "snaps",
       !.snap = IF snapRequest # NoOne /\ worker[snapRequest].got = 0 THEN snapRequest ELSE NoOne])
  /\ FrameOnly /\ UNCHANGED <<taken, observed>>

(* copySnap, into the request that was seen; then a second look at the     *)
(* session.                                                                *)
SnapCopied ==
  /\ FrameAt("snaps", [visual EXCEPT !.pc = IF sessionActive(visual.gen) THEN "feeds" ELSE "idle",
                                     !.snap = NoOne])
  /\ worker' = IF visual.snap = NoOne THEN worker ELSE [worker EXCEPT ![visual.snap].got = visual.img]
  /\ UNCHANGED <<session, target, shown, taken, observed, traces>>

(* recordTrace: images of before its start are not the trace's; a full one *)
(* records no more and is still held.                                      *)
Record(img) ==
  IF ~traceActive \/ img <= trace.start THEN UNCHANGED <<trace, traceActive>>
  ELSE IF Cardinality(trace.rows) = TRACE_MAX_FRAMES THEN traceActive' = FALSE /\ UNCHANGED trace
       ELSE trace' = [trace EXCEPT !.rows = @ \cup {img}] /\ UNCHANGED traceActive

Feed ==
  /\ FrameAt("feeds", [NoFrame EXCEPT !.pc = "idle", !.gen = visual.gen])
  /\ IF visual.legacy THEN Record(visual.img) ELSE UNCHANGED <<trace, traceActive>>
  /\ UNCHANGED <<session, target, worker, shown, taken, observed, started, saving, written>>

Frame == \/ ImageArrives \/ OnImageAvailable \/ AcquireImage \/ CaptureRegions
         \/ SnapSeen \/ SnapCopied \/ Feed

Next == Main \/ (\E t \in 1..MaxTraces : Saved(t)) \/ (\E w \in Workers : Listener(w)) \/ Frame

Spec == Init /\ [][Next]_vars

-----------------------------------------------------------------------------
(* What makes a session correct                                            *)

Places == {"none", "accept", "read", "snapping", "encoding", "starting", "writing"} \cup Verbs

Worker == [pc : Places, asked : Nat, got : Nat, job : Nat]
Visual == [pc : {"none", "idle", "begun", "acquired", "captured", "snaps", "feeds"}, gen : Nat,
           img : Nat, legacy : BOOLEAN, drain : BOOLEAN, copies : BOOLEAN, snap : Workers \cup {NoOne}]

TypeOK ==
  /\ use \in Uses /\ generation \in Nat /\ stopping \in BOOLEAN
  /\ main \in {"idle", "starting", "projecting", "failing", "stopping", "detached", "closed",
               "joining", "joined", "quiet"}
  /\ projection \in Nat /\ endpoint \in Nat /\ token \in Nat
  /\ running \in BOOLEAN /\ up \subseteq Listeners \X Nat /\ target \in {"fnaf2", "other"}
  /\ worker \in [Workers -> Worker] /\ visual \in Visual
  /\ shown \in Nat /\ taken \in 0..shown
  /\ DOMAIN regions \subseteq Names /\ frontSequence \in Nat
  /\ snapRequest \in Workers \cup {NoOne} /\ started \in 0..MaxTraces
  /\ traceActive \in BOOLEAN /\ trace \in [id : 0..MaxTraces, start : Nat, rows : SUBSET Nat]

(* A trace keeps every image from its first row on, none of before its     *)
(* start, whatever the callback in flight when it started had decided; and *)
(* it runs only for the FNaF 2 target, whichever listener moves that.      *)
TraceGapless ==
  /\ \A r \in trace.rows : r > trace.start
  /\ \A r, s \in trace.rows : \A m \in r..s : m \in trace.rows
TraceOnItsTarget == traceActive => target = "fnaf2"

(* Every trace that was started is held, being written by one thread, or   *)
(* written, and then once: a TRACE stop beside a stopping capture, and a   *)
(* full trace, included.                                                   *)
InHand(t) == (IF trace.id = t THEN 1 ELSE 0) + (IF t \in saving THEN 1 ELSE 0) + written[t]
             + Cardinality({w \in Workers : worker[w].job = t})
TraceKeptOnce == \A t \in 1..started : InHand(t) = 1

(* A frame trace misses no image, is of its target, and is kept once.      *)
TraceKept == TraceGapless /\ TraceOnItsTarget /\ TraceKeptOnce

(* SNAP answers with an image that arrived no earlier than the one in hand *)
(* when it asked, and never with another request's.                        *)
SnapIsItsOwn ==
  \A w \in Workers : At(w, "encoding") => worker[w].got # 0 /\ worker[w].got >= worker[w].asked

(* A REGION read answers pixels of one image, the one it names, for every  *)
(* registered region.                                                      *)
RegionsOfOneImage == Ready => \A n \in DOMAIN regions : regions[n] = frontSequence

(* Between two sessions nothing of the last is left: no endpoint or token, *)
(* no open socket, region, request or callback, and no listener that could *)
(* still do what a host asked of it.                                       *)
NothingLeft ==
  main = "idle" /\ projection = 0 =>
    /\ endpoint = 0 /\ token = 0 /\ up = {} /\ DOMAIN regions = {} /\ snapRequest = NoOne
    /\ visual.pc = "none"
    /\ \A w \in Workers : worker[w].pc \in {"none", "read", "encoding", "writing", "SNAP"}

(* "Worker callbacks from an older projection must not observe or mutate a *)
(* later session" (CaptureService): a listener that outlived its session   *)
(* changes nothing a later one has.                                        *)
OldListenersInert ==
  [][\A w \in Workers : w[2] # generation /\ ~stopping /\ worker'[w] # worker[w] =>
       UNCHANGED <<session, target, observed, trace, traceActive>>]_vars

(* What one request or session reads is its own, not another's.            *)
SessionsKeptApart == [](SnapIsItsOwn /\ RegionsOfOneImage /\ NothingLeft) /\ OldListenersInert

(* "Preserve a held diagnostic trace ... across an app abort or projection *)
(* teardown" (CaptureService): a stopped capture holds no trace.           *)
StoppedHoldsNoTrace == main = "idle" /\ projection = 0 => trace = NoTrace
=============================================================================
