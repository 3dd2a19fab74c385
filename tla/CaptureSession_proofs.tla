------------------------- MODULE CaptureSession_proofs -------------------------
(***************************************************************************)
(* What a listener of the Companion app may still do once its session is   *)
(* over, and what becomes of a frame trace, for any number of sessions,    *)
(* images, regions and traces.                                             *)
(*                                                                         *)
(* The inductive invariant says, for each place of the main thread, which  *)
(* token stands, which sockets are open and what the listeners of the      *)
(* session at hand and of the ones before it can be at.                    *)
(***************************************************************************)
EXTENDS CaptureSession, Integers, FiniteSetTheorems, TLAPS

(* The session that runs, or is being stopped; before one has begun.       *)
ThisGen  == IF stopping THEN generation - 1 ELSE generation
Between  == main = "idle" /\ projection = 0
NotBegun == Between \/ main \in {"starting", "projecting", "failing"}

Outlived(w) == worker[w].pc \in {"none", "read", "encoding", "writing", "SNAP"}
Leaving(w)  == worker[w].pc \notin {"accept", "snapping"}

MainInv ==
  /\ main \in {"starting", "projecting", "failing"} => ~stopping
  /\ main \in {"stopping", "detached", "closed", "joining", "joined", "quiet"} => stopping
  /\ main = "idle" /\ projection # 0 => ~stopping
  /\ main = "starting" => projection = 0
  /\ main = "projecting" => projection # 0
  /\ stopping => generation # 0
  /\ running => main \in {"stopping", "detached"} \/ (main = "idle" /\ projection # 0)
  /\ token \in {0, ThisGen}
  /\ Between \/ main \in {"starting", "projecting", "joined", "quiet"} => token = 0
  /\ \A w \in up : w[2] = ThisGen
  /\ Between \/ main \in {"starting", "projecting", "closed", "joining", "joined", "quiet"} => up = {}
  /\ endpoint # 0 => main = "idle" /\ projection # 0

WorkerInv ==
  /\ \A w \in Workers : w[2] > generation => At(w, "none")
  /\ main \in {"projecting", "failing"} => \A w \in Workers : w[2] = generation => At(w, "none")
  /\ \A w \in Workers : NotBegun \/ w[2] # ThisGen => Outlived(w)
  /\ main = "joining" => \A w \in Workers : w[1] = "tcp" => Leaving(w)
  /\ main \in {"joined", "quiet"} => \A w \in Workers : Leaving(w)

SnapInv ==
  /\ snapRequest # NoOne => snapRequest \in Workers /\ At(snapRequest, "snapping")
  /\ visual.snap # NoOne => visual.snap \in Workers /\ At(visual.snap, "snapping")
                            /\ visual.pc = "snaps"
  /\ visual.pc \in {"acquired", "captured", "snaps"} => visual.img = taken
  /\ visual.pc = "begun" => taken < shown
  /\ \A w \in Workers : worker[w].asked <= taken
  /\ \A w \in Workers : At(w, "snapping") => worker[w].got = 0 \/ worker[w].got >= worker[w].asked
  /\ \A w \in Workers : At(w, "encoding") => worker[w].got # 0 /\ worker[w].got >= worker[w].asked

SharedInv ==
  /\ projection = 0 \/ main = "quiet" => visual.pc = "none"
  /\ \A n \in DOMAIN regions : regions[n] \in {0, frontSequence}
  /\ Between => DOMAIN regions = {}
  /\ traceActive => target = "fnaf2"

CaptureInv == TypeOK /\ MainInv /\ WorkerInv /\ SnapInv /\ SharedInv

(* A thread that goes somewhere else keeps what it has.                    *)
LEMMA GotoOnly ==
  ASSUME worker \in [Workers -> Worker], NEW w \in Workers, NEW p \in Places,
         worker' = [worker EXCEPT ![w].pc = p]
  PROVE  /\ worker' \in [Workers -> Worker]
         /\ \A v \in Workers : /\ worker'[v].pc = (IF v = w THEN p ELSE worker[v].pc)
                               /\ worker'[v].asked = worker[v].asked
                               /\ worker'[v].got = worker[v].got
                               /\ worker'[v].job = worker[v].job
  <1>1. \A v \in Workers : worker'[v] = IF v = w THEN [worker[v] EXCEPT !.pc = p] ELSE worker[v]
    OBVIOUS
  <1>2. \A v \in Workers : worker'[v] \in Worker
    BY <1>1 DEF Worker
  <1>3. worker' \in [Workers -> Worker]
    BY <1>2
  <1> QED BY <1>1, <1>3 DEF Worker

LEMMA StartCommandInv == ASSUME CaptureAssumption, CaptureInv, StartCommand PROVE CaptureInv'
  <1>1. TypeOK'
    BY DEF CaptureInv, CaptureAssumption, TypeOK, StartCommand, frames, observed, traces
  <1>2. MainInv'
    BY DEF CaptureInv, TypeOK, MainInv, Between, StartCommand, frames, observed, traces
  <1>3. WorkerInv'
    BY DEF CaptureInv, CaptureAssumption, TypeOK, MainInv, WorkerInv, SnapInv, Between, NotBegun,
           Outlived, StartCommand, frames, observed, traces, At
  <1>4. SnapInv'
    BY DEF CaptureInv, TypeOK, SnapInv, StartCommand, frames, observed, traces, At
  <1>5. SharedInv'
    BY DEF CaptureInv, TypeOK, MainInv, WorkerInv, SharedInv, Between, StartCommand, frames,
           observed, traces
  <1> QED BY <1>1, <1>2, <1>3, <1>4, <1>5 DEF CaptureInv

LEMMA ProjectInv == ASSUME CaptureAssumption, CaptureInv, Project PROVE CaptureInv'
  <1>v. \/ UNCHANGED frames
        \/ /\ visual' = [pc |-> "idle", gen |-> generation', img |-> 0, legacy |-> FALSE, drain |-> FALSE,
                        copies |-> FALSE, snap |-> NoOne]
           /\ taken' = shown /\ UNCHANGED shown
    BY DEF Project, NoFrame, frames
  <1>g. generation' \in Nat /\ NoOne \in Workers \cup {NoOne}
    BY DEF Project, CaptureInv, TypeOK
  <1>1. TypeOK'
    <2>1. worker' \in [Workers -> Worker]
      BY DEF CaptureInv, CaptureAssumption, TypeOK, Project, frames, observed, traces
    <2>2. visual' \in Visual
      <3>1. [pc |-> "idle", gen |-> generation', img |-> 0, legacy |-> FALSE, drain |-> FALSE,
             copies |-> FALSE, snap |-> NoOne] \in Visual
        BY <1>g DEF Visual
      <3> QED BY <1>v, <3>1 DEF CaptureInv, TypeOK, frames
    <2>3. /\ trace' \in [id : 0..MaxTraces, start : Nat, rows : SUBSET Nat]
          /\ started' \in 0..MaxTraces
      BY DEF CaptureInv, CaptureAssumption, TypeOK, Project, frames, observed, traces
    <2>4. TypeOK!1' /\ TypeOK!2' /\ TypeOK!3' /\ TypeOK!4' /\ TypeOK!6' /\ TypeOK!7'
          /\ snapRequest' \in Workers \cup {NoOne} /\ traceActive' \in BOOLEAN
      BY DEF CaptureInv, CaptureAssumption, TypeOK, Project, frames, observed, traces
    <2> QED BY <2>1, <2>2, <2>3, <2>4 DEF TypeOK
  <1>2. MainInv'
    BY DEF CaptureInv, TypeOK, MainInv, Project, frames, observed, traces
  <1>3. WorkerInv'
    BY DEF CaptureInv, CaptureAssumption, TypeOK, MainInv, WorkerInv, SnapInv, NotBegun, Outlived,
           Project, frames, observed, traces, At, Workers, Generations
  <1>4. SnapInv'
    BY <1>v DEF CaptureInv, TypeOK, Worker, SnapInv, Project, frames, observed, At
  <1>5. SharedInv'
    BY DEF CaptureInv, TypeOK, MainInv, WorkerInv, SharedInv, Between, Project, frames, observed,
           traces
  <1> QED BY <1>1, <1>2, <1>3, <1>4, <1>5 DEF CaptureInv

LEMMA ListenInv == ASSUME CaptureAssumption, CaptureInv, Listen PROVE CaptureInv'
  <1>w. \A v \in Workers : /\ worker'[v].asked = worker[v].asked /\ worker'[v].got = worker[v].got
                           /\ worker'[v].pc = worker[v].pc \/ (worker[v].pc = "none" /\ worker'[v].pc = "accept")
    BY DEF Listen, CaptureInv, TypeOK, Worker, WorkerInv, At
  <1>u. up' \subseteq Listeners \X Nat /\ UNCHANGED <<frames, observed>>
    BY DEF Listen, CaptureInv, TypeOK, Listeners
  <1>1. TypeOK'
    <2>1. worker' \in [Workers -> Worker]
      BY DEF CaptureInv, CaptureAssumption, TypeOK, Listen, frames, observed, traces, Worker, Places
    <2>2. visual' \in Visual
      BY DEF CaptureInv, TypeOK, Listen, frames, observed, traces
    <2>3. /\ trace' \in [id : 0..MaxTraces, start : Nat, rows : SUBSET Nat]
          /\ started' \in 0..MaxTraces
      BY DEF CaptureInv, CaptureAssumption, TypeOK, Listen, frames, observed, traces
    <2>4. TypeOK!1' /\ TypeOK!2' /\ TypeOK!3' /\ TypeOK!4' /\ TypeOK!6' /\ TypeOK!7'
          /\ snapRequest' \in Workers \cup {NoOne} /\ traceActive' \in BOOLEAN
      BY <1>u DEF CaptureInv, CaptureAssumption, TypeOK, Listen, frames, observed, traces
    <2> QED BY <2>1, <2>2, <2>3, <2>4 DEF TypeOK
  <1>2. MainInv'
    BY DEF CaptureInv, TypeOK, MainInv, Between, ThisGen, Listen, frames, observed, traces
  <1>3. WorkerInv'
    BY DEF CaptureInv, CaptureAssumption, TypeOK, MainInv, WorkerInv, SnapInv, Between, NotBegun,
           ThisGen, Outlived, Listen, frames, observed, traces, At
  <1>4. SnapInv'
    BY <1>w, <1>u DEF CaptureInv, TypeOK, SnapInv, frames, observed, At
  <1>5. SharedInv'
    BY DEF CaptureInv, TypeOK, MainInv, WorkerInv, SharedInv, Between, Listen, frames, observed,
           traces
  <1> QED BY <1>1, <1>2, <1>3, <1>4, <1>5 DEF CaptureInv

LEMMA StopBeginsInv == ASSUME CaptureAssumption, CaptureInv, StopBegins PROVE CaptureInv'
  <1>1. TypeOK'
    BY DEF CaptureInv, CaptureAssumption, TypeOK, StopBegins, frames, observed, traces
  <1>2. MainInv'
    BY DEF CaptureInv, TypeOK, MainInv, Between, ThisGen, StopBegins, frames, observed, traces
  <1>3. WorkerInv'
    BY DEF CaptureInv, CaptureAssumption, TypeOK, MainInv, WorkerInv, SnapInv, Between, NotBegun,
           ThisGen, Outlived, StopBegins, frames, observed, traces, At, Workers, Generations
  <1>4. SnapInv'
    BY DEF CaptureInv, TypeOK, SnapInv, StopBegins, frames, observed, traces, At
  <1>5. SharedInv'
    BY DEF CaptureInv, TypeOK, MainInv, WorkerInv, SharedInv, Between, StopBegins, frames, observed,
           traces
  <1> QED BY <1>1, <1>2, <1>3, <1>4, <1>5 DEF CaptureInv

LEMMA StopDetachesInv == ASSUME CaptureAssumption, CaptureInv, StopDetaches PROVE CaptureInv'
  <1>1. TypeOK'
    <2>1. worker' \in [Workers -> Worker]
      BY DEF CaptureInv, CaptureAssumption, TypeOK, StopDetaches, frames, observed
    <2>2. visual' \in Visual
      BY DEF CaptureInv, TypeOK, StopDetaches, frames, observed
    <2>3. /\ trace' \in [id : 0..MaxTraces, start : Nat, rows : SUBSET Nat]
          /\ started' \in 0..MaxTraces
      BY DEF CaptureInv, CaptureAssumption, TypeOK, StopDetaches, traceDetach, frames, observed,
             NoTrace
    <2>4. TypeOK!1' /\ TypeOK!2' /\ TypeOK!3' /\ TypeOK!4' /\ TypeOK!6' /\ TypeOK!7'
          /\ snapRequest' \in Workers \cup {NoOne} /\ traceActive' \in BOOLEAN
      BY DEF CaptureInv, CaptureAssumption, TypeOK, StopDetaches, traceDetach, frames, observed
    <2> QED BY <2>1, <2>2, <2>3, <2>4 DEF TypeOK
  <1>2. MainInv'
    BY DEF CaptureInv, TypeOK, MainInv, Between, ThisGen, StopDetaches, frames, observed
  <1>3. WorkerInv'
    BY DEF CaptureInv, CaptureAssumption, TypeOK, MainInv, WorkerInv, SnapInv, Between, NotBegun,
           ThisGen, Outlived, StopDetaches, frames, observed, At
  <1>4. SnapInv'
    BY DEF CaptureInv, TypeOK, SnapInv, StopDetaches, frames, observed, At
  <1>5. SharedInv'
    BY DEF CaptureInv, TypeOK, MainInv, WorkerInv, SharedInv, Between, StopDetaches, traceDetach,
           frames, observed
  <1> QED BY <1>1, <1>2, <1>3, <1>4, <1>5 DEF CaptureInv

LEMMA StopServersInv == ASSUME CaptureAssumption, CaptureInv, StopServers PROVE CaptureInv'
  <1>1. TypeOK'
    BY DEF CaptureInv, CaptureAssumption, TypeOK, StopServers, frames, observed, traces
  <1>2. MainInv'
    BY DEF CaptureInv, TypeOK, MainInv, Between, ThisGen, StopServers, frames, observed, traces
  <1>3. WorkerInv'
    BY DEF CaptureInv, CaptureAssumption, TypeOK, MainInv, WorkerInv, SnapInv, Between, NotBegun,
           ThisGen, Outlived, StopServers, frames, observed, traces, At
  <1>4. SnapInv'
    BY DEF CaptureInv, TypeOK, SnapInv, StopServers, frames, observed, traces, At
  <1>5. SharedInv'
    BY DEF CaptureInv, TypeOK, MainInv, WorkerInv, SharedInv, Between, StopServers, frames,
           observed, traces
  <1> QED BY <1>1, <1>2, <1>3, <1>4, <1>5 DEF CaptureInv

LEMMA StopJoinsInv == ASSUME CaptureAssumption, CaptureInv, StopJoins PROVE CaptureInv'
  <1>1. TypeOK'
    BY DEF CaptureInv, CaptureAssumption, TypeOK, StopJoins, frames, observed, traces
  <1>2. MainInv'
    BY DEF CaptureInv, TypeOK, MainInv, Between, ThisGen, StopJoins, frames, observed, traces
  <1>3. WorkerInv'
    BY DEF CaptureInv, CaptureAssumption, TypeOK, MainInv, WorkerInv, SnapInv, Between, NotBegun,
           ThisGen, Outlived, Leaving, StopJoins, Joined, Slow, frames, observed, traces, At,
           Workers
  <1>4. SnapInv'
    BY DEF CaptureInv, TypeOK, SnapInv, StopJoins, frames, observed, traces, At
  <1>5. SharedInv'
    BY DEF CaptureInv, TypeOK, MainInv, WorkerInv, SharedInv, Between, StopJoins, frames, observed,
           traces
  <1> QED BY <1>1, <1>2, <1>3, <1>4, <1>5 DEF CaptureInv

LEMMA StopRevokesInv == ASSUME CaptureAssumption, CaptureInv, StopRevokes PROVE CaptureInv'
  <1>1. TypeOK'
    BY DEF CaptureInv, CaptureAssumption, TypeOK, StopRevokes, frames, observed, traces
  <1>2. MainInv'
    BY DEF CaptureInv, TypeOK, MainInv, StopRevokes, frames, observed, traces
  <1>3. WorkerInv'
    BY DEF CaptureInv, CaptureAssumption, TypeOK, MainInv, WorkerInv, SnapInv, Between, NotBegun,
           ThisGen, Outlived, Leaving, StopRevokes, Joined, Slow, frames, observed, traces, At,
           Workers, Listeners
  <1>4. SnapInv'
    BY DEF CaptureInv, TypeOK, SnapInv, StopRevokes, frames, observed, traces, At
  <1>5. SharedInv'
    BY DEF CaptureInv, TypeOK, MainInv, WorkerInv, SharedInv, Between, StopRevokes, frames,
           observed, traces
  <1> QED BY <1>1, <1>2, <1>3, <1>4, <1>5 DEF CaptureInv

LEMMA StopFramesInv == ASSUME CaptureAssumption, CaptureInv, StopFrames PROVE CaptureInv'
  <1>1. TypeOK'
    BY DEF CaptureInv, CaptureAssumption, TypeOK, StopFrames, observed, traces, Visual, NoFrame
  <1>2. MainInv'
    BY DEF CaptureInv, TypeOK, MainInv, StopFrames, observed, traces
  <1>3. WorkerInv'
    BY DEF CaptureInv, CaptureAssumption, TypeOK, MainInv, WorkerInv, SnapInv, Between, NotBegun,
           ThisGen, Outlived, Leaving, StopFrames, observed, traces, At
  <1>4. SnapInv'
    BY DEF CaptureInv, TypeOK, SnapInv, StopFrames, observed, traces, At, NoFrame
  <1>5. SharedInv'
    BY DEF CaptureInv, TypeOK, MainInv, WorkerInv, SharedInv, Between, StopFrames, observed, traces,
           NoFrame
  <1> QED BY <1>1, <1>2, <1>3, <1>4, <1>5 DEF CaptureInv

LEMMA StopReleasesInv == ASSUME CaptureAssumption, CaptureInv, StopReleases PROVE CaptureInv'
  <1>1. TypeOK'
    BY DEF CaptureInv, CaptureAssumption, TypeOK, StopReleases, frames, traces
  <1>2. MainInv'
    BY DEF CaptureInv, TypeOK, MainInv, StopReleases, frames, traces
  <1>3. WorkerInv'
    BY DEF CaptureInv, CaptureAssumption, TypeOK, Worker, Places, MainInv, WorkerInv, SnapInv,
           Outlived, Leaving, StopReleases, Acted, Slow, frames, traces, At
  <1>4. SnapInv'
    BY DEF CaptureInv, TypeOK, SnapInv, StopReleases, frames, traces, At
  <1>5. SharedInv'
    BY DEF CaptureInv, TypeOK, MainInv, WorkerInv, SharedInv, StopReleases, frames, traces
  <1> QED BY <1>1, <1>2, <1>3, <1>4, <1>5 DEF CaptureInv

LEMMA MainTargetInv == ASSUME CaptureAssumption, CaptureInv, MainTarget PROVE CaptureInv'
  <1>1. TypeOK'
    BY DEF CaptureInv, CaptureAssumption, TypeOK, MainTarget, setTarget, session, frames, observed,
           traces
  <1>2. MainInv'
    BY DEF CaptureInv, TypeOK, MainInv, Between, ThisGen, MainTarget, session, frames, observed,
           traces
  <1>3. WorkerInv'
    BY DEF CaptureInv, CaptureAssumption, TypeOK, MainInv, WorkerInv, SnapInv, Between, NotBegun,
           ThisGen, Outlived, MainTarget, session, frames, observed, traces, At
  <1>4. SnapInv'
    BY DEF CaptureInv, TypeOK, SnapInv, MainTarget, session, frames, observed, traces, At
  <1>5. SharedInv'
    BY DEF CaptureInv, TypeOK, MainInv, WorkerInv, SharedInv, Between, MainTarget, setTarget,
           session, frames, observed, traces
  <1> QED BY <1>1, <1>2, <1>3, <1>4, <1>5 DEF CaptureInv

LEMMA SavedInv ==
  ASSUME CaptureAssumption, CaptureInv, NEW t \in 1..MaxTraces, Saved(t)
  PROVE  CaptureInv'
  <1>1. TypeOK'
    BY DEF CaptureInv, CaptureAssumption, TypeOK, Saved, session, frames, observed
  <1>2. MainInv'
    BY DEF CaptureInv, TypeOK, MainInv, Between, ThisGen, Saved, session, frames, observed
  <1>3. WorkerInv'
    BY DEF CaptureInv, CaptureAssumption, TypeOK, MainInv, WorkerInv, SnapInv, Between, NotBegun,
           ThisGen, Outlived, Leaving, Saved, session, frames, observed, At
  <1>4. SnapInv'
    BY DEF CaptureInv, TypeOK, SnapInv, Saved, session, frames, observed, At
  <1>5. SharedInv'
    BY DEF CaptureInv, TypeOK, MainInv, WorkerInv, SharedInv, Between, Saved, session, frames,
           observed
  <1> QED BY <1>1, <1>2, <1>3, <1>4, <1>5 DEF CaptureInv

LEMMA AcceptInv ==
  ASSUME CaptureAssumption, CaptureInv, NEW w \in Workers, Accept(w)
  PROVE  CaptureInv'
  <1>t. worker \in [Workers -> Worker] /\ use \in Uses
    BY DEF CaptureInv, TypeOK
  <1>a. Again(w) \in Places \ {"snapping", "encoding"}
    BY DEF Again, Places
  <1>p. PICK p \in Places : /\ p \in {"read", "none"}
                         /\ p \notin {"snapping", "encoding"}
                         /\ worker' = [worker EXCEPT ![w].pc = p]
    BY <1>t, <1>a DEF Accept, Goto, Places
  <1>w. /\ worker' \in [Workers -> Worker]
        /\ \A v \in Workers : /\ worker'[v].pc = (IF v = w THEN p ELSE worker[v].pc)
                              /\ worker'[v].asked = worker[v].asked
                              /\ worker'[v].got = worker[v].got
    BY <1>t, <1>p, GotoOnly
  <1>1. TypeOK'
    BY <1>w DEF CaptureInv, CaptureAssumption, TypeOK, Accept, frames, observed, traces
  <1>2. MainInv'
    BY DEF CaptureInv, TypeOK, MainInv, Between, ThisGen, Accept, frames, observed, traces
  <1>3. WorkerInv'
    BY <1>w, <1>p DEF CaptureInv, CaptureAssumption, TypeOK, MainInv, WorkerInv, SnapInv, Between,
                      NotBegun, ThisGen, Outlived, Leaving, Accept, frames, observed, traces, At
  <1>4. SnapInv'
    BY <1>w, <1>p DEF CaptureInv, TypeOK, SnapInv, Accept, frames, observed, traces, At
  <1>5. SharedInv'
    BY <1>w, <1>p DEF CaptureInv, TypeOK, MainInv, WorkerInv, SharedInv, Between, Accept, frames,
                      observed, traces
  <1> QED BY <1>1, <1>2, <1>3, <1>4, <1>5 DEF CaptureInv

LEMMA ServeInv ==
  ASSUME CaptureAssumption, CaptureInv, NEW w \in Workers, Serve(w)
  PROVE  CaptureInv'
  <1>t. worker \in [Workers -> Worker] /\ use \in Uses
    BY DEF CaptureInv, TypeOK
  <1>a. Again(w) \in Places \ {"snapping", "encoding"}
    BY DEF Again, Places
  <1>p. PICK p \in Places :
           /\ \/ p \in use.verbs /\ Authorized(w)
              \/ p = Again(w)
           /\ p \notin {"snapping", "encoding"}
           /\ worker' = [worker EXCEPT ![w].pc = p]
    BY <1>t, <1>a DEF Serve, Goto, CaptureAssumption, Places, Verbs
  <1>w. /\ worker' \in [Workers -> Worker]
        /\ \A v \in Workers : /\ worker'[v].pc = (IF v = w THEN p ELSE worker[v].pc)
                              /\ worker'[v].asked = worker[v].asked
                              /\ worker'[v].got = worker[v].got
    BY <1>t, <1>p, GotoOnly
  <1>1. TypeOK'
    BY <1>w DEF CaptureInv, CaptureAssumption, TypeOK, Serve, session, frames, observed, traces
  <1>2. MainInv'
    BY DEF CaptureInv, TypeOK, MainInv, Between, ThisGen, Serve, session, frames, observed, traces
  <1>3. WorkerInv'
    BY <1>w, <1>p DEF CaptureInv, CaptureAssumption, TypeOK, MainInv, WorkerInv, SnapInv, Between,
                      NotBegun, ThisGen, Outlived, Leaving, Serve, Authorized, session, frames,
                      observed, traces, Again, sessionActive, At, Verbs, Workers, Generations
  <1>4. SnapInv'
    BY <1>w, <1>p DEF CaptureInv, TypeOK, SnapInv, Serve, session, frames, observed, traces, At
  <1>5. SharedInv'
    BY <1>w, <1>p DEF CaptureInv, TypeOK, MainInv, WorkerInv, SharedInv, Between, Serve, session,
                      frames, observed, traces
  <1> QED BY <1>1, <1>2, <1>3, <1>4, <1>5 DEF CaptureInv

LEMMA RegionSetInv ==
  ASSUME CaptureAssumption, CaptureInv, NEW w \in Workers, RegionSet(w)
  PROVE  CaptureInv'
  <1>t. worker \in [Workers -> Worker] /\ use \in Uses
    BY DEF CaptureInv, TypeOK
  <1>a. Again(w) \in Places \ {"snapping", "encoding"}
    BY DEF Again, Places
  <1>p. PICK p \in Places : /\ p = Again(w)
                         /\ p \notin {"snapping", "encoding"}
                         /\ worker' = [worker EXCEPT ![w].pc = p]
    BY <1>t, <1>a DEF RegionSet, Goto
  <1>w. /\ worker' \in [Workers -> Worker]
        /\ \A v \in Workers : /\ worker'[v].pc = (IF v = w THEN p ELSE worker[v].pc)
                              /\ worker'[v].asked = worker[v].asked
                              /\ worker'[v].got = worker[v].got
    BY <1>t, <1>p, GotoOnly
  <1>1. TypeOK'
    <2>1. worker' \in [Workers -> Worker]
      BY <1>w
    <2>2. visual' \in Visual
      BY DEF CaptureInv, TypeOK, RegionSet, Replaced, session, traces, Visual
    <2>3. /\ trace' \in [id : 0..MaxTraces, start : Nat, rows : SUBSET Nat]
          /\ started' \in 0..MaxTraces
      BY DEF CaptureInv, CaptureAssumption, TypeOK, RegionSet, session, traces
    <2>4. TypeOK!1' /\ TypeOK!2' /\ TypeOK!3' /\ TypeOK!4' /\ TypeOK!6' /\ TypeOK!7'
          /\ snapRequest' \in Workers \cup {NoOne} /\ traceActive' \in BOOLEAN
      BY DEF CaptureInv, CaptureAssumption, TypeOK, RegionSet, session, traces
    <2> QED BY <2>1, <2>2, <2>3, <2>4 DEF TypeOK
  <1>2. MainInv'
    BY DEF CaptureInv, TypeOK, MainInv, Between, ThisGen, RegionSet, session, traces
  <1>3. WorkerInv'
    BY <1>w, <1>p DEF CaptureInv, CaptureAssumption, TypeOK, MainInv, WorkerInv, SnapInv, Between,
                      NotBegun, ThisGen, Outlived, Leaving, RegionSet, session, traces, Again, At
  <1>4. SnapInv'
    BY <1>w, <1>p DEF CaptureInv, TypeOK, SnapInv, RegionSet, Replaced, session, traces, At
  <1>5. SharedInv'
    BY <1>w, <1>p DEF CaptureInv, TypeOK, MainInv, WorkerInv, SharedInv, Between, NotBegun,
                      Outlived, RegionSet, Replaced, session, traces, At
  <1> QED BY <1>1, <1>2, <1>3, <1>4, <1>5 DEF CaptureInv

LEMMA RegionClearInv ==
  ASSUME CaptureAssumption, CaptureInv, NEW w \in Workers, RegionClear(w)
  PROVE  CaptureInv'
  <1>t. worker \in [Workers -> Worker] /\ use \in Uses
    BY DEF CaptureInv, TypeOK
  <1>a. Again(w) \in Places \ {"snapping", "encoding"}
    BY DEF Again, Places
  <1>p. PICK p \in Places : /\ p = Again(w)
                         /\ p \notin {"snapping", "encoding"}
                         /\ worker' = [worker EXCEPT ![w].pc = p]
    BY <1>t, <1>a DEF RegionClear, Goto
  <1>w. /\ worker' \in [Workers -> Worker]
        /\ \A v \in Workers : /\ worker'[v].pc = (IF v = w THEN p ELSE worker[v].pc)
                              /\ worker'[v].asked = worker[v].asked
                              /\ worker'[v].got = worker[v].got
    BY <1>t, <1>p, GotoOnly
  <1>u. At(w, "CLEAR") /\ UNCHANGED <<session, shown, taken, snapRequest>>
    BY DEF RegionClear
  <1>x. /\ visual'.snap # NoOne => visual'.snap = visual.snap
        /\ visual'.pc = visual.pc /\ visual'.img = visual.img
    BY DEF RegionClear, Replaced, CaptureInv, TypeOK
  <1>1. TypeOK'
    <2>1. worker' \in [Workers -> Worker]
      BY <1>w
    <2>2. visual' \in Visual
      BY DEF CaptureInv, TypeOK, RegionClear, Replaced, session, traces, Visual
    <2>3. /\ trace' \in [id : 0..MaxTraces, start : Nat, rows : SUBSET Nat]
          /\ started' \in 0..MaxTraces
      BY DEF CaptureInv, CaptureAssumption, TypeOK, RegionClear, session, traces
    <2>4. TypeOK!1' /\ TypeOK!2' /\ TypeOK!3' /\ TypeOK!4' /\ TypeOK!6' /\ TypeOK!7'
          /\ snapRequest' \in Workers \cup {NoOne} /\ traceActive' \in BOOLEAN
      BY DEF CaptureInv, CaptureAssumption, TypeOK, RegionClear, session, traces
    <2> QED BY <2>1, <2>2, <2>3, <2>4 DEF TypeOK
  <1>2. MainInv'
    BY DEF CaptureInv, TypeOK, MainInv, Between, ThisGen, RegionClear, session, traces
  <1>3. WorkerInv'
    BY <1>u, <1>w, <1>p
       DEF CaptureInv, CaptureAssumption, TypeOK, MainInv, WorkerInv, SnapInv, Between, NotBegun,
           ThisGen, Outlived, Leaving, session, traces, Again, At
  <1>4. SnapInv'
    BY <1>u, <1>w, <1>p, <1>x DEF CaptureInv, TypeOK, SnapInv, session, traces, At
  <1>5. SharedInv'
    BY <1>u, <1>w, <1>p
       DEF CaptureInv, TypeOK, MainInv, WorkerInv, SharedInv, RegionClear, Replaced, session, traces
  <1> QED BY <1>1, <1>2, <1>3, <1>4, <1>5 DEF CaptureInv

LEMMA SnapAsksInv ==
  ASSUME CaptureAssumption, CaptureInv, NEW w \in Workers, SnapAsks(w)
  PROVE  CaptureInv'
  <1>t. worker \in [Workers -> Worker] /\ taken \in Nat /\ trace.id \in Nat
    BY DEF CaptureInv, TypeOK
  <1>m. worker[w] \in [pc : Places, asked : Nat, got : Nat, job : Nat]
    BY <1>t DEF Worker
  <1>v. worker' = [worker EXCEPT ![w] = worker'[w]]
    BY <1>t DEF SnapAsks, Goto
  <1>w. \/ ~Interrupted(w) /\ snapRequest' = w
           /\ worker'[w] = [pc |-> "snapping", asked |-> taken, got |-> 0, job |-> worker[w].job]
        \/ UNCHANGED snapRequest
           /\ worker'[w] = [pc |-> Again(w), asked |-> worker[w].asked, got |-> worker[w].got, job |-> worker[w].job]
    BY <1>t, <1>m DEF SnapAsks, Goto, NewRequest
  <1>r. worker'[w] \in Worker
    <2>1. Again(w) \in Places /\ "snapping" \in Places /\ "encoding" \in Places /\ "writing" \in Places
      BY DEF Places, Again
    <2> QED BY <1>t, <1>w, <2>1, <1>m DEF Worker
  <1>o. \A v \in Workers : v # w => worker'[v] = worker[v]
    BY <1>t, <1>v
  <1>u. At(w, "SNAP") /\ UNCHANGED <<session, frames>>
    BY DEF SnapAsks
  <1>c. worker'[w].pc = "snapping" => running /\ w[2] = ThisGen
    BY <1>w DEF CaptureInv, MainInv, Interrupted, Again, Workers, Generations
  <1>1. TypeOK'
    <2>1. worker' \in [Workers -> Worker]
      BY <1>t, <1>v, <1>r
    <2>2. visual' \in Visual
      BY DEF CaptureInv, TypeOK, SnapAsks, session, frames, traces
    <2>3. /\ trace' \in [id : 0..MaxTraces, start : Nat, rows : SUBSET Nat]
          /\ started' \in 0..MaxTraces
      BY DEF CaptureInv, CaptureAssumption, TypeOK, SnapAsks, session, frames, traces
    <2>4. TypeOK!1' /\ TypeOK!2' /\ TypeOK!3' /\ TypeOK!4' /\ TypeOK!6' /\ TypeOK!7'
          /\ snapRequest' \in Workers \cup {NoOne} /\ traceActive' \in BOOLEAN
      BY DEF CaptureInv, CaptureAssumption, TypeOK, SnapAsks, session, frames, traces
    <2> QED BY <2>1, <2>2, <2>3, <2>4 DEF TypeOK
  <1>2. MainInv'
    BY DEF CaptureInv, TypeOK, MainInv, Between, ThisGen, SnapAsks, session, frames, traces
  <1>3. WorkerInv'
    BY <1>u, <1>t, <1>w, <1>o, <1>r, <1>c
       DEF CaptureInv, CaptureAssumption, TypeOK, MainInv, WorkerInv, SnapInv, Between, NotBegun,
           ThisGen, Outlived, Leaving, session, frames, traces, Again, sessionActive, At
  <1>4. SnapInv'
    BY <1>u, <1>t, <1>w, <1>o, <1>r
       DEF Again, CaptureInv, TypeOK, SnapInv, session, frames, traces, At
  <1>5. SharedInv'
    BY <1>u, <1>t, <1>w, <1>o, <1>r
       DEF CaptureInv, TypeOK, MainInv, WorkerInv, SharedInv, Between, SnapAsks, session, frames,
           traces
  <1> QED BY <1>1, <1>2, <1>3, <1>4, <1>5 DEF CaptureInv

LEMMA SnapEndsInv ==
  ASSUME CaptureAssumption, CaptureInv, NEW w \in Workers, SnapEnds(w)
  PROVE  CaptureInv'
  <1>t. worker \in [Workers -> Worker] /\ taken \in Nat /\ trace.id \in Nat
    BY DEF CaptureInv, TypeOK
  <1>m. worker[w] \in [pc : Places, asked : Nat, got : Nat, job : Nat]
    BY <1>t DEF Worker
  <1>v. worker' = [worker EXCEPT ![w] = worker'[w]]
    BY <1>t DEF SnapEnds, Goto
  <1>w. \/ worker[w].got # 0
           /\ worker'[w] = [pc |-> "encoding", asked |-> worker[w].asked, got |-> worker[w].got, job |-> worker[w].job]
        \/ worker'[w] = [pc |-> Again(w), asked |-> 0, got |-> worker[w].got, job |-> worker[w].job]
    BY <1>t, <1>m DEF SnapEnds, Goto
  <1>r. worker'[w] \in Worker
    <2>1. Again(w) \in Places /\ "snapping" \in Places /\ "encoding" \in Places /\ "writing" \in Places
      BY DEF Places, Again
    <2> QED BY <1>t, <1>w, <2>1, <1>m DEF Worker
  <1>o. \A v \in Workers : v # w => worker'[v] = worker[v]
    BY <1>t, <1>v
  <1>u. At(w, "snapping") /\ UNCHANGED <<session, shown, taken>> /\ snapRequest' = NoOne
    BY DEF SnapEnds
  <1>x. /\ visual'.snap # NoOne => visual'.snap = visual.snap /\ visual.snap # w
        /\ visual'.pc = visual.pc /\ visual'.img = visual.img
    BY DEF SnapEnds, CaptureInv, TypeOK
  <1>1. TypeOK'
    <2>1. worker' \in [Workers -> Worker]
      BY <1>t, <1>v, <1>r
    <2>2. visual' \in Visual
      BY DEF CaptureInv, TypeOK, SnapEnds, session, traces, Visual
    <2>3. /\ trace' \in [id : 0..MaxTraces, start : Nat, rows : SUBSET Nat]
          /\ started' \in 0..MaxTraces
      BY DEF CaptureInv, CaptureAssumption, TypeOK, SnapEnds, session, traces
    <2>4. TypeOK!1' /\ TypeOK!2' /\ TypeOK!3' /\ TypeOK!4' /\ TypeOK!6' /\ TypeOK!7'
          /\ snapRequest' \in Workers \cup {NoOne} /\ traceActive' \in BOOLEAN
      BY DEF CaptureInv, CaptureAssumption, TypeOK, SnapEnds, session, traces
    <2> QED BY <2>1, <2>2, <2>3, <2>4 DEF TypeOK
  <1>2. MainInv'
    BY DEF CaptureInv, TypeOK, MainInv, Between, ThisGen, SnapEnds, session, traces
  <1>3. WorkerInv'
    BY <1>u, <1>t, <1>w, <1>o, <1>r
       DEF CaptureInv, CaptureAssumption, TypeOK, MainInv, WorkerInv, SnapInv, Between, NotBegun,
           ThisGen, Outlived, Leaving, session, traces, At
  <1>4. SnapInv'
    BY <1>u, <1>t, <1>w, <1>o, <1>r, <1>x
       DEF Again, CaptureInv, TypeOK, SnapInv, session, traces, At
  <1>5. SharedInv'
    BY <1>u, <1>t, <1>w, <1>o, <1>r
       DEF CaptureInv, TypeOK, MainInv, WorkerInv, SharedInv, Between, SnapEnds, session, traces
  <1> QED BY <1>1, <1>2, <1>3, <1>4, <1>5 DEF CaptureInv

LEMMA TargetInv ==
  ASSUME CaptureAssumption, CaptureInv, NEW w \in Workers, Target(w)
  PROVE  CaptureInv'
  <1>t. worker \in [Workers -> Worker] /\ use \in Uses
    BY DEF CaptureInv, TypeOK
  <1>a. Again(w) \in Places \ {"snapping", "encoding"}
    BY DEF Again, Places
  <1>p. PICK p \in Places : /\ p = Again(w)
                         /\ p \notin {"snapping", "encoding"}
                         /\ worker' = [worker EXCEPT ![w].pc = p]
    BY <1>t, <1>a DEF Target, Goto
  <1>w. /\ worker' \in [Workers -> Worker]
        /\ \A v \in Workers : /\ worker'[v].pc = (IF v = w THEN p ELSE worker[v].pc)
                              /\ worker'[v].asked = worker[v].asked
                              /\ worker'[v].got = worker[v].got
    BY <1>t, <1>p, GotoOnly
  <1>1. TypeOK'
    BY <1>w DEF CaptureInv, CaptureAssumption, TypeOK, Target, setTarget, session, frames, observed,
                traces
  <1>2. MainInv'
    BY DEF CaptureInv, TypeOK, MainInv, Between, ThisGen, Target, session, frames, observed, traces
  <1>3. WorkerInv'
    BY <1>w, <1>p DEF CaptureInv, CaptureAssumption, TypeOK, MainInv, WorkerInv, SnapInv, Between,
                      NotBegun, ThisGen, Outlived, Leaving, Target, session, frames, observed,
                      traces, Again, At
  <1>4. SnapInv'
    BY <1>w, <1>p DEF CaptureInv, TypeOK, SnapInv, Target, session, frames, observed, traces, At
  <1>5. SharedInv'
    BY <1>w, <1>p DEF CaptureInv, TypeOK, MainInv, WorkerInv, SharedInv, Between, Target, setTarget,
                      session, frames, observed, traces
  <1> QED BY <1>1, <1>2, <1>3, <1>4, <1>5 DEF CaptureInv

LEMMA TraceAskedInv ==
  ASSUME CaptureAssumption, CaptureInv, NEW w \in Workers, TraceAsked(w)
  PROVE  CaptureInv'
  <1>t. worker \in [Workers -> Worker] /\ use \in Uses
    BY DEF CaptureInv, TypeOK
  <1>a. Again(w) \in Places \ {"snapping", "encoding"}
    BY DEF Again, Places
  <1>p. PICK p \in Places : /\ p = "starting" \/ p = Again(w)
                         /\ p \notin {"snapping", "encoding"}
                         /\ worker' = [worker EXCEPT ![w].pc = p]
    BY <1>t, <1>a DEF TraceAsked, Goto, Places
  <1>w. /\ worker' \in [Workers -> Worker]
        /\ \A v \in Workers : /\ worker'[v].pc = (IF v = w THEN p ELSE worker[v].pc)
                              /\ worker'[v].asked = worker[v].asked
                              /\ worker'[v].got = worker[v].got
    BY <1>t, <1>p, GotoOnly
  <1>1. TypeOK'
    BY <1>w DEF CaptureInv, CaptureAssumption, TypeOK, TraceAsked, session, frames, observed, traces
  <1>2. MainInv'
    BY DEF CaptureInv, TypeOK, MainInv, Between, ThisGen, TraceAsked, session, frames, observed,
           traces
  <1>3. WorkerInv'
    BY <1>w, <1>p DEF CaptureInv, CaptureAssumption, TypeOK, MainInv, WorkerInv, SnapInv, Between,
                      NotBegun, ThisGen, Outlived, Leaving, TraceAsked, session, frames, observed,
                      traces, Again, At
  <1>4. SnapInv'
    BY <1>w, <1>p DEF CaptureInv, TypeOK, SnapInv, TraceAsked, session, frames, observed, traces, At
  <1>5. SharedInv'
    BY <1>w, <1>p DEF CaptureInv, TypeOK, MainInv, WorkerInv, SharedInv, Between, TraceAsked,
                      session, frames, observed, traces
  <1> QED BY <1>1, <1>2, <1>3, <1>4, <1>5 DEF CaptureInv

LEMMA traceStartInv ==
  ASSUME CaptureAssumption, CaptureInv, NEW w \in Workers, traceStart(w)
  PROVE  CaptureInv'
  <1>t. worker \in [Workers -> Worker] /\ use \in Uses
    BY DEF CaptureInv, TypeOK
  <1>a. Again(w) \in Places \ {"snapping", "encoding"}
    BY DEF Again, Places
  <1>p. PICK p \in Places : /\ p = Again(w)
                         /\ p \notin {"snapping", "encoding"}
                         /\ worker' = [worker EXCEPT ![w].pc = p]
    BY <1>t, <1>a DEF traceStart, Goto
  <1>w. /\ worker' \in [Workers -> Worker]
        /\ \A v \in Workers : /\ worker'[v].pc = (IF v = w THEN p ELSE worker[v].pc)
                              /\ worker'[v].asked = worker[v].asked
                              /\ worker'[v].got = worker[v].got
    BY <1>t, <1>p, GotoOnly
  <1>1. TypeOK'
    <2>1. worker' \in [Workers -> Worker]
      BY <1>w
    <2>2. visual' \in Visual
      BY DEF CaptureInv, TypeOK, traceStart, session, frames, observed
    <2>3. /\ trace' \in [id : 0..MaxTraces, start : Nat, rows : SUBSET Nat]
          /\ started' \in 0..MaxTraces
      BY DEF CaptureInv, CaptureAssumption, TypeOK, traceStart, session, frames, observed
    <2>4. TypeOK!1' /\ TypeOK!2' /\ TypeOK!3' /\ TypeOK!4' /\ TypeOK!6' /\ TypeOK!7'
          /\ snapRequest' \in Workers \cup {NoOne} /\ traceActive' \in BOOLEAN
      BY DEF CaptureInv, CaptureAssumption, TypeOK, traceStart, session, frames, observed
    <2> QED BY <2>1, <2>2, <2>3, <2>4 DEF TypeOK
  <1>2. MainInv'
    BY DEF CaptureInv, TypeOK, MainInv, Between, ThisGen, traceStart, session, frames, observed
  <1>3. WorkerInv'
    BY <1>w, <1>p DEF CaptureInv, CaptureAssumption, TypeOK, MainInv, WorkerInv, SnapInv, Between,
                      NotBegun, ThisGen, Outlived, Leaving, traceStart, session, frames, observed,
                      Again, At
  <1>4. SnapInv'
    BY <1>w, <1>p DEF CaptureInv, TypeOK, SnapInv, traceStart, session, frames, observed, At
  <1>5. SharedInv'
    BY <1>w, <1>p DEF CaptureInv, TypeOK, MainInv, WorkerInv, SharedInv, Between, traceStart,
                      MayTrace, legacyActive, session, frames, observed
  <1> QED BY <1>1, <1>2, <1>3, <1>4, <1>5 DEF CaptureInv

LEMMA traceStopInv ==
  ASSUME CaptureAssumption, CaptureInv, NEW w \in Workers, traceStop(w)
  PROVE  CaptureInv'
  <1>t. worker \in [Workers -> Worker] /\ taken \in Nat /\ trace.id \in Nat
    BY DEF CaptureInv, TypeOK
  <1>m. worker[w] \in [pc : Places, asked : Nat, got : Nat, job : Nat]
    BY <1>t DEF Worker
  <1>v. worker' = [worker EXCEPT ![w] = worker'[w]]
    BY <1>t DEF traceStop, Goto
  <1>w. \/ worker'[w] = [pc |-> "writing", asked |-> worker[w].asked, got |-> worker[w].got, job |-> trace.id]
        \/ worker'[w] = [pc |-> Again(w), asked |-> worker[w].asked, got |-> worker[w].got, job |-> worker[w].job]
    BY <1>t, <1>m DEF traceStop, Goto
  <1>r. worker'[w] \in Worker
    <2>1. Again(w) \in Places /\ "snapping" \in Places /\ "encoding" \in Places /\ "writing" \in Places
      BY DEF Places, Again
    <2> QED BY <1>t, <1>w, <2>1, <1>m DEF Worker
  <1>o. \A v \in Workers : v # w => worker'[v] = worker[v]
    BY <1>t, <1>v
  <1>u. At(w, "STOP") /\ UNCHANGED <<session, frames, observed>>
    BY DEF traceStop
  <1>c. ~NotBegun /\ w[2] = ThisGen
    BY <1>u DEF CaptureInv, WorkerInv, Outlived, At
  <1>1. TypeOK'
    <2>1. worker' \in [Workers -> Worker]
      BY <1>t, <1>v, <1>r
    <2>2. visual' \in Visual
      BY DEF CaptureInv, TypeOK, traceStop, session, frames, observed
    <2>3. /\ trace' \in [id : 0..MaxTraces, start : Nat, rows : SUBSET Nat]
          /\ started' \in 0..MaxTraces
      BY DEF CaptureInv, CaptureAssumption, TypeOK, traceStop, traceDetach, session, frames,
             observed, NoTrace
    <2>4. TypeOK!1' /\ TypeOK!2' /\ TypeOK!3' /\ TypeOK!4' /\ TypeOK!6' /\ TypeOK!7'
          /\ snapRequest' \in Workers \cup {NoOne} /\ traceActive' \in BOOLEAN
      BY DEF CaptureInv, CaptureAssumption, TypeOK, traceStop, traceDetach, session, frames,
             observed
    <2> QED BY <2>1, <2>2, <2>3, <2>4 DEF TypeOK
  <1>2. MainInv'
    BY DEF CaptureInv, TypeOK, MainInv, Between, ThisGen, traceStop, session, frames, observed
  <1>3. WorkerInv'
    BY <1>u, <1>t, <1>w, <1>o, <1>r, <1>c
       DEF CaptureInv, CaptureAssumption, TypeOK, Worker, MainInv, WorkerInv, SnapInv, Between,
           NotBegun, ThisGen, Outlived, Leaving, session, frames, observed, Again, At
  <1>4. SnapInv'
    BY <1>u, <1>t, <1>w, <1>o, <1>r
       DEF Again, CaptureInv, TypeOK, SnapInv, session, frames, observed, At
  <1>5. SharedInv'
    BY <1>u, <1>t, <1>w, <1>o, <1>r
       DEF CaptureInv, TypeOK, MainInv, WorkerInv, SharedInv, Between, traceStop, traceDetach,
           session, frames, observed
  <1> QED BY <1>1, <1>2, <1>3, <1>4, <1>5 DEF CaptureInv

LEMMA WritesInv ==
  ASSUME CaptureAssumption, CaptureInv, NEW w \in Workers, Writes(w)
  PROVE  CaptureInv'
  <1>t. worker \in [Workers -> Worker] /\ taken \in Nat /\ trace.id \in Nat
    BY DEF CaptureInv, TypeOK
  <1>m. worker[w] \in [pc : Places, asked : Nat, got : Nat, job : Nat]
    BY <1>t DEF Worker
  <1>v. worker' = [worker EXCEPT ![w] = worker'[w]]
    BY <1>t DEF Writes
  <1>w. worker'[w] = [pc |-> Again(w), asked |-> 0, got |-> worker[w].got, job |-> 0]
    BY <1>t, <1>m DEF Writes
  <1>r. worker'[w] \in Worker
    <2>1. Again(w) \in Places /\ "snapping" \in Places /\ "encoding" \in Places /\ "writing" \in Places
      BY DEF Places, Again
    <2> QED BY <1>t, <1>w, <2>1, <1>m DEF Worker
  <1>o. \A v \in Workers : v # w => worker'[v] = worker[v]
    BY <1>t, <1>v
  <1>u. worker[w].pc \in {"encoding", "writing"} /\ UNCHANGED <<session, frames, observed>>
    BY DEF Writes, At
  <1>1. TypeOK'
    <2>1. worker' \in [Workers -> Worker]
      BY <1>t, <1>v, <1>r
    <2>2. visual' \in Visual
      BY DEF CaptureInv, TypeOK, Writes, session, frames, observed
    <2>3. /\ trace' \in [id : 0..MaxTraces, start : Nat, rows : SUBSET Nat]
          /\ started' \in 0..MaxTraces
      BY DEF CaptureInv, CaptureAssumption, TypeOK, Writes, session, frames, observed
    <2>4. TypeOK!1' /\ TypeOK!2' /\ TypeOK!3' /\ TypeOK!4' /\ TypeOK!6' /\ TypeOK!7'
          /\ snapRequest' \in Workers \cup {NoOne} /\ traceActive' \in BOOLEAN
      BY DEF CaptureInv, CaptureAssumption, TypeOK, Writes, session, frames, observed
    <2> QED BY <2>1, <2>2, <2>3, <2>4 DEF TypeOK
  <1>2. MainInv'
    BY DEF CaptureInv, TypeOK, MainInv, Between, ThisGen, Writes, session, frames, observed
  <1>3. WorkerInv'
    BY <1>u, <1>t, <1>w, <1>o, <1>r
       DEF CaptureInv, CaptureAssumption, TypeOK, MainInv, WorkerInv, SnapInv, Between, NotBegun,
           ThisGen, Outlived, Leaving, session, frames, observed, Again, sessionActive, At
  <1>4. SnapInv'
    BY <1>u, <1>t, <1>w, <1>o, <1>r
       DEF Again, sessionActive, CaptureInv, TypeOK, SnapInv, session, frames, observed, At
  <1>5. SharedInv'
    BY <1>u, <1>t, <1>w, <1>o, <1>r
       DEF CaptureInv, TypeOK, MainInv, WorkerInv, SharedInv, Between, Writes, session, frames,
           observed
  <1> QED BY <1>1, <1>2, <1>3, <1>4, <1>5 DEF CaptureInv

LEMMA ImageArrivesInv == ASSUME CaptureAssumption, CaptureInv, ImageArrives PROVE CaptureInv'
  <1>1. TypeOK'
    BY DEF CaptureInv, CaptureAssumption, TypeOK, ImageArrives, session, observed, traces
  <1>2. MainInv'
    BY DEF CaptureInv, TypeOK, MainInv, Between, ThisGen, ImageArrives, session, observed, traces
  <1>3. WorkerInv'
    BY DEF CaptureInv, CaptureAssumption, TypeOK, MainInv, WorkerInv, SnapInv, Between, NotBegun,
           ThisGen, Outlived, Leaving, ImageArrives, session, observed, traces, At
  <1>4. SnapInv'
    BY DEF CaptureInv, TypeOK, SnapInv, ImageArrives, session, observed, traces, At
  <1>5. SharedInv'
    BY DEF CaptureInv, TypeOK, MainInv, WorkerInv, SharedInv, Between, ImageArrives, session,
           observed, traces
  <1> QED BY <1>1, <1>2, <1>3, <1>4, <1>5 DEF CaptureInv

LEMMA OnImageAvailableInv ==
  ASSUME CaptureAssumption, CaptureInv, OnImageAvailable
  PROVE  CaptureInv'
  <1>1. TypeOK'
    <2>1. worker' \in [Workers -> Worker]
      BY DEF CaptureInv, CaptureAssumption, TypeOK, OnImageAvailable, FrameOnly, session, observed,
             traces
    <2>2. visual' \in Visual
      BY DEF CaptureInv, TypeOK, OnImageAvailable, FrameAt, Drains, legacyActive, session, observed,
             traces, Visual
    <2>3. /\ trace' \in [id : 0..MaxTraces, start : Nat, rows : SUBSET Nat]
          /\ started' \in 0..MaxTraces
      BY DEF CaptureInv, CaptureAssumption, TypeOK, OnImageAvailable, FrameOnly, session, observed,
             traces
    <2>4. TypeOK!1' /\ TypeOK!2' /\ TypeOK!3' /\ TypeOK!4' /\ TypeOK!6' /\ TypeOK!7'
          /\ snapRequest' \in Workers \cup {NoOne} /\ traceActive' \in BOOLEAN
      BY DEF CaptureInv, CaptureAssumption, TypeOK, OnImageAvailable, FrameOnly, session, observed,
             traces
    <2> QED BY <2>1, <2>2, <2>3, <2>4 DEF TypeOK
  <1>2. MainInv'
    BY DEF CaptureInv, TypeOK, MainInv, Between, ThisGen, OnImageAvailable, FrameOnly, session,
           observed, traces
  <1>3. WorkerInv'
    BY DEF CaptureInv, CaptureAssumption, TypeOK, MainInv, WorkerInv, SnapInv, Between, NotBegun,
           ThisGen, Outlived, OnImageAvailable, FrameOnly, sessionActive, session, observed, traces,
           At
  <1>4. SnapInv'
    BY DEF CaptureInv, TypeOK, SnapInv, OnImageAvailable, FrameAt, FrameOnly, session, observed,
           traces, At
  <1>5. SharedInv'
    BY DEF CaptureInv, TypeOK, MainInv, WorkerInv, SharedInv, Between, OnImageAvailable, FrameAt,
           FrameOnly, session, observed, traces
  <1> QED BY <1>1, <1>2, <1>3, <1>4, <1>5 DEF CaptureInv

LEMMA AcquireImageInv == ASSUME CaptureAssumption, CaptureInv, AcquireImage PROVE CaptureInv'
  <1>n. taken' \in 0..shown /\ taken' >= taken
    BY DEF AcquireImage, FrameAt, CaptureInv, TypeOK, SnapInv
  <1>v. visual' = [visual EXCEPT !.pc = "acquired", !.img = taken', !.copies = DOMAIN regions # {}]
    BY DEF AcquireImage, FrameAt
  <1>b. taken' \in Nat /\ (DOMAIN regions # {}) \in BOOLEAN
    BY <1>n DEF CaptureInv, TypeOK
  <1>1. TypeOK'
    <2>1. worker' \in [Workers -> Worker]
      BY DEF CaptureInv, CaptureAssumption, TypeOK, AcquireImage, FrameOnly, session, observed,
             traces
    <2>2. visual' \in Visual
      BY <1>n, <1>v, <1>b DEF CaptureInv, TypeOK, Visual
    <2>3. /\ trace' \in [id : 0..MaxTraces, start : Nat, rows : SUBSET Nat]
          /\ started' \in 0..MaxTraces
      BY DEF CaptureInv, CaptureAssumption, TypeOK, AcquireImage, FrameOnly, session, observed,
             traces
    <2>4. TypeOK!1' /\ TypeOK!2' /\ TypeOK!3' /\ TypeOK!4' /\ TypeOK!6' /\ TypeOK!7'
          /\ snapRequest' \in Workers \cup {NoOne} /\ traceActive' \in BOOLEAN
      BY <1>n DEF CaptureInv, CaptureAssumption, TypeOK, AcquireImage, FrameOnly, session, observed,
                  traces
    <2> QED BY <2>1, <2>2, <2>3, <2>4 DEF TypeOK
  <1>2. MainInv'
    BY DEF CaptureInv, TypeOK, MainInv, Between, ThisGen, AcquireImage, FrameOnly, session,
           observed, traces
  <1>3. WorkerInv'
    BY DEF CaptureInv, CaptureAssumption, TypeOK, MainInv, WorkerInv, SnapInv, Between, NotBegun,
           ThisGen, Outlived, Leaving, AcquireImage, FrameOnly, session, observed, traces, At
  <1>4. SnapInv'
    BY DEF CaptureInv, TypeOK, Worker, SnapInv, AcquireImage, FrameAt, FrameOnly, session, observed,
           traces, At
  <1>5. SharedInv'
    BY DEF CaptureInv, TypeOK, MainInv, WorkerInv, SharedInv, Between, AcquireImage, FrameAt,
           FrameOnly, session, observed, traces
  <1> QED BY <1>1, <1>2, <1>3, <1>4, <1>5 DEF CaptureInv

LEMMA CaptureRegionsInv == ASSUME CaptureAssumption, CaptureInv, CaptureRegions PROVE CaptureInv'
  <1>1. TypeOK'
    BY ZenonT(40) DEF CaptureInv, CaptureAssumption, TypeOK, CaptureRegions, FrameAt, FrameOnly, session,
           traces, Visual
  <1>2. MainInv'
    BY DEF CaptureInv, TypeOK, MainInv, Between, ThisGen, CaptureRegions, FrameOnly, session, traces
  <1>3. WorkerInv'
    BY DEF CaptureInv, CaptureAssumption, TypeOK, MainInv, WorkerInv, SnapInv, Between, NotBegun,
           ThisGen, Outlived, Leaving, CaptureRegions, FrameOnly, session, traces, At
  <1>4. SnapInv'
    BY DEF CaptureInv, TypeOK, SnapInv, CaptureRegions, FrameAt, FrameOnly, session, traces, At
  <1>5. SharedInv'
    BY DEF CaptureInv, TypeOK, MainInv, WorkerInv, SharedInv, Between, CaptureRegions, FrameAt,
           FrameOnly, session, traces
  <1> QED BY <1>1, <1>2, <1>3, <1>4, <1>5 DEF CaptureInv

LEMMA SnapSeenInv == ASSUME CaptureAssumption, CaptureInv, SnapSeen PROVE CaptureInv'
  <1>1. TypeOK'
    BY DEF CaptureInv, CaptureAssumption, TypeOK, SnapSeen, FrameAt, FrameOnly, session, observed,
           traces, Visual
  <1>2. MainInv'
    BY DEF CaptureInv, TypeOK, MainInv, Between, ThisGen, SnapSeen, FrameOnly, session, observed,
           traces
  <1>3. WorkerInv'
    BY DEF CaptureInv, CaptureAssumption, TypeOK, MainInv, WorkerInv, SnapInv, Between, NotBegun,
           ThisGen, Outlived, Leaving, SnapSeen, FrameOnly, session, observed, traces, At
  <1>4. SnapInv'
    BY DEF CaptureInv, TypeOK, SnapInv, SnapSeen, FrameAt, FrameOnly, session, observed, traces, At
  <1>5. SharedInv'
    BY DEF CaptureInv, TypeOK, MainInv, WorkerInv, SharedInv, Between, SnapSeen, FrameAt, FrameOnly,
           session, observed, traces
  <1> QED BY <1>1, <1>2, <1>3, <1>4, <1>5 DEF CaptureInv

LEMMA SnapCopiedInv == ASSUME CaptureAssumption, CaptureInv, SnapCopied PROVE CaptureInv'
  <1>w. worker' = worker \/ (visual.snap \in Workers /\ worker' = [worker EXCEPT ![visual.snap].got = visual.img])
    BY DEF SnapCopied, CaptureInv, SnapInv
  <1>n. visual.img \in Nat /\ worker \in [Workers -> Worker]
    BY DEF CaptureInv, TypeOK, Visual
  <1>1. TypeOK'
    <2>1. worker' \in [Workers -> Worker]
      BY <1>w, <1>n DEF Worker
    <2>2. visual' \in Visual
      BY DEF CaptureInv, TypeOK, SnapCopied, FrameAt, session, observed, traces, Visual
    <2>3. /\ trace' \in [id : 0..MaxTraces, start : Nat, rows : SUBSET Nat]
          /\ started' \in 0..MaxTraces
      BY DEF CaptureInv, CaptureAssumption, TypeOK, SnapCopied, session, observed, traces
    <2>4. TypeOK!1' /\ TypeOK!2' /\ TypeOK!3' /\ TypeOK!4' /\ TypeOK!6' /\ TypeOK!7'
          /\ snapRequest' \in Workers \cup {NoOne} /\ traceActive' \in BOOLEAN
      BY DEF CaptureInv, CaptureAssumption, TypeOK, SnapCopied, session, observed, traces
    <2> QED BY <2>1, <2>2, <2>3, <2>4 DEF TypeOK
  <1>2. MainInv'
    BY DEF CaptureInv, TypeOK, MainInv, Between, ThisGen, SnapCopied, session, observed, traces
  <1>3. WorkerInv'
    BY DEF CaptureInv, CaptureAssumption, TypeOK, MainInv, WorkerInv, SnapInv, Between, NotBegun,
           ThisGen, Outlived, Leaving, SnapCopied, session, observed, traces, At
  <1>4. SnapInv'
    BY DEF CaptureInv, TypeOK, SnapInv, SnapCopied, FrameAt, session, observed, traces, At
  <1>5. SharedInv'
    BY DEF CaptureInv, TypeOK, MainInv, WorkerInv, SharedInv, Between, SnapCopied, FrameAt, session,
           observed, traces
  <1> QED BY <1>1, <1>2, <1>3, <1>4, <1>5 DEF CaptureInv

LEMMA FeedInv == ASSUME CaptureAssumption, CaptureInv, Feed PROVE CaptureInv'
  <1>1. TypeOK'
    <2>1. worker' \in [Workers -> Worker]
      BY DEF CaptureInv, CaptureAssumption, TypeOK, Feed, session, observed
    <2>2. visual' \in Visual
      BY DEF CaptureInv, TypeOK, Feed, FrameAt, session, observed, Visual, NoFrame
    <2>3. /\ trace' \in [id : 0..MaxTraces, start : Nat, rows : SUBSET Nat]
          /\ started' \in 0..MaxTraces
      BY DEF CaptureInv, CaptureAssumption, TypeOK, Feed, Record, session, observed, Visual
    <2>4. TypeOK!1' /\ TypeOK!2' /\ TypeOK!3' /\ TypeOK!4' /\ TypeOK!6' /\ TypeOK!7'
          /\ snapRequest' \in Workers \cup {NoOne} /\ traceActive' \in BOOLEAN
      BY DEF CaptureInv, CaptureAssumption, TypeOK, Feed, Record, session, observed
    <2> QED BY <2>1, <2>2, <2>3, <2>4 DEF TypeOK
  <1>2. MainInv'
    BY DEF CaptureInv, TypeOK, MainInv, Between, ThisGen, Feed, session, observed
  <1>3. WorkerInv'
    BY DEF CaptureInv, CaptureAssumption, TypeOK, MainInv, WorkerInv, SnapInv, Between, NotBegun,
           ThisGen, Outlived, Leaving, Feed, session, observed, At
  <1>4. SnapInv'
    BY DEF CaptureInv, TypeOK, SnapInv, Feed, FrameAt, session, observed, At, NoFrame
  <1>5. SharedInv'
    BY DEF CaptureInv, TypeOK, MainInv, WorkerInv, SharedInv, Between, Feed, FrameAt, Record,
           session, observed
  <1> QED BY <1>1, <1>2, <1>3, <1>4, <1>5 DEF CaptureInv

LEMMA InitInv == ASSUME CaptureAssumption, Init PROVE CaptureInv
  <1>1. TypeOK
    <2>1. worker \in [Workers -> Worker]
      BY DEF Init, Worker, Places
    <2>2. visual \in Visual
      BY DEF Init, NoFrame, Visual
    <2>3. MaxTraces \in Nat
      BY DEF CaptureAssumption
    <2>4. trace \in [id : 0..MaxTraces, start : Nat, rows : SUBSET Nat] /\ started \in 0..MaxTraces
      BY <2>3 DEF Init, NoTrace
    <2>5. TypeOK!1 /\ TypeOK!2 /\ TypeOK!3 /\ TypeOK!4
      BY DEF Init, TypeOK
    <2>6. TypeOK!6 /\ TypeOK!7
      BY DEF Init, TypeOK
    <2>7. snapRequest \in Workers \cup {NoOne} /\ traceActive \in BOOLEAN
      BY DEF Init
    <2> QED BY <2>1, <2>2, <2>4, <2>5, <2>6, <2>7 DEF TypeOK
  <1>2. MainInv /\ WorkerInv /\ SharedInv
    BY DEF Init, MainInv, WorkerInv, SharedInv, Between, NotBegun, ThisGen, Outlived, Leaving, At,
           NoFrame
  <1>3. SnapInv
    BY DEF Init, SnapInv, At, NoFrame
  <1> QED BY <1>1, <1>2, <1>3 DEF CaptureInv

LEMMA StutterInv == ASSUME CaptureInv, UNCHANGED vars PROVE CaptureInv'
  BY DEF CaptureInv, TypeOK, MainInv, WorkerInv, SnapInv, SharedInv, Between, NotBegun, ThisGen,
         Outlived, Leaving, At, vars, session, frames, observed, traces

LEMMA NextInv == ASSUME CaptureAssumption, CaptureInv, [Next]_vars PROVE CaptureInv'
  <1>1. CASE Main
    <2>1. CASE StartCommand BY <2>1, StartCommandInv
    <2>2. CASE Project BY <2>2, ProjectInv
    <2>3. CASE Listen BY <2>3, ListenInv
    <2>4. CASE StopBegins BY <2>4, StopBeginsInv
    <2>5. CASE StopDetaches BY <2>5, StopDetachesInv
    <2>6. CASE StopServers BY <2>6, StopServersInv
    <2>7. CASE StopJoins BY <2>7, StopJoinsInv
    <2>8. CASE StopRevokes BY <2>8, StopRevokesInv
    <2>9. CASE StopFrames BY <2>9, StopFramesInv
    <2>10. CASE StopReleases BY <2>10, StopReleasesInv
    <2>11. CASE MainTarget BY <2>11, MainTargetInv
    <2> QED BY <1>1, <2>1, <2>2, <2>3, <2>4, <2>5, <2>6, <2>7, <2>8, <2>9, <2>10, <2>11 DEF Main
  <1>2. CASE \E t \in 1..MaxTraces : Saved(t)
    BY <1>2, SavedInv
  <1>3. ASSUME NEW w \in Workers, Listener(w) PROVE CaptureInv'
    <2>1. CASE Accept(w) BY <2>1, AcceptInv
    <2>2. CASE Serve(w) BY <2>2, ServeInv
    <2>3. CASE RegionSet(w) BY <2>3, RegionSetInv
    <2>4. CASE RegionClear(w) BY <2>4, RegionClearInv
    <2>5. CASE SnapAsks(w) BY <2>5, SnapAsksInv
    <2>6. CASE SnapEnds(w) BY <2>6, SnapEndsInv
    <2>7. CASE Target(w) BY <2>7, TargetInv
    <2>8. CASE TraceAsked(w) BY <2>8, TraceAskedInv
    <2>9. CASE traceStart(w) BY <2>9, traceStartInv
    <2>10. CASE traceStop(w) BY <2>10, traceStopInv
    <2>11. CASE Writes(w) BY <2>11, WritesInv
    <2> QED BY <1>3, <2>1, <2>2, <2>3, <2>4, <2>5, <2>6, <2>7, <2>8, <2>9, <2>10, <2>11 DEF Listener
  <1>4. CASE Frame
    <2>1. CASE ImageArrives BY <2>1, ImageArrivesInv
    <2>2. CASE OnImageAvailable BY <2>2, OnImageAvailableInv
    <2>3. CASE AcquireImage BY <2>3, AcquireImageInv
    <2>4. CASE CaptureRegions BY <2>4, CaptureRegionsInv
    <2>5. CASE SnapSeen BY <2>5, SnapSeenInv
    <2>6. CASE SnapCopied BY <2>6, SnapCopiedInv
    <2>7. CASE Feed BY <2>7, FeedInv
    <2> QED BY <1>4, <2>1, <2>2, <2>3, <2>4, <2>5, <2>6, <2>7 DEF Frame
  <1>5. CASE UNCHANGED vars
    BY <1>5, StutterInv
  <1> QED BY <1>1, <1>2, <1>3, <1>4, <1>5 DEF Next

-----------------------------------------------------------------------------
(* A listener of an older session is somewhere it can only read, answer,   *)
(* encode, write or wait for a picture: none of it touches what is shared. *)
LEMMA OldInert ==
  ASSUME CaptureInv, Next, NEW v \in Workers, v[2] # generation, ~stopping, worker'[v] # worker[v]
  PROVE  UNCHANGED <<session, target, observed, trace, traceActive>>
  <1>1. Outlived(v) /\ token # v[2]
    BY DEF CaptureInv, MainInv, WorkerInv, ThisGen, Workers, Generations
  <1>2. worker \in [Workers -> Worker]
    BY DEF CaptureInv, TypeOK
  <1>3. ~Main
    <2>1. ~Listen
      BY <1>2 DEF Listen
    <2> QED
      BY <2>1 DEF Main, StartCommand, Project, StopBegins, StopDetaches, StopServers, StopJoins,
                  StopRevokes, StopFrames, StopReleases, MainTarget
  <1>4. ~\E t \in 1..MaxTraces : Saved(t)
    BY DEF Saved
  <1>5. ~Frame
    <2>1. ~SnapCopied
      BY <1>1, <1>2 DEF SnapCopied, CaptureInv, SnapInv, Outlived, At
    <2> QED
      BY <2>1 DEF Frame, ImageArrives, OnImageAvailable, AcquireImage, CaptureRegions, SnapSeen,
                  Feed, FrameAt, FrameOnly
  <1>6. PICK w \in Workers : Listener(w)
    BY <1>3, <1>4, <1>5 DEF Next
  <1>7. w = v
    BY <1>2, <1>6 DEF Listener, Accept, Serve, RegionSet, RegionClear, SnapAsks, SnapEnds, Target,
                      TraceAsked, traceStart, traceStop, Writes, Goto
  <1>8. Serve(v) \/ SnapAsks(v) \/ Writes(v)
    BY <1>1, <1>6, <1>7
       DEF Listener, Outlived, At, Accept, RegionSet, RegionClear, SnapEnds, Target, TraceAsked,
           traceStart, traceStop
  <1>9. CASE SnapAsks(v)
    BY <1>1, <1>9 DEF SnapAsks, Interrupted, observed, traces
  <1> QED BY <1>8, <1>9 DEF Serve, Writes, traces

LEMMA InvImplies == ASSUME CaptureInv PROVE SnapIsItsOwn /\ RegionsOfOneImage /\ NothingLeft
  <1>1. SnapIsItsOwn
    BY DEF CaptureInv, SnapInv, SnapIsItsOwn
  <1>2. RegionsOfOneImage
    BY DEF CaptureInv, SharedInv, RegionsOfOneImage, Ready
  <1>3. NothingLeft
    BY DEF CaptureInv, MainInv, WorkerInv, SnapInv, SharedInv, NothingLeft, Between, NotBegun,
           Outlived, At
  <1> QED BY <1>1, <1>2, <1>3

(* Every variable has its type (the type invariant of the app).            *)
THEOREM Typed == ASSUME CaptureAssumption PROVE Spec => []TypeOK
  <1>1. CaptureInv => TypeOK
    BY DEF CaptureInv
  <1> QED BY InitInv, NextInv, <1>1, PTL DEF Spec

(* A trace is taken of FNaF 2 only, whoever moves the target beside it.    *)
THEOREM TraceOfItsTarget == ASSUME CaptureAssumption PROVE Spec => []TraceOnItsTarget
  <1>1. CaptureInv => TraceOnItsTarget
    BY DEF CaptureInv, SharedInv, TraceOnItsTarget
  <1> QED BY InitInv, NextInv, <1>1, PTL DEF Spec

(* SNAP and REGION answer with what is the request's own, nothing is left  *)
(* between two sessions, and a listener or a callback that outlived its    *)
(* session changes nothing of a later one.                                 *)
THEOREM SessionsApart == ASSUME CaptureAssumption PROVE Spec => SessionsKeptApart
  <1> DEFINE Inert == \A w \in Workers : w[2] # generation /\ ~stopping /\ worker'[w] # worker[w] =>
                        UNCHANGED <<session, target, observed, trace, traceActive>>
  <1>1. Init => CaptureInv
    BY InitInv
  <1>2. CaptureInv /\ [Next]_vars => CaptureInv'
    BY NextInv
  <1>3. CaptureInv /\ [Next]_vars => [Inert]_vars
    BY OldInert
  <1>4. CaptureInv => SnapIsItsOwn /\ RegionsOfOneImage /\ NothingLeft
    BY InvImplies
  <1> QED BY <1>1, <1>2, <1>3, <1>4, PTL DEF Spec, SessionsKeptApart, OldListenersInert

(***************************************************************************)
(* The frame trace.                                                        *)
(***************************************************************************)
Job(w) == worker[w].job

(* Who has each trace that was started: exactly one of those who can. A    *)
(* writing listener has the trace it took, and no other has one.           *)
OnceInv ==
  /\ written \in [1..MaxTraces -> Nat] /\ saving \subseteq 1..started
  /\ trace.id <= started /\ (trace.id = 0 => trace = NoTrace) /\ (traceActive => trace.id # 0)
  /\ \A w \in Workers : Job(w) <= started /\ (Job(w) # 0 <=> At(w, "writing"))
  /\ \A t \in 1..MaxTraces : t > started => written[t] = 0
  /\ \A t \in 1..started :
       /\ trace.id = t \/ t \in saving \/ written[t] = 1 \/ \E w \in Workers : Job(w) = t
       /\ trace.id = t => t \notin saving /\ written[t] = 0 /\ \A w \in Workers : Job(w) # t
       /\ t \in saving => written[t] = 0 /\ \A w \in Workers : Job(w) # t
       /\ written[t] \in {0, 1} /\ (written[t] = 1 => \A w \in Workers : Job(w) # t)
       /\ \A v, w \in Workers : Job(v) = t /\ Job(w) = t => v = w

InHandImage == visual.pc \in {"acquired", "captured", "snaps", "feeds"}
Stopped == main \in {"detached", "closed", "joining", "joined", "quiet"}

(* Where an active trace stands to the images: its newest row is the last  *)
(* image taken, or the one before the image in hand, as long as that image *)
(* can still be fed. A trace begun beside a stop stays empty until a later *)
(* session, whose first image is a newer one.                              *)
GapInv ==
  /\ visual.pc = "feeds" => visual.img = taken
  /\ trace.start <= shown /\ \A r \in trace.rows : r > trace.start /\ r <= taken
  /\ \A r, s \in trace.rows : \A m \in r..s : m \in trace.rows
  /\ traceActive /\ trace.rows # {} =>
       /\ visual.pc \in {"idle", "begun"} /\ sessionActive(visual.gen) => taken \in trace.rows
       /\ visual.pc = "begun" => visual.drain /\ visual.legacy
       /\ InHandImage => visual.legacy /\ taken \notin trace.rows
       /\ InHandImage /\ (sessionActive(visual.gen) \/ visual.pc = "feeds") => taken - 1 \in trace.rows
  /\ traceActive /\ (Stopped \/ projection = 0) => trace.rows = {}
  /\ traceActive /\ Stopped /\ visual.pc = "feeds" => visual.img <= trace.start

LEMMA TraceInit == ASSUME CaptureAssumption, Init PROVE OnceInv /\ GapInv
  <1>1. OnceInv
    BY DEF Init, OnceInv, NoTrace, Job, At, CaptureAssumption
  <1>2. GapInv
    BY DEF Init, GapInv, NoTrace, NoFrame, InHandImage
  <1> QED BY <1>1, <1>2

(* What leaves every trace with whom it is.                                *)
LEMMA OnceQuiet ==
  ASSUME OnceInv, UNCHANGED <<trace, traceActive, started, saving, written>>,
         \A w \in Workers : Job(w)' = Job(w) /\ (At(w, "writing")' <=> At(w, "writing"))
  PROVE  OnceInv'
  BY DEF OnceInv, Job, At

(* A thread that only goes elsewhere, and not to write.                    *)
LEMMA JobsKept ==
  ASSUME worker \in [Workers -> Worker], NEW w \in Workers, NEW p \in Places,
         worker' = [worker EXCEPT ![w].pc = p], worker[w].pc # "writing", p # "writing"
  PROVE  \A v \in Workers : Job(v)' = Job(v) /\ (At(v, "writing")' <=> At(v, "writing"))
  BY GotoOnly DEF Job, At

LEMMA MainOnce ==
  ASSUME CaptureAssumption, CaptureInv, OnceInv, Main \/ (\E t \in 1..MaxTraces : Saved(t)) PROVE OnceInv'
  <1>t. worker \in [Workers -> Worker] /\ MaxTraces \in Nat /\ started \in 0..MaxTraces
    BY DEF CaptureInv, TypeOK, CaptureAssumption
  <1>1. CASE Main /\ ~Listen /\ ~StopDetaches
    <2>1. UNCHANGED <<trace, traceActive, started, saving, written, worker>>
      BY <1>1 DEF Main, StartCommand, Project, StopBegins, StopServers, StopJoins, StopRevokes, StopFrames,
                  StopReleases, MainTarget, traces
    <2> QED
      BY <2>1, OnceQuiet DEF Job, At
  <1>2. CASE Listen
    <2>1. UNCHANGED <<trace, traceActive, started, saving, written>>
      BY <1>2 DEF Listen, traces
    <2>2. ASSUME NEW v \in Workers PROVE Job(v)' = Job(v) /\ (At(v, "writing")' <=> At(v, "writing"))
      BY <1>t, <1>2 DEF Listen, CaptureInv, WorkerInv, At, Job, Worker
    <2> QED
      BY <2>1, <2>2, OnceQuiet
  <1>3. CASE StopDetaches
    <2>1. UNCHANGED <<worker, started, written>>
      BY <1>3 DEF StopDetaches
    <2>2. CASE trace # NoTrace
      <3>1. trace' = NoTrace /\ ~traceActive' /\ saving' = saving \cup {trace.id} /\ trace.id \in 1..started
        BY <1>t, <1>3, <2>2 DEF StopDetaches, traceDetach, OnceInv, CaptureInv, TypeOK
      <3>2. trace'.id = 0 /\ saving' \subseteq 1..started /\ UNCHANGED <<started, written>>
        BY <2>1, <3>1 DEF OnceInv, NoTrace
      <3>3. \A w \in Workers : Job(w)' = Job(w) /\ (At(w, "writing")' <=> At(w, "writing"))
        BY <2>1 DEF Job, At
      <3>4. trace.id \notin saving /\ written[trace.id] = 0 /\ \A w \in Workers : Job(w) # trace.id
        BY <3>1 DEF OnceInv
      <3>5. ASSUME NEW t \in 1..started
            PROVE  /\ t \in saving' \/ written[t] = 1 \/ \E w \in Workers : Job(w) = t
                   /\ t \in saving' => written[t] = 0 /\ \A w \in Workers : Job(w) # t
        BY <3>1, <3>4 DEF OnceInv
      <3> QED
        BY <1>t, <3>1, <3>2, <3>3, <3>5 DEF OnceInv
    <2>3. CASE trace = NoTrace
      BY <1>3, <2>1, <2>3, OnceQuiet DEF StopDetaches, Job, At
    <2> QED
      BY <2>2, <2>3
  <1>4. ASSUME NEW t \in 1..MaxTraces, Saved(t) PROVE OnceInv'
    <2>1. /\ UNCHANGED <<worker, started, trace, traceActive>> /\ t \in saving /\ saving' = saving \ {t}
          /\ written' = [written EXCEPT ![t] = @ + 1] /\ written \in [1..MaxTraces -> Nat]
      BY <1>4 DEF Saved, OnceInv
    <2>2. /\ written' \in [1..MaxTraces -> Nat] /\ written'[t] = written[t] + 1 /\ t \in 1..started
          /\ \A s \in 1..MaxTraces : s # t => written'[s] = written[s]
      BY <1>t, <2>1 DEF OnceInv
    <2>3. written[t] = 0 /\ (\A w \in Workers : Job(w) # t) /\ trace.id # t
      BY <2>1, <2>2 DEF OnceInv
    <2> QED
      BY <1>t, <2>1, <2>2, <2>3 DEF OnceInv, Job, At
  <1> QED
    BY <1>1, <1>2, <1>3, <1>4 DEF Main

LEMMA ListenerOnce ==
  ASSUME CaptureAssumption, CaptureInv, OnceInv, NEW w \in Workers, Listener(w) PROVE OnceInv'
  <1>t. worker \in [Workers -> Worker] /\ MaxTraces \in Nat /\ started \in 0..MaxTraces /\ trace.id \in Nat
        /\ use.verbs \subseteq Verbs
    BY DEF CaptureInv, TypeOK, CaptureAssumption
  <1>m. worker[w] \in [pc : Places, asked : Nat, got : Nat, job : Nat]
    BY <1>t DEF Worker
  <1>a. Again(w) \in Places \ {"writing"} /\ {"read", "none", "starting"} \cup Verbs \subseteq Places
    BY DEF Again, Places, Verbs
  <1>1. CASE Accept(w) \/ Serve(w) \/ RegionSet(w) \/ RegionClear(w) \/ Target(w) \/ TraceAsked(w)
    <2>1. /\ UNCHANGED <<trace, traceActive, started, saving, written>> /\ worker[w].pc # "writing"
          /\ \E p \in Places : p # "writing" /\ worker' = [worker EXCEPT ![w].pc = p]
      BY <1>1, <1>t, <1>a DEF Accept, Serve, RegionSet, RegionClear, Target, TraceAsked, traces, At, Goto, Verbs
    <2> QED
      BY <1>t, <2>1, JobsKept, OnceQuiet
  <1>2. CASE SnapAsks(w) \/ SnapEnds(w)
    <2>1. UNCHANGED <<trace, traceActive, started, saving, written>> /\ worker[w].pc \in {"SNAP", "snapping"}
      BY <1>2 DEF SnapAsks, SnapEnds, traces, At
    <2>2. worker' = [worker EXCEPT ![w] = worker'[w]]
      BY <1>t, <1>2 DEF SnapAsks, SnapEnds, Goto
    <2>3. worker'[w].job = worker[w].job /\ worker'[w].pc # "writing"
      <3>1. \/ worker'[w] = [pc |-> Again(w), asked |-> worker[w].asked, got |-> worker[w].got, job |-> worker[w].job]
            \/ worker'[w] = [pc |-> "snapping", asked |-> taken, got |-> 0, job |-> worker[w].job]
            \/ worker'[w] = [pc |-> "encoding", asked |-> worker[w].asked, got |-> worker[w].got, job |-> worker[w].job]
            \/ worker'[w] = [pc |-> Again(w), asked |-> 0, got |-> worker[w].got, job |-> worker[w].job]
        <4>1. CASE SnapAsks(w)
          BY <1>t, <1>m, <4>1 DEF SnapAsks, Goto, NewRequest
        <4>2. CASE SnapEnds(w)
          BY <1>t, <1>m, <4>2 DEF SnapEnds, Goto
        <4> QED BY <1>2, <4>1, <4>2
      <3> QED BY <1>a, <3>1
    <2>4. ASSUME NEW v \in Workers PROVE Job(v)' = Job(v) /\ (At(v, "writing")' <=> At(v, "writing"))
      BY <1>t, <2>1, <2>2, <2>3 DEF Job, At
    <2> QED
      BY <2>1, <2>4, OnceQuiet
  <1>3. CASE traceStart(w)
    <2>1. worker[w].pc = "starting" /\ worker' = [worker EXCEPT ![w].pc = Again(w)] /\ UNCHANGED <<saving, written>>
      BY <1>3 DEF traceStart, At, Goto
    <2>2. \A v \in Workers : Job(v)' = Job(v) /\ (At(v, "writing")' <=> At(v, "writing"))
      BY <1>t, <1>a, <2>1, JobsKept
    <2>3. CASE UNCHANGED <<trace, traceActive, started>>
      BY <2>1, <2>2, <2>3, OnceQuiet
    <2>4. CASE MayTrace /\ started < MaxTraces /\ trace' = [id |-> started + 1, start |-> shown, rows |-> {}]
               /\ traceActive' = TRUE /\ started' = started + 1
      <3>1. trace.id = 0 /\ trace'.id = started + 1
        BY <2>4 DEF MayTrace, NoTrace
      <3>2. \A v \in Workers : Job(v) \in Nat /\ Job(v) <= started
        BY <1>t DEF OnceInv, Job, Worker
      <3> QED
        BY <1>t, <2>1, <2>2, <2>4, <3>1, <3>2 DEF OnceInv
    <2> QED
      BY <1>3, <2>3, <2>4 DEF traceStart
  <1>4. CASE traceStop(w)
    <2>1. UNCHANGED <<started, saving, written>> /\ worker[w].pc = "STOP"
      BY <1>4 DEF traceStop, At
    <2>2. CASE trace = NoTrace
      BY <1>t, <1>a, <1>4, <2>1, <2>2, JobsKept, OnceQuiet DEF traceStop, Goto
    <2>3. CASE trace # NoTrace
      <3>1. /\ trace' = NoTrace /\ ~traceActive' /\ trace.id \in 1..started
            /\ worker' = [worker EXCEPT ![w].pc = "writing", ![w].job = trace.id]
        BY <1>t, <1>4, <2>3, SMTT(30) DEF traceStop, traceDetach, OnceInv
      <3>2. worker'[w] = [pc |-> "writing", asked |-> worker[w].asked, got |-> worker[w].got, job |-> trace.id]
        BY <1>t, <1>m, <3>1
      <3>3. \A v \in Workers : /\ Job(v)' = IF v = w THEN trace.id ELSE Job(v)
                               /\ At(v, "writing")' <=> (v = w \/ At(v, "writing"))
        BY <1>t, <3>1, <3>2 DEF Job, At
      <3>4. Job(w) = 0 /\ ~At(w, "writing")
        BY <2>1 DEF OnceInv, At
      <3> QED
        BY <1>t, <2>1, <3>1, <3>3, <3>4 DEF OnceInv, NoTrace
    <2> QED
      BY <2>2, <2>3
  <1>5. CASE Writes(w)
    <2>1. UNCHANGED <<started, saving, trace, traceActive>> /\ worker[w].pc \in {"encoding", "writing"}
      BY <1>5 DEF Writes, At
    <2>2. worker'[w] = [pc |-> Again(w), asked |-> 0, got |-> worker[w].got, job |-> 0]
      BY <1>t, <1>m, <1>5 DEF Writes
    <2>3. \A v \in Workers : /\ Job(v)' = IF v = w THEN 0 ELSE Job(v)
                             /\ At(v, "writing")' <=> (v # w /\ At(v, "writing"))
      BY <1>t, <1>a, <1>5, <2>2 DEF Writes, Job, At
    <2>4. CASE At(w, "encoding")
      <3>1. written' = written /\ Job(w) = 0 /\ ~At(w, "writing")
        BY <1>t, <1>5, <2>4 DEF Writes, OnceInv, At
      <3> QED
        BY <2>1, <2>3, <3>1, OnceQuiet
    <2>5. CASE At(w, "writing")
      <3>1. written' = [written EXCEPT ![Job(w)] = @ + 1] /\ Job(w) \in 1..started
        BY <1>t, <1>m, <1>5, <2>5 DEF Writes, OnceInv, At, Job
      <3>2. /\ written' \in [1..MaxTraces -> Nat] /\ written'[Job(w)] = 1
            /\ \A t \in 1..MaxTraces : t # Job(w) => written'[t] = written[t]
        BY <1>t, <3>1 DEF OnceInv
      <3>3. trace.id # Job(w) /\ Job(w) \notin saving /\ \A v \in Workers : v # w => Job(v) # Job(w)
        BY <3>1 DEF OnceInv
      <3> QED
        BY <1>t, <2>1, <2>3, <3>1, <3>2, <3>3 DEF OnceInv
    <2> QED
      BY <2>1, <2>4, <2>5 DEF At
  <1> QED
    BY <1>1, <1>2, <1>3, <1>4, <1>5 DEF Listener

LEMMA FrameOnce ==
  ASSUME CaptureAssumption, CaptureInv, OnceInv, Frame PROVE OnceInv'
  <1>t. worker \in [Workers -> Worker] /\ trace.id \in Nat
    BY DEF CaptureInv, TypeOK
  <1>1. UNCHANGED <<started, saving, written>>
    BY DEF Frame, ImageArrives, OnImageAvailable, AcquireImage, CaptureRegions, SnapSeen, SnapCopied, Feed,
           FrameOnly, traces
  <1>2. \A v \in Workers : Job(v)' = Job(v) /\ (At(v, "writing")' <=> At(v, "writing"))
    <2>1. CASE SnapCopied
      BY <1>t, <2>1 DEF SnapCopied, CaptureInv, SnapInv, Job, At, Worker
    <2>2. CASE ~SnapCopied
      BY <2>2 DEF Frame, ImageArrives, OnImageAvailable, AcquireImage, CaptureRegions, SnapSeen, Feed,
                  FrameOnly, Job, At
    <2> QED BY <2>1, <2>2
  <1>3. CASE Feed
    <2>1. trace'.id = trace.id /\ (traceActive' => traceActive)
          /\ (trace' = trace \/ (traceActive /\ trace' # NoTrace))
      <3>1. CASE UNCHANGED <<trace, traceActive>>
        BY <3>1
      <3>2. CASE ~UNCHANGED <<trace, traceActive>>
        <4>1. Record(visual.img) /\ traceActive
          BY <1>3, <3>2 DEF Feed, Record
        <4>2. CASE UNCHANGED trace
          BY <4>1, <4>2
        <4>3. CASE ~UNCHANGED trace
          <5>1. trace' = [trace EXCEPT !.rows = @ \cup {visual.img}] /\ UNCHANGED traceActive
            BY <4>1, <4>3 DEF Record
          <5>2. trace'.id = trace.id /\ trace.id # 0
            BY <4>1, <5>1 DEF OnceInv, CaptureInv, TypeOK
          <5> QED
            BY <4>1, <5>1, <5>2 DEF NoTrace
        <4> QED BY <4>2, <4>3
      <3> QED BY <3>1, <3>2
    <2>2. trace'.id = 0 => trace' = NoTrace
      BY <2>1 DEF OnceInv
    <2> QED
      BY <1>1, <1>2, <2>1, <2>2 DEF OnceInv
  <1>4. CASE ~Feed
    BY <1>1, <1>2, <1>4, OnceQuiet DEF Frame, ImageArrives, OnImageAvailable, AcquireImage, CaptureRegions,
                                       SnapSeen, SnapCopied, FrameOnly, traces
  <1> QED BY <1>3, <1>4

(* What leaves a trace's rows where they stand to the images.              *)
LEMMA GapQuiet ==
  ASSUME GapInv, UNCHANGED <<trace, traceActive, taken>>, shown' >= shown, shown \in Nat, shown' \in Nat,
         trace.start \in Nat, visual'.pc = visual.pc, visual'.gen = visual.gen, visual'.img = visual.img,
         visual'.legacy = visual.legacy, visual'.drain = visual.drain,
         visual.pc # "none" /\ sessionActive(visual.gen)' => sessionActive(visual.gen),
         Stopped' => Stopped, projection' = 0 => projection = 0
  PROVE  GapInv'
  BY DEF GapInv, InHandImage, sessionActive

(* While no trace is active, only what it kept counts.                     *)
LEMMA GapInactive ==
  ASSUME GapInv, ~traceActive', trace' = trace \/ trace' = NoTrace, trace.start \in Nat, shown \in Nat,
         shown' = shown, taken' = taken, visual' = visual
  PROVE  GapInv'
  BY DEF GapInv, NoTrace

LEMMA MainGap ==
  ASSUME CaptureAssumption, CaptureInv, OnceInv, GapInv, Main \/ (\E t \in 1..MaxTraces : Saved(t)) PROVE GapInv'
  <1>t. /\ shown \in Nat /\ taken \in Nat /\ taken <= shown /\ trace.start \in Nat /\ trace.rows \subseteq Nat
        /\ generation \in Nat /\ visual.gen \in Nat
    BY DEF CaptureInv, TypeOK, Visual
  <1>1. CASE StartCommand
    <2>1. visual.pc = "none" /\ ~Stopped
      BY <1>1 DEF StartCommand, CaptureInv, SharedInv, Stopped
    <2> QED
      BY <1>1, <1>t, <2>1, GapQuiet DEF StartCommand, frames, traces, Stopped
  <1>2. CASE Project
    <2>1. projection = 0 /\ main = "starting" /\ UNCHANGED <<trace, traceActive, shown>> /\ visual.pc = "none"
      BY <1>2 DEF Project, CaptureInv, MainInv, SharedInv, traces, frames
    <2>2. UNCHANGED <<visual, taken>> \/ (visual'.pc = "idle" /\ taken' = shown)
      BY <1>2 DEF Project, frames, NoFrame
    <2>3. traceActive => trace.rows = {}
      BY <2>1 DEF GapInv
    <2> QED
      BY <1>t, <2>1, <2>2, <2>3 DEF GapInv, InHandImage
  <1>3. CASE Listen \/ StopBegins
    <2>1. ~Stopped' /\ UNCHANGED <<trace, traceActive, shown, taken, visual, projection>>
          /\ (sessionActive(visual.gen)' => sessionActive(visual.gen))
      BY <1>3 DEF Listen, StopBegins, frames, traces, Stopped, sessionActive
    <2> QED
      BY <1>t, <2>1, GapQuiet
  <1>4. CASE StopDetaches
    <2>1. ~traceActive' /\ (trace' = trace \/ trace' = NoTrace) /\ UNCHANGED <<shown, taken, visual>>
      BY <1>4 DEF StopDetaches, traceDetach, frames, OnceInv, NoTrace
    <2> QED
      BY <1>t, <2>1, GapInactive
  <1>5. CASE StopServers \/ StopJoins \/ StopRevokes
    <2>1. Stopped /\ UNCHANGED <<trace, traceActive, shown, taken, visual, projection, generation, stopping>>
      BY <1>5 DEF StopServers, StopJoins, StopRevokes, frames, traces, Stopped
    <2> QED
      BY <1>t, <2>1, GapQuiet DEF sessionActive
  <1>6. CASE StopFrames
    <2>1. visual'.pc = "none" /\ Stopped /\ UNCHANGED <<trace, traceActive, shown, taken, projection>>
      BY <1>6 DEF StopFrames, NoFrame, Stopped, traces
    <2> QED
      BY <1>t, <2>1 DEF GapInv, InHandImage
  <1>7. CASE StopReleases
    <2>1. Stopped /\ ~Stopped' /\ visual.pc = "none" /\ UNCHANGED <<trace, traceActive, shown, taken, visual>>
      BY <1>7 DEF StopReleases, Stopped, frames, traces, CaptureInv, SharedInv
    <2> QED
      BY <1>t, <2>1 DEF GapInv, InHandImage
  <1>8. CASE MainTarget \/ \E t \in 1..MaxTraces : Saved(t)
    <2>1. UNCHANGED <<trace, traceActive, shown, taken, visual, session>>
      BY <1>8 DEF MainTarget, Saved, frames, traces
    <2> QED
      BY <1>t, <2>1, GapQuiet DEF session, sessionActive, Stopped
  <1> QED
    BY <1>1, <1>2, <1>3, <1>4, <1>5, <1>6, <1>7, <1>8 DEF Main

LEMMA ListenerGap ==
  ASSUME CaptureAssumption, CaptureInv, GapInv, NEW w \in Workers, Listener(w) PROVE GapInv'
  <1>t. /\ shown \in Nat /\ taken \in Nat /\ taken <= shown /\ trace.start \in Nat /\ visual \in Visual
    BY DEF CaptureInv, TypeOK
  <1>s. UNCHANGED <<shown, taken, main, projection, generation, stopping>>
    BY DEF Listener, Accept, Serve, RegionSet, RegionClear, SnapAsks, SnapEnds, Target, TraceAsked, traceStart,
           traceStop, Writes, session, frames
  <1>1. CASE ~traceStart(w) /\ ~traceStop(w)
    <2>1. UNCHANGED <<trace, traceActive>>
      BY <1>1 DEF Listener, Accept, Serve, RegionSet, RegionClear, SnapAsks, SnapEnds, Target, TraceAsked, Writes,
                  traces
    <2>2. /\ visual'.pc = visual.pc /\ visual'.gen = visual.gen /\ visual'.img = visual.img
          /\ visual'.legacy = visual.legacy /\ visual'.drain = visual.drain
      BY <1>t, <1>1 DEF Listener, Accept, Serve, RegionSet, RegionClear, SnapAsks, SnapEnds, Target, TraceAsked,
                        Writes, Replaced, frames, Visual
    <2> QED
      BY <1>t, <1>s, <2>1, <2>2, GapQuiet DEF Stopped, sessionActive
  <1>2. CASE traceStart(w)
    <2>1. UNCHANGED visual
      BY <1>2 DEF traceStart, frames
    <2>2. CASE UNCHANGED <<trace, traceActive>>
      BY <1>t, <1>s, <2>1, <2>2, GapQuiet DEF Stopped, sessionActive
    <2>3. CASE trace' = [id |-> started + 1, start |-> shown, rows |-> {}]
      <3>1. trace'.start = shown /\ trace'.rows = {}
        BY <2>3
      <3> QED
        BY <1>t, <1>s, <2>1, <3>1 DEF GapInv
    <2> QED
      BY <1>2, <2>2, <2>3 DEF traceStart
  <1>3. CASE traceStop(w)
    <2>1. UNCHANGED visual
      BY <1>3 DEF traceStop, frames
    <2>2. CASE trace = NoTrace
      BY <1>t, <1>s, <1>3, <2>1, <2>2, GapQuiet DEF Stopped, sessionActive, traceStop
    <2>3. CASE trace # NoTrace
      BY <1>t, <1>s, <1>3, <2>1, <2>3, GapInactive DEF traceStop, traceDetach
    <2> QED
      BY <2>2, <2>3
  <1> QED
    BY <1>1, <1>2, <1>3

(* What recordTrace does with an image.                                    *)
LEMMA RecordCases ==
  ASSUME CaptureInv, NEW img \in Nat, Record(img)
  PROVE  \/ (~traceActive \/ img <= trace.start) /\ UNCHANGED <<trace, traceActive>>
         \/ traceActive /\ ~traceActive' /\ UNCHANGED trace
         \/ /\ traceActive /\ traceActive' /\ img > trace.start
            /\ trace' = [trace EXCEPT !.rows = @ \cup {img}]
  <1>1. trace.start \in Nat
    BY DEF CaptureInv, TypeOK
  <1>2. CASE ~traceActive \/ img <= trace.start
    BY <1>2 DEF Record
  <1>3. CASE traceActive /\ img > trace.start
    <2>1. ~(~traceActive \/ img <= trace.start)
      BY <1>1, <1>3
    <2>2. CASE Cardinality(trace.rows) = TRACE_MAX_FRAMES
      BY <1>3, <2>1, <2>2 DEF Record
    <2>3. CASE Cardinality(trace.rows) # TRACE_MAX_FRAMES
      BY <1>3, <2>1, <2>3 DEF Record
    <2> QED BY <2>2, <2>3
  <1> QED BY <1>1, <1>2, <1>3

(* An image in hand is the next one of its trace.                          *)
LEMMA FrameGap ==
  ASSUME CaptureAssumption, CaptureInv, GapInv, Frame PROVE GapInv'
  <1>t. /\ shown \in Nat /\ taken \in Nat /\ taken <= shown /\ trace.start \in Nat /\ trace.rows \subseteq Nat
        /\ visual \in Visual
    BY DEF CaptureInv, TypeOK
  <1>s. UNCHANGED <<main, projection, generation, stopping, target>>
    BY DEF Frame, ImageArrives, OnImageAvailable, AcquireImage, CaptureRegions, SnapSeen, SnapCopied, Feed,
           FrameOnly, session
  <1>v. /\ Stopped' <=> Stopped
        /\ visual'.gen = visual.gen => (sessionActive(visual.gen)' <=> sessionActive(visual.gen))
    BY <1>s DEF Stopped, sessionActive
  <1>i. visual.pc \in {"acquired", "captured", "snaps", "feeds"} => visual.img = taken
    BY DEF CaptureInv, SnapInv, GapInv
  <1>1. CASE ImageArrives
    <2>1. UNCHANGED <<trace, traceActive, taken, visual>> /\ shown' = shown + 1
      BY <1>1 DEF ImageArrives, traces
    <2> QED
      BY <1>t, <1>s, <1>v, <2>1, GapQuiet
  <1>2. CASE OnImageAvailable
    <2>1. /\ visual.pc = "idle" /\ visual'.pc = "begun" /\ visual'.gen = visual.gen /\ sessionActive(visual.gen)
          /\ visual'.drain = Drains /\ visual'.legacy = legacyActive /\ UNCHANGED <<trace, traceActive, taken, shown>>
      BY <1>2, <1>t DEF OnImageAvailable, FrameAt, FrameOnly, traces, Visual
    <2>2. traceActive => Drains /\ legacyActive
      BY DEF CaptureInv, SharedInv, Drains, legacyActive
    <2> QED
      BY <1>t, <1>s, <1>v, <2>1, <2>2 DEF GapInv, InHandImage
  <1>3. CASE AcquireImage
    <2>1. /\ visual.pc = "begun" /\ visual'.pc = "acquired" /\ visual'.gen = visual.gen /\ visual'.img = taken'
          /\ visual'.legacy = visual.legacy /\ taken' = (IF visual.drain THEN taken + 1 ELSE shown)
          /\ UNCHANGED <<trace, traceActive, shown>> /\ taken < shown
      BY <1>3, <1>t DEF AcquireImage, FrameAt, FrameOnly, traces, Visual, CaptureInv, SnapInv
    <2>2. \A r \in trace.rows : r <= taken /\ r <= taken'
      BY <1>t, <2>1 DEF GapInv
    <2>3. traceActive /\ trace.rows # {} => taken' = taken + 1 /\ taken' \notin trace.rows /\ visual.legacy
      BY <1>t, <2>1, <2>2 DEF GapInv
    <2>4. traceActive /\ trace.rows # {} /\ sessionActive(visual.gen) => taken' - 1 \in trace.rows
      BY <1>t, <2>1, <2>3 DEF GapInv
    <2> QED
      BY <1>t, <1>s, <1>v, <2>1, <2>2, <2>3, <2>4 DEF GapInv, InHandImage
  <1>4. CASE CaptureRegions \/ SnapSeen
    <2>1. /\ visual.pc \in {"acquired", "captured"} /\ visual'.pc \in {"captured", "snaps"}
          /\ visual'.gen = visual.gen /\ visual'.img = visual.img /\ visual'.legacy = visual.legacy
          /\ UNCHANGED <<trace, traceActive, shown, taken>>
      BY <1>4, <1>t DEF CaptureRegions, SnapSeen, FrameAt, FrameOnly, traces, Visual
    <2> QED
      BY <1>t, <1>s, <1>v, <2>1 DEF GapInv, InHandImage
  <1>5. CASE SnapCopied
    <2>1. /\ visual.pc = "snaps" /\ visual'.pc = (IF sessionActive(visual.gen) THEN "feeds" ELSE "idle")
          /\ visual'.gen = visual.gen /\ visual'.img = visual.img /\ visual'.legacy = visual.legacy
          /\ UNCHANGED <<trace, traceActive, shown, taken>>
      BY <1>5, <1>t DEF SnapCopied, FrameAt, traces, Visual
    <2>2. sessionActive(visual.gen) => ~Stopped
      BY DEF CaptureInv, MainInv, sessionActive, Stopped
    <2> QED
      BY <1>t, <1>i, <1>s, <1>v, <2>1, <2>2 DEF GapInv, InHandImage
  <1>6. CASE Feed
    <2>1. /\ visual.pc = "feeds" /\ visual'.pc = "idle" /\ visual'.gen = visual.gen /\ visual.img = taken
          /\ UNCHANGED <<shown, taken>>
      BY <1>6, <1>i DEF Feed, FrameAt, NoFrame
    <2>2. CASE traceActive' /\ trace' = trace
      <3>1. traceActive /\ (~visual.legacy \/ taken <= trace.start)
        <4>1. CASE visual.legacy
          <5>1. Record(taken)
            BY <1>6, <2>1, <4>1 DEF Feed
          <5>2. CASE traceActive /\ trace' = [trace EXCEPT !.rows = @ \cup {taken}]
            <6>1. taken \in trace.rows
              BY <2>2, <5>2 DEF CaptureInv, TypeOK
            <6>2. FALSE
              BY <2>1, <4>1, <5>2, <6>1 DEF GapInv, InHandImage
            <6> QED BY <6>2
          <5> QED
            BY <1>t, <2>2, <5>1, <5>2, RecordCases
        <4>2. CASE ~visual.legacy
          BY <1>6, <2>2, <4>2 DEF Feed
        <4> QED BY <4>1, <4>2
      <3>2. trace.rows = {}
        <4>1. \A r \in trace.rows : r > trace.start /\ r <= taken
          BY DEF GapInv
        <4>2. trace.rows # {} => visual.legacy
          BY <2>1, <3>1 DEF GapInv, InHandImage
        <4> QED
          BY <1>t, <3>1, <4>1, <4>2
      <3> QED
        BY <1>t, <2>1, <2>2, <3>2 DEF GapInv, InHandImage
    <2>3. CASE traceActive' /\ trace' # trace
      <3>1. /\ traceActive /\ taken > trace.start /\ trace' = [trace EXCEPT !.rows = @ \cup {taken}]
        <4>1. Record(taken)
          BY <1>6, <2>1, <2>3 DEF Feed
        <4> QED
          BY <1>t, <2>3, <4>1, RecordCases
      <3>2. trace'.rows = trace.rows \cup {taken} /\ trace'.start = trace.start
        BY <3>1 DEF CaptureInv, TypeOK
      <3>3. ~Stopped /\ projection # 0
        BY <1>t, <2>1, <3>1 DEF GapInv, CaptureInv, SharedInv
      <3>4. trace.rows # {} => taken - 1 \in trace.rows
        BY <2>1, <3>1 DEF GapInv, InHandImage
      <3>5. \A r \in trace.rows : r > trace.start /\ r <= taken
        BY DEF GapInv
      <3>6. ASSUME NEW r \in trace'.rows, NEW s \in trace'.rows, NEW m \in r..s PROVE m \in trace'.rows
        <4>1. CASE m = taken
          BY <3>2, <4>1
        <4>2. CASE m # taken
          <5>1. r \in Nat /\ s \in Nat /\ s <= taken /\ m < taken /\ r < taken /\ r \in trace.rows
            BY <1>t, <3>2, <3>5, <4>2
          <5>2. taken - 1 \in trace.rows /\ m \in r..(taken - 1)
            BY <1>t, <3>4, <5>1
          <5> QED
            BY <3>2, <5>1, <5>2 DEF GapInv
        <4> QED BY <4>1, <4>2
      <3>7. \A q \in trace'.rows : q > trace'.start /\ q <= taken
        BY <1>t, <3>1, <3>2, <3>5
      <3>8. taken \in trace'.rows /\ trace.start <= shown
        BY <3>2 DEF GapInv
      <3> QED
        BY <1>s, <1>v, <2>1, <3>2, <3>3, <3>6, <3>7, <3>8 DEF GapInv, InHandImage
    <2>4. CASE ~traceActive'
      <3>1. trace' = trace
        <4>1. CASE traceActive
          BY <1>6, <2>4, <4>1 DEF Feed, Record
        <4>2. CASE ~traceActive
          BY <1>6, <4>2 DEF Feed, Record
        <4> QED BY <4>1, <4>2
      <3> QED
        BY <1>t, <2>1, <2>4, <3>1 DEF GapInv
    <2> QED
      BY <2>2, <2>3, <2>4
  <1> QED
    BY <1>1, <1>2, <1>3, <1>4, <1>5, <1>6 DEF Frame

LEMMA TraceStep ==
  ASSUME CaptureAssumption, CaptureInv, OnceInv, GapInv, [Next]_vars PROVE OnceInv' /\ GapInv'
  <1>1. CASE UNCHANGED vars
    <2>1. UNCHANGED <<trace, traceActive, started, saving, written, worker, taken, shown, visual, session>>
      BY <1>1 DEF vars, traces, frames
    <2>2. OnceInv'
      BY <2>1, OnceQuiet DEF Job, At
    <2>3. GapInv'
      BY <2>1, GapQuiet DEF session, sessionActive, Stopped, CaptureInv, TypeOK
    <2> QED BY <2>2, <2>3
  <1>2. CASE Main \/ \E t \in 1..MaxTraces : Saved(t)
    BY <1>2, MainOnce, MainGap
  <1>3. ASSUME NEW w \in Workers, Listener(w) PROVE OnceInv' /\ GapInv'
    BY <1>3, ListenerOnce, ListenerGap
  <1>4. CASE Frame
    BY <1>4, FrameOnce, FrameGap
  <1> QED BY <1>1, <1>2, <1>3, <1>4 DEF Next

(* One of four hands has a trace, so it is in one.                         *)
LEMMA InOneHand == ASSUME CaptureInv, OnceInv PROVE TraceKeptOnce
  <1> SUFFICES ASSUME NEW t \in 1..started PROVE InHand(t) = 1
    BY DEF TraceKeptOnce
  <1> DEFINE Writers == {w \in Workers : worker[w].job = t}
  <1>1. /\ trace.id = t \/ t \in saving \/ written[t] = 1 \/ Writers # {}
        /\ trace.id = t => t \notin saving /\ written[t] = 0 /\ Writers = {}
        /\ t \in saving => written[t] = 0 /\ Writers = {}
        /\ written[t] \in {0, 1} /\ (written[t] = 1 => Writers = {})
        /\ \A v, w \in Writers : v = w
    BY DEF OnceInv, Job
  <1>2. Cardinality(Writers) = IF Writers = {} THEN 0 ELSE 1
    <2>1. CASE Writers = {}
      BY <2>1, FS_EmptySet
    <2>2. CASE Writers # {}
      <3>1. PICK w \in Writers : TRUE
        BY <2>2
      <3>2. Writers = {w}
        BY <1>1, <3>1
      <3>3. Cardinality({w}) = 1
        BY FS_Singleton
      <3> QED BY <2>2, <3>2, <3>3
    <2> QED BY <2>1, <2>2
  <1> HIDE DEF Writers
  <1>3. (IF trace.id = t THEN 1 ELSE 0) + (IF t \in saving THEN 1 ELSE 0) + written[t] + Cardinality(Writers) = 1
    BY <1>1, <1>2
  <1> QED
    BY <1>3 DEF InHand, Writers

(* A frame trace misses no image from its first row on, is taken of FNaF 2 *)
(* only, and is held, saved or written by exactly one: however a stopping  *)
(* capture, the operator and the hosts cross.                              *)
THEOREM TracesKept == ASSUME CaptureAssumption PROVE Spec => []TraceKept
  <1> DEFINE Inv == CaptureInv /\ OnceInv /\ GapInv
  <1>1. Init => Inv
    BY InitInv, TraceInit
  <1>2. Inv /\ [Next]_vars => Inv'
    BY NextInv, TraceStep
  <1>3. Inv => TraceKept
    BY InOneHand DEF TraceKept, TraceGapless, TraceOnItsTarget, GapInv, CaptureInv, SharedInv
  <1> QED BY <1>1, <1>2, <1>3, PTL DEF Spec
===============================================================================
