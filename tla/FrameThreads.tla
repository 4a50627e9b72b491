---------------------------- MODULE FrameThreads ----------------------------
(* The primary and the secondary thread of the engine (src/xrEngine/        *)
(* device.cpp).  The primary thread moves a frame and queues work for it in *)
(* seqParallel; while it draws, the secondary thread may do that work.  Two *)
(* critical sections hand the frame over: mt_csEnter belongs to the primary *)
(* thread except while it draws, mt_csLeave only then, so that the          *)
(* secondary thread works at most once a frame.  Neither is first come      *)
(* first served: when the secondary thread has missed the frame, the        *)
(* primary thread does the work itself.                                     *)
(* Left out: the messages of the window and the frames that on_idle drops   *)
(* because the device is not ready: they change nothing modelled here.      *)
EXTENDS Naturals, Sequences

CONSTANTS
    MaxFrames,  \* bound: on dwFrame
    Tasks,      \* the delegates
    Batches,    \* what a frame may leave in seqParallel
    Nobody      \* owns a critical section that is free; marks no frame

ASSUME BatchAssumption == Batches \subseteq Seq(Tasks)
ASSUME NobodyAssumption == Nobody \notin {"main", "worker"} \cup Nat

Threads == {"main", "worker"}
FrameMT == "seqFrameMT"

VARIABLES
    pc,         \* where each thread is
    csEnter,    \* the owner of mt_csEnter
    csLeave,    \* the owner of mt_csLeave
    mustExit,   \* mt_bMustExit
    dwFrame,
    marker,     \* mt_Thread_marker
    loading,    \* g_loading_events is not empty
    seqParallel,
    pit         \* the index of each thread's loop over seqParallel

sections  == <<csEnter, csLeave>>
frameVars == <<dwFrame, marker, loading, seqParallel>>
threadVars == <<pc, sections, mustExit, frameVars, pit>>

MainStates ==
    {"message", "moved", "resuming", "drawing", "drawn", "suspended",
     "comparing", "tasks", "frameMT", "leaving", "waiting", "returned"}
WorkerStates ==
    {"outside", "inside", "tasks", "frameMT", "done", "signalled", "passing",
     "exiting", "ended"}

TypeOK ==
    /\ pc \in [Threads -> MainStates \cup WorkerStates]
    /\ pc["main"] \in MainStates /\ pc["worker"] \in WorkerStates
    /\ csEnter \in Threads \cup {Nobody} /\ csLeave \in Threads \cup {Nobody}
    /\ mustExit \in BOOLEAN /\ loading \in BOOLEAN
    /\ dwFrame \in Nat /\ marker \in Nat \cup {Nobody}
    /\ seqParallel \in Batches \cup {<<>>}
    /\ pit \in [Threads -> Nat]

Goto(p, to) == pc' = [pc EXCEPT ![p] = to]

\* Run has taken mt_csEnter and started the secondary thread.
Init ==
    /\ pc = [p \in Threads |-> IF p = "main" THEN "message" ELSE "outside"]
    /\ csEnter = "main" /\ csLeave = Nobody
    /\ mustExit = FALSE
    /\ dwFrame = 0 /\ marker = Nobody
    /\ loading = FALSE
    /\ seqParallel = <<>>
    /\ pit = [p \in Threads |-> 0]

-----------------------------------------------------------------------------
(* The work of a frame, by whichever thread does it.                        *)

AtTask(p) == pc[p] = "tasks" /\ pit[p] < Len(seqParallel)
Task(p)   == seqParallel[pit[p] + 1]

\* The end of a call seqParallel[pit]().
RunTask(p) ==
    /\ AtTask(p)
    /\ pit' = [pit EXCEPT ![p] = @ + 1]
    /\ UNCHANGED <<pc, sections, mustExit, frameVars>>

ClearTasks(p) ==
    /\ pc[p] = "tasks" /\ pit[p] = Len(seqParallel)
    /\ seqParallel' = <<>>
    /\ Goto(p, "frameMT")
    /\ UNCHANGED <<sections, mustExit, dwFrame, marker, loading, pit>>

ProcessFrameMT(p) ==
    /\ pc[p] = "frameMT"
    /\ Goto(p, IF p = "main" THEN "message" ELSE "done")
    /\ UNCHANGED <<sections, mustExit, frameVars, pit>>

-----------------------------------------------------------------------------
(* The primary thread.                                                      *)

\* A loading event runs, and stays unless it is finished; LoadDraw counts a
\* frame until the application is loaded.
Load ==
    /\ pc["main"] = "message"
    /\ loading /\ dwFrame < MaxFrames
    /\ loading' \in BOOLEAN
    /\ dwFrame' \in {dwFrame, dwFrame + 1}
    /\ UNCHANGED <<pc, sections, mustExit, marker, seqParallel, pit>>

\* The frame's objects may queue loading events.
FrameMove(batch) ==
    /\ pc["main"] = "message"
    /\ ~loading /\ dwFrame < MaxFrames
    /\ dwFrame' = dwFrame + 1
    /\ seqParallel' = seqParallel \o batch
    /\ loading' \in BOOLEAN
    /\ Goto("main", "moved")
    /\ UNCHANGED <<sections, mustExit, marker, pit>>

\* Mutant of CaptureEnd: the end point is not captured.
CaptureNothing ==
    /\ pc["main"] = "moved"
    /\ csLeave = Nobody
    /\ Goto("main", "resuming")
    /\ UNCHANGED <<sections, mustExit, frameVars, pit>>

\* mt_csLeave.Enter.
CaptureEnd ==
    /\ pc["main"] = "moved"
    /\ csLeave = Nobody /\ csLeave' = "main"
    /\ Goto("main", "resuming")
    /\ UNCHANGED <<csEnter, mustExit, frameVars, pit>>

\* mt_csEnter.Leave.
ReleaseStart ==
    /\ pc["main"] = "resuming"
    /\ csEnter' = Nobody
    /\ Goto("main", "drawing")
    /\ UNCHANGED <<csLeave, mustExit, frameVars, pit>>

EndDrawing ==
    /\ pc["main"] = "drawing"
    /\ Goto("main", "drawn")
    /\ UNCHANGED <<sections, mustExit, frameVars, pit>>

\* Mutant of CaptureStart: the secondary thread is not waited for.
CaptureAtOnce ==
    /\ pc["main"] = "drawn"
    /\ csEnter' = "main"
    /\ Goto("main", "suspended")
    /\ UNCHANGED <<csLeave, mustExit, frameVars, pit>>

\* mt_csEnter.Enter.
CaptureStart ==
    /\ pc["main"] = "drawn"
    /\ csEnter = Nobody /\ csEnter' = "main"
    /\ Goto("main", "suspended")
    /\ UNCHANGED <<csLeave, mustExit, frameVars, pit>>

\* mt_csLeave.Leave.
ReleaseEnd ==
    /\ pc["main"] = "suspended"
    /\ csLeave' = Nobody
    /\ Goto("main", "comparing")
    /\ UNCHANGED <<csEnter, mustExit, frameVars, pit>>

\* Has the second thread had its chance?
Compare ==
    /\ pc["main"] = "comparing"
    /\ IF dwFrame # marker
         THEN Goto("main", "tasks") /\ pit' = [pit EXCEPT !["main"] = 0]
         ELSE Goto("main", "message") /\ UNCHANGED pit
    /\ UNCHANGED <<sections, mustExit, frameVars>>

\* WM_QUIT, and the start of Run's end.
Quit ==
    /\ pc["main"] = "message"
    /\ mustExit' = TRUE
    /\ Goto("main", "leaving")
    /\ UNCHANGED <<sections, frameVars, pit>>

ReleaseStartForEver ==
    /\ pc["main"] = "leaving"
    /\ csEnter' = Nobody
    /\ Goto("main", "waiting")
    /\ UNCHANGED <<csLeave, mustExit, frameVars, pit>>

\* while (mt_bMustExit) Sleep(0).
Return ==
    /\ pc["main"] = "waiting"
    /\ ~mustExit
    /\ Goto("main", "returned")
    /\ UNCHANGED <<sections, mustExit, frameVars, pit>>

-----------------------------------------------------------------------------
(* mt_Thread.                                                               *)

Enter ==
    /\ pc["worker"] = "outside"
    /\ csEnter = Nobody /\ csEnter' = "worker"
    /\ Goto("worker", "inside")
    /\ UNCHANGED <<csLeave, mustExit, frameVars, pit>>

Begin ==
    /\ pc["worker"] = "inside"
    /\ ~mustExit
    /\ marker' = dwFrame
    /\ pit' = [pit EXCEPT !["worker"] = 0]
    /\ Goto("worker", "tasks")
    /\ UNCHANGED <<sections, mustExit, dwFrame, loading, seqParallel>>

\* mt_csEnter.Leave, after the work.
Signal ==
    /\ pc["worker"] = "done"
    /\ csEnter' = Nobody
    /\ Goto("worker", "signalled")
    /\ UNCHANGED <<csLeave, mustExit, frameVars, pit>>

\* mt_csLeave.Enter.
Await ==
    /\ pc["worker"] = "signalled"
    /\ csLeave = Nobody /\ csLeave' = "worker"
    /\ Goto("worker", "passing")
    /\ UNCHANGED <<csEnter, mustExit, frameVars, pit>>

\* Mutant of Pass: mt_csLeave is kept.
PassHolding ==
    /\ pc["worker"] = "passing"
    /\ Goto("worker", "outside")
    /\ UNCHANGED <<sections, mustExit, frameVars, pit>>

Pass ==
    /\ pc["worker"] = "passing"
    /\ csLeave' = Nobody
    /\ Goto("worker", "outside")
    /\ UNCHANGED <<csEnter, mustExit, frameVars, pit>>

\* Mutant of Acknowledge: mt_bMustExit is not cleared.
AcknowledgeSilently ==
    /\ pc["worker"] = "inside"
    /\ mustExit
    /\ Goto("worker", "exiting")
    /\ UNCHANGED <<sections, mustExit, frameVars, pit>>

Acknowledge ==
    /\ pc["worker"] = "inside"
    /\ mustExit /\ mustExit' = FALSE
    /\ Goto("worker", "exiting")
    /\ UNCHANGED <<sections, frameVars, pit>>

Exit ==
    /\ pc["worker"] = "exiting"
    /\ csEnter' = Nobody
    /\ Goto("worker", "ended")
    /\ UNCHANGED <<csLeave, mustExit, frameVars, pit>>

-----------------------------------------------------------------------------
Work(p) == RunTask(p) \/ ClearTasks(p) \/ ProcessFrameMT(p)

MainHandsOver ==
    \/ CaptureEnd \/ ReleaseStart \/ EndDrawing \/ CaptureStart \/ ReleaseEnd
    \/ Compare

MainStops == Quit \/ ReleaseStartForEver \/ Return

WorkerHandsOver == Enter \/ Begin \/ Signal \/ Await \/ Pass

WorkerStops == Acknowledge \/ Exit

Stopped ==
    /\ pc["main"] = "returned" /\ pc["worker"] = "ended"
    /\ UNCHANGED threadVars

FrameNext ==
    \/ \E batch \in Batches : FrameMove(batch)
    \/ Load \/ MainHandsOver \/ MainStops
    \/ WorkerHandsOver \/ WorkerStops
    \/ \E p \in Threads : Work(p)
    \/ Stopped

FrameSpec == Init /\ [][FrameNext]_threadVars

-----------------------------------------------------------------------------
(* Properties.                                                              *)

Working(p) == pc[p] \in {"tasks", "frameMT"}

\* What p, which is working, has still to do.
Rest(p) ==
    IF pc[p] = "tasks"
      THEN Append(SubSeq(seqParallel, pit[p] + 1, Len(seqParallel)), FrameMT)
      ELSE <<FrameMT>>

\* The frame has moved, and nobody has begun its work.
Untouched ==
    /\ pc["main"] \in {"moved", "resuming", "drawing", "drawn", "suspended",
                       "comparing"}
    /\ marker # dwFrame

Todo ==
    IF Working("worker") THEN Rest("worker")
    ELSE IF Working("main") THEN Rest("main")
    ELSE IF Untouched THEN Append(seqParallel, FrameMT)
    ELSE <<>>

Abstract == INSTANCE FrameWork WITH frame <- dwFrame, todo <- Todo

\* Each task of each frame is run exactly once, in the order in which they
\* were queued, before the next frame moves, whichever thread comes first to
\* mt_csEnter.
IsFrameWork == Abstract!Spec

\* The secondary thread works only while the primary thread draws or waits to
\* get mt_csEnter back; nobody else works then.
WorkIsExclusive ==
    Working("worker") =>
        /\ pc["main"] \in {"drawing", "drawn"}
        /\ marker = dwFrame

\* A frame that has moved is finished: the critical sections starve nobody
\* although they are not first come first served.
FramesFinish == pc["main"] = "moved" ~> pc["main"] = "message"

\* When the program quits, wherever the secondary thread is then, both end.
BothEnd ==
    pc["main"] = "leaving" ~> pc["main"] = "returned" /\ pc["worker"] = "ended"

=============================================================================
