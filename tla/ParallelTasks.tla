--------------------------- MODULE ParallelTasks ---------------------------
(* The tasks of a frame in the two threads of the engine: FrameThreads says *)
(* which thread runs a task when, this module what the tasks do, step by    *)
(* step, while the primary thread draws the frame.  A step of a task is a   *)
(* stuttering step of FrameThreads until the task ends.                     *)
(* Tasks: the renderer's OnFrame puts the occlusion map and the grass in    *)
(* front (if r2_mt is set), Level::OnFrame appends the map of the player's  *)
(* device, the bullets and the sounds of the level (unless the level has    *)
(* lost its connection); map and sounds have no state here.                 *)
EXTENDS FrameThreads, BulletManager, RenderTasks

CONSTANT MaxViews   \* bound: views of lights whose grass is drawn in a frame

ASSUME ViewsAssumption == MaxViews \in Nat

VARIABLES
    mt,         \* R2FLAG_EXP_MT_CALC, as the frame found it
    draw,       \* where CRender::Render of the primary thread is
    views,      \* such views of the frame so far
    tested      \* bound: a stage tests one object, whenever it likes

sceneVars == <<mt, draw, views, tested>>
vars == <<threadVars, bulletVars, renderVars, sceneVars>>

Levels == {"playing", "disconnected"}

Batch(calc, level) ==
    (IF calc THEN <<"hom", "details">> ELSE <<>>)
        \o (IF level = "playing" THEN <<"map", "bullets", "sound">> ELSE <<>>)

ASSUME BatchesAssumption ==
    Batches = {Batch(calc, level) : calc \in BOOLEAN, level \in Levels}
ASSUME DrawersAssumption == Drawers = Threads

\* Bound: at most two bullets are fired in a frame.
Fired ==
    LET unused == Bullets \ (Range(bullets) \cup
                      {events[k].bullet : k \in 1..Len(events)})
    IN  {<<>>} \cup {<<b>> : b \in unused}
            \cup {f \in unused \X unused : f[1] # f[2]}

PTypeOK ==
    /\ TypeOK /\ BulletTypeOK /\ RenderTypeOK
    /\ mt \in BOOLEAN
    /\ draw \in {"idle", "calc", "grass", "visibles", "marking", "lit",
                 "shadows"}
    /\ views \in 0..MaxViews
    /\ tested \in [Threads -> BOOLEAN]

PInit ==
    /\ Init /\ BulletInit /\ RenderInit
    /\ mt = TRUE /\ draw = "idle" /\ views = 0
    /\ tested = [p \in Threads |-> FALSE]

-----------------------------------------------------------------------------
(* Outside the window of drawing.                                           *)

Move(level, calc, new) ==
    /\ FrameMove(Batch(calc, level))
    /\ BulletFrame(IF level = "playing" THEN new ELSE <<>>)
    /\ mt' = calc
    /\ UNCHANGED <<renderVars, draw, views, tested>>

\* A loading event may restart the level.
LoadLevel ==
    /\ Load
    /\ Clear \/ UNCHANGED bulletVars
    /\ UNCHANGED <<renderVars, sceneVars>>

\* The steps of FrameThreads that touch nothing else.
Turn(action) ==
    /\ action
    /\ UNCHANGED <<bulletVars, renderVars, sceneVars>>

MainTurns ==
    Turn(\/ CaptureEnd \/ ReleaseStart \/ CaptureStart \/ ReleaseEnd \/ Compare
         \/ MainStops \/ ClearTasks("main") \/ ProcessFrameMT("main"))

WorkerTurns ==
    Turn(\/ WorkerHandsOver \/ WorkerStops
         \/ ClearTasks("worker") \/ ProcessFrameMT("worker"))

-----------------------------------------------------------------------------
(* The tasks.                                                               *)

Runs(p, task) == AtTask(p) /\ Task(p) = task

PlainTask(p) ==
    /\ Runs(p, "map") \/ Runs(p, "sound")
    /\ RunTask(p)
    /\ UNCHANGED <<bulletVars, renderVars, sceneVars>>

\* UpdateWorkload; it returns at once if no time has passed.
BulletTask(p) ==
    /\ Runs(p, "bullets")
    /\ \/ BeginUpdate /\ UNCHANGED threadVars
       \/ \E survives \in BOOLEAN : UpdateBullet(survives) /\ UNCHANGED threadVars
       \/ EndUpdate /\ RunTask(p)
       \/ ~updating /\ UNCHANGED bulletVars /\ RunTask(p)
    /\ UNCHANGED <<renderVars, sceneVars>>

HomTask(p) ==
    /\ Runs(p, "hom") /\ ~testing[p]
    /\ \/ hom[p] = "idle" /\ HomEnter(p) /\ UNCHANGED threadVars
       \/ HomEnable(p, dwFrame) /\ UNCHANGED threadVars
       \/ HomClear(p) /\ UNCHANGED threadVars
       \/ HomLeave(p, dwFrame) /\ RunTask(p)
    /\ UNCHANGED <<bulletVars, sceneVars>>

\* visible(), of an object of the scene or of a slot of grass, begins.
BeginTest(p) ==
    /\ det[p] = "filling" \/ (p = "main" /\ draw \in {"calc", "shadows"})
    /\ ~tested[p] /\ tested' = [tested EXCEPT ![p] = TRUE]
    /\ Project(p)
    /\ UNCHANGED <<threadVars, bulletVars, mt, draw, views>>

Test(p) ==
    /\ testing[p]
    /\ \/ hom[p] = "projected" /\ HomEnter(p)
       \/ HomEnable(p, dwFrame) \/ HomClear(p) \/ HomLeave(p, dwFrame)
       \/ TestBox(p)
    /\ UNCHANGED <<threadVars, bulletVars, sceneVars>>

MayTest(p) == tested' = [tested EXCEPT ![p] = FALSE]

DetailsTask(p) ==
    /\ Runs(p, "details")
    /\ \/ DetEnter(p) /\ UNCHANGED <<threadVars, tested>>
       \/ Fill(p, dwFrame) /\ UNCHANGED <<threadVars, tested>>
       \/ DetLeave(p, dwFrame) /\ RunTask(p) /\ MayTest(p)
    /\ UNCHANGED <<bulletVars, mt, draw, views>>

-----------------------------------------------------------------------------
(* CRender::Render of the renderers with deferred lighting.                 *)

Drawing(stage) == pc["main"] = "drawing" /\ draw = stage

DrawNext(stage) ==
    /\ draw' = stage
    /\ MayTest("main")
    /\ UNCHANGED <<threadVars, bulletVars, mt>>

BeginScene ==
    /\ Drawing("idle")
    /\ IF mt THEN UNCHANGED renderVars ELSE RenderMapAlone(dwFrame)
    /\ DrawNext("calc")
    /\ UNCHANGED views

EndCalc ==
    /\ Drawing("calc") /\ hom["main"] = "idle"
    /\ DrawNext("grass")
    /\ UNCHANGED <<renderVars, views>>

\* Mutant of Grass: the grass is drawn as it is.
GrassAtOnce ==
    /\ Drawing("grass")
    /\ DrawNext("visibles") /\ UNCHANGED <<renderVars, views>>

\* MT_SYNC.
Grass ==
    /\ Drawing("grass")
    /\ IF det["main"] = "idle" /\ calculated = dwFrame
         THEN DrawNext("visibles") /\ UNCHANGED renderVars
         ELSE \/ DetEnter("main") /\ DrawNext("grass")
              \/ Fill("main", dwFrame) /\ DrawNext("grass")
              \/ DetLeave("main", dwFrame) /\ DrawNext("visibles")
    /\ UNCHANGED views

DrawGrass ==
    /\ \/ Drawing("visibles") /\ DrawVisibles /\ DrawNext("marking")
       \/ Drawing("marking") /\ MarkRendered(dwFrame) /\ DrawNext("lit")
    /\ UNCHANGED views

\* HOM.Disable, before the view of a light is drawn.
BeginShadows ==
    /\ Drawing("lit")
    /\ HomDisable
    /\ DrawNext("shadows")
    /\ UNCHANGED views

\* The grass casts shadows, too.
ShadowGrass ==
    /\ Drawing("shadows") /\ hom["main"] = "idle"
    /\ views < MaxViews /\ views' = views + 1
    /\ DrawNext("grass")
    /\ UNCHANGED renderVars

\* The device may be lost or hidden: then nothing is drawn.
EndScene ==
    /\ draw \in {"idle", "shadows"} /\ hom["main"] = "idle"
    /\ EndDrawing
    /\ draw' = "idle" /\ views' = 0
    /\ MayTest("main")
    /\ UNCHANGED <<bulletVars, renderVars, mt>>

-----------------------------------------------------------------------------
TaskStep(p) ==
    \/ PlainTask(p) \/ BulletTask(p) \/ HomTask(p) \/ DetailsTask(p)
    \/ BeginTest(p) \/ Test(p)

DrawStep ==
    \/ BeginScene \/ EndCalc \/ Grass \/ DrawGrass \/ BeginShadows
    \/ ShadowGrass \/ EndScene

MainStep ==
    \/ \E level \in Levels, calc \in BOOLEAN, new \in Fired :
           Move(level, calc, new)
    \/ LoadLevel
    \/ MainTurns \/ DrawStep \/ TaskStep("main")

WorkerStep == WorkerTurns \/ TaskStep("worker")

Next == MainStep \/ WorkerStep \/ (Stopped /\ UNCHANGED vars)

Spec == PInit /\ [][Next]_vars

\* Both threads are scheduled, and get a critical section that stays free.
FairSpec == Spec /\ WF_vars(MainStep) /\ WF_vars(WorkerStep)

-----------------------------------------------------------------------------
(* Properties.                                                              *)

\* When an object is compared with the occlusion map, the map is this frame's,
\* complete, and nobody is drawing it: both the task and a tester that comes
\* first may have drawn it, and the other thread may have disabled it between.
TestsUseAWholeMap ==
    \A p \in Threads : hom[p] = "synced" =>
        /\ raster = dwFrame
        /\ \A q \in Threads : hom[q] \notin {"enabled", "drawing"}

\* While the view of a light is collected ("Save and build new frustum, disable
\* HOM", r__dsgraph_render.cpp) nothing is compared with the map of the camera's
\* view.
ShadowsAreNotOccluded == draw = "shadows" => ~testing["main"]

\* The lists of grass are empty when they are filled and nobody draws them
\* meanwhile, although the flag that they are filled is read without the lock.
GrassIsFilledOnce ==
    \A p \in Threads : det[p] = "filling" =>
        /\ visibles = {} /\ calculated # dwFrame
        /\ draw \notin {"visibles", "marking"}

\* If the last frame's grass was drawn, then this frame's is drawn, whichever
\* thread has collected it.
GrassIsCurrent ==
    draw = "visibles" /\ rendered + 1 = dwFrame => visibles = {dwFrame}

=============================================================================
