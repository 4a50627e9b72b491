---------------------------- MODULE RenderTasks ----------------------------
(* The renderer's two tasks (src/Layers/xrRender): the occlusion map of the *)
(* frame, CHOM, and the grass to draw, CDetailManager.  A thread may find   *)
(* them done, being done by the other thread, or do them itself             *)
(* (MT_RENDER, MT_CALC, MT_SYNC).  Each has a critical section of its own.  *)
(* The operators are called by a thread p in frame f; module ParallelTasks  *)
(* says which thread calls what when.                                       *)
(* Left out: what is drawn, the occluders and the matrices, hom_frame (an   *)
(* object that need not be tested), the main menu (neither task is used     *)
(* while it is drawn).                                                      *)
EXTENDS Naturals, FiniteSets

CONSTANTS Drawers, Free

ASSUME FreeAssumption == Free \notin Drawers \cup Nat

VARIABLES
    enabled,        \* CHOM::bEnabled
    raster,         \* the frame that the depth is of; Free: being drawn
    homFrame,       \* CHOM::MT_frame_rendered
    homLock,        \* the owner of CHOM::MT
    hom,            \* where in MT_RENDER or visible() each thread is
    testing,        \* is each thread in visible()?
    visibles,       \* the frames whose grass is in m_visibles
    calculated,     \* m_frame_calc
    rendered,       \* m_frame_rendered
    detLock,        \* the owner of CDetailManager::MT
    det             \* where in MT_CALC each thread is

homVars    == <<enabled, raster, homFrame, homLock, hom, testing>>
detVars    == <<visibles, calculated, rendered, detLock, det>>
renderVars == <<homVars, detVars>>

RenderTypeOK ==
    /\ enabled \in BOOLEAN
    /\ homFrame \in Nat /\ raster \in Nat \cup {Free}
    /\ homLock \in Drawers \cup {Free} /\ detLock \in Drawers \cup {Free}
    /\ hom \in [Drawers -> {"idle", "projected", "entered", "enabled",
                            "drawing", "synced"}]
    /\ testing \in [Drawers -> BOOLEAN]
    /\ visibles \subseteq Nat
    /\ calculated \in Nat /\ rendered \in Nat
    /\ det \in [Drawers -> {"idle", "entered", "filling"}]

\* The level is loaded.  The frame numbers are not initialised: they are taken
\* to be no coming frame's.
RenderInit ==
    /\ enabled = TRUE
    /\ raster = 0 /\ homFrame = 0 /\ homLock = Free
    /\ hom = [p \in Drawers |-> "idle"]
    /\ testing = [p \in Drawers |-> FALSE]
    /\ visibles = {} /\ calculated = 0 /\ rendered = 0 /\ detLock = Free
    /\ det = [p \in Drawers |-> "idle"]

-----------------------------------------------------------------------------
(* CHOM.                                                                    *)

HomGoto(p, to) == hom' = [hom EXCEPT ![p] = to]

\* visible() of an object: the occlusion map is in use, the box is projected.
Project(p) ==
    /\ hom[p] = "idle"
    /\ enabled
    /\ testing' = [testing EXCEPT ![p] = TRUE]
    /\ HomGoto(p, "projected")
    /\ UNCHANGED <<enabled, raster, homFrame, homLock, detVars>>

\* MT_RENDER, by the task (idle) or by test_Level (projected).
HomEnter(p) ==
    /\ homLock = Free /\ homLock' = p
    /\ HomGoto(p, "entered")
    /\ UNCHANGED <<enabled, raster, homFrame, testing, detVars>>

\* Mutant of HomMustRender: the map is drawn though it is there.
HomRendersAgain(f) == f \in Nat

HomMustRender(f) == homFrame # f

HomEnable(p, f) ==
    /\ hom[p] = "entered" /\ HomMustRender(f)
    /\ enabled' = TRUE
    /\ HomGoto(p, "enabled")
    /\ UNCHANGED <<raster, homFrame, homLock, testing, detVars>>

\* Render finds the map in use: Raster.clear.
HomClear(p) ==
    /\ hom[p] = "enabled" /\ enabled
    /\ raster' = Free
    /\ HomGoto(p, "drawing")
    /\ UNCHANGED <<enabled, homFrame, homLock, testing, detVars>>

\* MT_RENDER ends: the map was there, the other thread has disabled it
\* between Enable and Render, or it is drawn.
HomEnds(p, f) ==
    \/ hom[p] = "entered" /\ ~HomMustRender(f) /\ UNCHANGED <<raster, homFrame>>
    \/ hom[p] = "enabled" /\ ~enabled /\ UNCHANGED <<raster, homFrame>>
    \/ hom[p] = "drawing" /\ raster' = f /\ homFrame' = f

HomLeave(p, f) ==
    /\ HomEnds(p, f)
    /\ homLock' = Free
    /\ HomGoto(p, IF testing[p] THEN "synced" ELSE "idle")
    /\ UNCHANGED <<enabled, testing, detVars>>

\* The box is compared with the depth.
TestBox(p) ==
    /\ hom[p] = "synced"
    /\ testing' = [testing EXCEPT ![p] = FALSE]
    /\ HomGoto(p, "idle")
    /\ UNCHANGED <<enabled, raster, homFrame, homLock, detVars>>

\* HOM.Enable and HOM.Render without the task.
RenderMapAlone(f) ==
    /\ enabled' = TRUE
    /\ raster' = f /\ homFrame' = f
    /\ UNCHANGED <<homLock, hom, testing, detVars>>

HomDisable ==
    /\ enabled' = FALSE
    /\ UNCHANGED <<raster, homFrame, homLock, hom, testing, detVars>>

-----------------------------------------------------------------------------
(* CDetailManager.                                                          *)

DetGoto(p, to) == det' = [det EXCEPT ![p] = to]

\* MT_CALC, by the task or by MT_SYNC.
DetEnter(p) ==
    /\ det[p] = "idle"
    /\ detLock = Free /\ detLock' = p
    /\ DetGoto(p, "entered")
    /\ UNCHANGED <<visibles, calculated, rendered, homVars>>

\* Mutant of GrassIsDue: whether the last frame was drawn is not asked.
GrassIsMissing(f) == calculated # f

\* Not yet calculated, and the last frame's grass is drawn.
GrassIsDue(f) == calculated # f /\ rendered + 1 = f

Fill(p, f) ==
    /\ det[p] = "entered" /\ GrassIsDue(f)
    /\ DetGoto(p, "filling")
    /\ UNCHANGED <<visibles, calculated, rendered, detLock, homVars>>

\* UpdateVisibleM is through.
Filled(p, f) ==
    /\ det[p] = "filling" /\ hom[p] = "idle"
    /\ visibles' = visibles \cup {f}
    /\ calculated' = f

DetLeave(p, f) ==
    /\ \/ det[p] = "entered" /\ ~GrassIsDue(f)
          /\ UNCHANGED <<visibles, calculated>>
       \/ Filled(p, f)
    /\ detLock' = Free
    /\ DetGoto(p, "idle")
    /\ UNCHANGED <<rendered, homVars>>

\* Render: the lists are drawn and cleared.
DrawVisibles ==
    /\ visibles' = {}
    /\ UNCHANGED <<calculated, rendered, detLock, det, homVars>>

MarkRendered(f) ==
    /\ rendered' = f
    /\ UNCHANGED <<visibles, calculated, detLock, det, homVars>>

=============================================================================
