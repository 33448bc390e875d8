---------------------------- MODULE ToolRegistry ----------------------------
(***************************************************************************)
(* The tools of a page: modules that are fetched when they are first       *)
(* needed, of which one is the current tool and receives the pointer.      *)
(* What a click activates depends on when its module arrives, on what the  *)
(* user may do by then, and on whether the page can write; who owns a      *)
(* touch depends on the fingers on the screen, on the browser and on the   *)
(* scale of the view.                                                      *)
(*                                                                         *)
(* What tools do with a gesture is in their own modules, messages that     *)
(* wait for a tool are in BoardSync.  Buttons, shortcuts, cursors and      *)
(* style sheets are left out, and so is the mouse, which has one pointer   *)
(* that nothing else owns.                                                 *)
(***************************************************************************)
EXTENDS Naturals, FiniteSets

CONSTANTS
    Tools,      \* the tools with a button; "hand" is one of them
    Drawing,    \* those that draw: not usable when zoomed out
    Editing,    \* those that need a capability
    OneTouch,   \* those that only act when they are activated
    Lasting,    \* those whose open gesture survives that they are replaced
    Bounds      \* [clicks, grants, zooms, pauses, fingers : Nat]

NoTool == "no tool"
ToolRegistryAssumption ==
    /\ NoTool \notin Tools /\ "hand" \in Tools \ (Drawing \cup Editing \cup OneTouch)
    /\ Drawing \cup Editing \cup OneTouch \cup Lasting \subseteq Tools

VARIABLES
    mounted, booting,   \* tools that arrived, and that are on their way
    clicks,     \* activations that wait for their tool
    waiting,    \* activations that wait until the page can write
    current,    \* the current tool
    secondary,  \* tools in their secondary mode
    acted,      \* one-touch tools that acted, with whether they were allowed to
    granted,    \* may the user edit
    near,       \* is the view near enough to draw
    ready,      \* can the page write
    fingers,    \* fingers on the screen
    owner,      \* for each tool, who it thinks owns the touch
    gesture,    \* tools that were pressed and neither released nor cancelled
    excused,    \* tools whose gesture the registry let go of
    phase,      \* of the boot: "starting" until the hand is there, "ready", or "error"
    stuck,      \* did the current tool lose its right when no hand was there
    bounds      \* what remains of the bounds

toolVars == <<mounted, booting, clicks, waiting, current, secondary, acted, granted,
          near, ready, fingers, owner, gesture, excused, phase, stuck, bounds>>
input == <<fingers, owner>>
rights == <<granted, near, ready>>

-----------------------------------------------------------------------------
(* What a tool may do *)

\* shouldDisableTool, shouldDisplayTool, canInteractWithTool
Disabled(t) == t \in Drawing /\ ~near
DisplayedWhen(may, t) == t \in Editing => may
Displayed(t) == DisplayedWhen(granted, t)
CanInteract(t) == Displayed(t) /\ ~Disabled(t) /\ (t \in Editing => ready)

\* Hand pans with the browser's own gestures unless it selects.
NativePan(t) == t = "hand" /\ t \notin secondary

-----------------------------------------------------------------------------
(* Activation *)

\* replaceCurrentTool: the old tool quits, most end their gesture then.
Replaced(t) ==
    /\ current' = t
    /\ gesture' = gesture \ ({current} \ Lasting)
    /\ excused' = excused \cup (gesture \cap {current} \cap Lasting)

\* change, n times in a row: the first makes it the current tool, the others
\* toggle its secondary mode.
Change(t, n) ==
    LET toggles == IF t = current THEN n ELSE n - 1
    IN  IF n = 0 THEN UNCHANGED <<current, secondary, gesture, excused, acted>>
        ELSE IF t \in OneTouch
        THEN /\ acted' = acted \cup {<<t, Displayed(t)>>}
             /\ UNCHANGED <<current, secondary, gesture, excused>>
        ELSE /\ IF t = current THEN UNCHANGED <<current, gesture, excused>>
                ELSE Replaced(t)
             /\ secondary' = IF toggles % 2 = 0 THEN secondary
                             ELSE (secondary \ {t}) \cup ({t} \ secondary)
             /\ UNCHANGED acted

\* Mutant of Activated: what was allowed when the user clicked is allowed.
ActivatedUnchecked(t, n) ==
    IF t \in OneTouch \cap Editing /\ ~ready
    THEN /\ waiting' = [waiting EXCEPT ![t] = @ + n]
         /\ Change(t, 0)
    ELSE Change(t, n) /\ UNCHANGED waiting

\* activateTool, from the moment its tool is there: what the user may do has
\* to allow it still, and a tool that writes when activated waits until it can.
Activated(t, n) ==
    IF Displayed(t) /\ t \in OneTouch \cap Editing /\ ~ready
    THEN /\ waiting' = [waiting EXCEPT ![t] = @ + n]
         /\ Change(t, 0)
    ELSE /\ Change(t, IF Displayed(t) THEN n ELSE 0)
         /\ UNCHANGED waiting

\* bootTool: a module is fetched once, whoever asks for it.
Click(t) ==
    /\ bounds.clicks > 0 /\ Displayed(t)
    /\ bounds' = [bounds EXCEPT !.clicks = @ - 1]
    /\ IF t \in mounted
       THEN /\ Activated(t, 1)
            /\ UNCHANGED <<booting, clicks>>
       ELSE /\ booting' = booting \cup {t}
            /\ clicks' = [clicks EXCEPT ![t] = @ + 1]
            /\ UNCHANGED <<waiting, current, secondary, gesture, excused, acted>>
    /\ UNCHANGED <<mounted, rights, input, phase, stuck>>

\* scheduleLazyBootRenderedTools: all but the critical tools.
LazyBoot(t) ==
    /\ phase = "ready" /\ t # "hand" /\ Displayed(t) /\ t \notin mounted \cup booting
    /\ booting' = booting \cup {t}
    /\ UNCHANGED <<mounted, clicks, waiting, current, secondary, acted, rights,
                   input, gesture, excused, phase, stuck, bounds>>

\* mountTool, and whoever waited for it, in the order of the clicks.
Mount(t) ==
    /\ t \in booting
    /\ booting' = booting \ {t}
    /\ mounted' = mounted \cup {t}
    /\ clicks' = [clicks EXCEPT ![t] = 0]
    /\ Activated(t, clicks[t])
    /\ UNCHANGED <<rights, input, phase, stuck, bounds>>

\* The module cannot be fetched, or the tool is blocked.  A page that cannot
\* fetch the hand goes no further, one where it is blocked does without.
BootFails(t) ==
    /\ t \in booting
    /\ booting' = booting \ {t}
    /\ clicks' = [clicks EXCEPT ![t] = 0]
    /\ phase' \in IF t = "hand" /\ phase = "starting" THEN {phase, "error"} ELSE {phase}
    /\ UNCHANGED <<mounted, waiting, current, secondary, acted, rights, input,
                   gesture, excused, stuck, bounds>>

\* bootInitialTools: it waits for the hand, the one critical tool, and not for
\* what was clicked meanwhile; the hand is the tool of a page that has no other.
Started ==
    /\ phase = "starting" /\ "hand" \notin booting
    /\ phase' = "ready"
    /\ Change("hand", IF current = NoTool /\ "hand" \in mounted /\ CanInteract("hand")
                      THEN 1 ELSE 0)
    /\ UNCHANGED <<mounted, booting, clicks, waiting, rights, input, stuck, bounds>>

-----------------------------------------------------------------------------
(* What changes around the tools *)

\* applyBoardState: the hand replaces a tool that is no longer displayed, and
\* tools that are displayed now are fetched.
ApplyBoardState ==
    /\ bounds.grants > 0
    /\ bounds' = [bounds EXCEPT !.grants = @ - 1]
    /\ granted' = ~granted
    /\ LET hidden == current # NoTool /\ ~DisplayedWhen(granted', current)
       IN  /\ Change("hand", IF hidden /\ "hand" \in mounted THEN 1 ELSE 0)
           /\ stuck' = (hidden /\ "hand" \notin mounted)
    /\ booting' = IF phase # "ready" THEN booting
                  ELSE booting \cup {t \in Tools \ mounted : DisplayedWhen(granted', t)}
    /\ UNCHANGED <<mounted, clicks, waiting, near, ready, input, phase>>

\* The scale passes the limit for drawing.  A gesture that is open now will not
\* see its end if the finger is lifted before the view is near again.
Zoom ==
    /\ bounds.zooms > 0
    /\ bounds' = [bounds EXCEPT !.zooms = @ - 1]
    /\ near' = ~near
    /\ excused' = IF near THEN excused \cup (gesture \cap Drawing) ELSE excused
    /\ UNCHANGED <<mounted, booting, clicks, waiting, current, secondary, acted,
                   granted, ready, input, gesture, phase, stuck>>

Pause ==
    /\ ready /\ bounds.pauses > 0
    /\ bounds' = [bounds EXCEPT !.pauses = @ - 1]
    /\ ready' = FALSE
    /\ UNCHANGED <<mounted, booting, clicks, waiting, current, secondary, acted,
                   granted, near, input, gesture, excused, phase, stuck>>

\* whenBoardWritable: the activations that waited go on, if still allowed.
Writable ==
    /\ ~ready /\ ready' = TRUE
    /\ acted' = acted \cup {<<t, TRUE>> : t \in {u \in OneTouch :
                                                   waiting[u] > 0 /\ Displayed(u)}}
    /\ waiting' = [t \in Tools |-> 0]
    /\ UNCHANGED <<mounted, booting, clicks, current, secondary, granted, near, input,
                   gesture, excused, phase, stuck, bounds>>

-----------------------------------------------------------------------------
(* Touch: compileToolListeners, for the listeners of the current tool *)

Nobody == "nobody"

\* The last finger is gone: resetTouchDispatchStateIfDone.
Unowned(kind, touches) ==
    IF kind = "end" /\ touches = 0 THEN [owner EXCEPT ![current] = Nobody] ELSE owner

\* Mutant of Dispatch: a second finger does not end the gesture of the first.
DispatchSecondFinger(kind, touches, cancelable) ==
    IF Disabled(current) \/ (kind = "start" /\ ~CanInteract(current))
    THEN UNCHANGED <<owner, gesture, excused>>
    ELSE /\ owner' = Unowned(kind, touches)
         /\ gesture' = IF kind = "start" THEN gesture \cup {current}
                       ELSE IF kind = "end" /\ touches = 0 THEN gesture \ {current}
                       ELSE gesture
         /\ excused' = IF current \in gesture' THEN excused ELSE excused \ {current}

\* A touch event with so many fingers on the screen after it.  A tool that is
\* disabled sees nothing, one that cannot be used sees no press.  Two fingers, or
\* the browser, take the touch from the tool until the last finger is gone.
Dispatch(kind, touches, cancelable) ==
    IF Disabled(current) \/ (kind = "start" /\ ~CanInteract(current))
    THEN /\ excused' = IF kind = "start" THEN excused \cup (gesture \cap {current})
                       ELSE excused
         /\ UNCHANGED <<owner, gesture>>
    ELSE LET taken == \/ touches > 1 /\ ~NativePan(current)
                      \/ kind # "end" /\ touches = 1 /\ ~cancelable
                            /\ ~NativePan(current)
             newly == taken /\ owner[current] = Nobody
             owned == taken \/ owner[current] # Nobody
             partly == touches > 1 \/ (kind = "end" /\ touches # 0)
         IN  /\ owner' = IF newly
                         THEN [owner EXCEPT ![current] = IF touches > 1 THEN "two fingers"
                                                         ELSE "browser"]
                         ELSE Unowned(kind, touches)
             /\ gesture' = IF newly THEN gesture \ {current}
                           ELSE IF owned \/ partly THEN gesture
                           ELSE IF kind = "start" THEN gesture \cup {current}
                           ELSE IF kind = "end" THEN gesture \ {current}
                           ELSE gesture
             /\ excused' = IF current \notin gesture' \/ (kind = "start" /\ ~owned)
                           THEN excused \ {current} ELSE excused

Finger(kind, cancelable) ==
    /\ fingers' = CASE kind = "start" -> fingers + 1
                    [] kind = "move" -> fingers
                    [] kind = "end" -> fingers - 1
    /\ fingers' \in 0 .. 2
    /\ kind = "move" => fingers > 0
    /\ kind = "start" => bounds.fingers > 0
    /\ bounds' = IF kind = "start" THEN [bounds EXCEPT !.fingers = @ - 1] ELSE bounds
    /\ IF current = NoTool THEN UNCHANGED <<owner, gesture, excused>>
       ELSE Dispatch(kind, fingers', cancelable)
    /\ UNCHANGED <<mounted, booting, clicks, waiting, current, secondary, acted,
                   rights, phase, stuck>>

ToolInit ==
    /\ bounds \in Bounds
    /\ mounted = {} /\ booting = {"hand"}
    /\ clicks = [t \in Tools |-> 0]
    /\ waiting = [t \in Tools |-> 0]
    /\ current = NoTool /\ secondary = {} /\ acted = {}
    /\ granted = TRUE /\ near = TRUE /\ ready = TRUE
    /\ fingers = 0 /\ owner = [t \in Tools |-> Nobody]
    /\ gesture = {} /\ excused = {} /\ phase = "starting" /\ stuck = FALSE

ToolNext ==
    \/ \E t \in Tools : Click(t) \/ LazyBoot(t) \/ Mount(t) \/ BootFails(t)
    \/ Started
    \/ ApplyBoardState
    \/ Zoom
    \/ Pause
    \/ Writable
    \/ \E kind \in {"start", "move", "end"}, cancelable \in BOOLEAN :
          Finger(kind, cancelable)

ToolSpec == ToolInit /\ [][ToolNext]_toolVars

-----------------------------------------------------------------------------
(* Properties *)

\* Whatever arrives late, nobody holds or has used a tool without the right to
\* it: the current tool is one the user may use now, unless the right went when
\* the hand was not there to replace it, and a one-touch tool never acted after
\* its right was gone.
OnlyAllowedTools ==
    /\ current \in Tools /\ ~stuck => Displayed(current)
    /\ \A pair \in acted : pair[2]

\* A touch gesture is one finger's: with no finger or two on the screen no tool
\* that draws has an open one.  Excused are, until its next press or release, a
\* drawing tool that the view was zoomed out of, and one that does not see the
\* second finger because the page cannot write; and a tool that was replaced but
\* keeps its gesture.
GestureIsOneFinger ==
    fingers # 1 => \A t \in gesture \ excused : NativePan(t) \/ t = "hand"
=============================================================================
