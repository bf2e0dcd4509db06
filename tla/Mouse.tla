------------------------------- MODULE Mouse --------------------------------
(***************************************************************************)
(* MouseState of gui.js: what the page knows of the mouse, which hears of  *)
(* moves and buttons only while the mouse is over the canvas.              *)
(***************************************************************************)
EXTENDS FiniteSets

CONSTANTS
    Points,         \* pixels <<x, y>> of the canvas the mouse stops at
    Outside,        \* the mouse is not over the canvas
    Null            \* null

ASSUME MouseAssumption == Outside \notin Points /\ Null \notin Points

VARIABLES
    at,             \* where the mouse is
    pressed,        \* which of its buttons are pressed
    hover, down,    \* this.hover, this.down
    drawn           \* the points given to onMouseRect last

mouseVars == <<at, pressed, hover, down, drawn>>

MouseButtons == {"primary", "other"}

MouseInit ==
    /\ at = Outside /\ pressed = {} /\ hover = Null /\ down = Null
    /\ drawn = Null

-----------------------------------------------------------------------------

\* Mutant of DownAfterMove: the buttons are not looked at.
DownIsKept == down

\* A release outside the canvas is found out when the mouse comes back.
DownAfterMove == IF "primary" \in pressed THEN down ELSE Null

MouseMove(p) ==
    /\ at' = p /\ hover' = p
    /\ down' = DownAfterMove
    /\ UNCHANGED <<pressed, drawn>>

MouseOut ==
    /\ at # Outside
    /\ at' = Outside /\ hover' = Null
    /\ UNCHANGED <<pressed, down, drawn>>

\* Any button counts; the mouse may not have moved since the page was loaded.
MouseDown(b) ==
    /\ b \notin pressed
    /\ pressed' = pressed \cup {b}
    /\ down' = IF at = Outside THEN down ELSE hover
    /\ UNCHANGED <<at, hover, drawn>>

MouseUp(b) ==
    /\ b \in pressed
    /\ pressed' = pressed \ {b}
    /\ down' = IF at = Outside THEN down ELSE Null
    /\ drawn' = IF at = Outside \/ down = Null \/ hover = Null THEN drawn
                ELSE <<down, hover>>
    /\ UNCHANGED <<at, hover>>

\* The page is loaded again under the mouse.
MouseReload ==
    /\ hover' = Null /\ down' = Null /\ drawn' = Null
    /\ UNCHANGED <<at, pressed>>

MouseNext ==
    \/ \E p \in Points : MouseMove(p)
    \/ MouseOut
    \/ \E b \in MouseButtons : MouseDown(b) \/ MouseUp(b)
    \/ MouseReload

MouseSpec == MouseInit /\ [][MouseNext]_mouseVars

-----------------------------------------------------------------------------
(* Properties.                                                             *)

MouseTypeOK ==
    /\ at \in Points \cup {Outside} /\ pressed \subseteq MouseButtons
    /\ hover \in {at, Null}
    /\ down \in Points \cup {Null}
    /\ drawn \in (Points \X Points) \cup {Null}

\* A rectangle is drawn only while a button is held, wherever the buttons were
\* pressed and released, although not all of that is seen from the canvas.
DownIsHeld == hover # Null /\ down # Null => pressed # {}
=============================================================================
