----------------------------- MODULE ResetButton -----------------------------
(***************************************************************************)
(* The reset button (src/src/button.rs): a task that reads a GPIO line     *)
(* every POLL_MS and resets the box once it has read it active for         *)
(* reset_hold_secs on end.  Time passes in ticks of POLL_MS.               *)
(*                                                                         *)
(* tokio's interval makes up for the ticks the task was late for: it reads *)
(* the line once for each, one reading right after the other, and each     *)
(* finds the line as it is by then.                                        *)
(***************************************************************************)
EXTENDS Integers

CONSTANTS reset_hold_secs,  \* from the configuration
          MaxOwed           \* bound: readings that are due and not done

ASSUME HoldAssumption == reset_hold_secs \in Nat
ASSUME OwedAssumption == MaxOwed \in Nat \ {0}

VARIABLES
    watching,  \* the task runs
    held,      \* for how long it has read the line active, in milliseconds
    owed,      \* the readings that are due
    pressed,   \* the button is down
    readable,  \* the line can be read
    free,      \* for how many ticks the button has been up, counted to 2
    span,      \* the ticks since it was last up for two on end
    late       \* since held was last 0, a reading came due before the one before it was done

button_vars == <<watching, held, owed, pressed, readable, free, span, late>>

POLL_MS == 200
need_ms == (IF reset_hold_secs > 1 THEN reset_hold_secs ELSE 1) * 1000

ButtonOK ==
    /\ watching \in BOOLEAN /\ pressed \in BOOLEAN /\ readable \in BOOLEAN /\ late \in BOOLEAN
    /\ held \in 0..need_ms
    /\ owed \in 0..MaxOwed /\ free \in 0..2 /\ span \in Nat

ButtonInit ==
    /\ watching = TRUE /\ held = 0 /\ owed = 1
    /\ pressed \in BOOLEAN /\ readable \in BOOLEAN
    /\ free = 2 /\ span = 0 /\ late = FALSE

Press ==
    /\ pressed' = ~pressed /\ free' = 0
    /\ UNCHANGED <<watching, held, owed, readable, span, late>>

\* Reading the line begins to fail, or works again.
Line ==
    /\ readable' = ~readable
    /\ UNCHANGED <<watching, held, owed, pressed, free, span, late>>

Tick ==
    /\ owed < MaxOwed
    /\ owed' = IF watching THEN owed + 1 ELSE 0
    /\ late' = (late \/ owed > 0)
    /\ free' = IF pressed \/ free = 2 THEN free ELSE free + 1
    /\ span' = IF free' = 2 /\ ~pressed THEN 0 ELSE IF span * POLL_MS < need_ms THEN span + 1 ELSE span
    /\ UNCHANGED <<watching, held, pressed, readable>>

\* Mutant: a reading that fails leaves the time held as it is.
ReadReleasedKept ==
    /\ watching /\ owed > 0 /\ owed' = owed - 1
    /\ ~(pressed /\ readable)
    /\ held' = held
    /\ late' = (late /\ owed' > 0)
    /\ UNCHANGED <<watching, pressed, readable, free, span>>

\* Released, or not readable.
ReadReleased ==
    /\ watching /\ owed > 0 /\ owed' = owed - 1
    /\ ~(pressed /\ readable)
    /\ held' = 0
    /\ late' = (late /\ owed' > 0)
    /\ UNCHANGED <<watching, pressed, readable, free, span>>

\* Mutant: a long press counts from the start again.
ReadActiveAgain ==
    /\ watching /\ owed > 0 /\ owed' = owed - 1
    /\ pressed /\ readable
    /\ held' = (held + POLL_MS) % need_ms
    /\ watching' = (held' < need_ms)
    /\ UNCHANGED <<pressed, readable, free, span, late>>

\* The task ends with the reset, which module FactoryReset goes on with.
ReadActive ==
    /\ watching /\ owed > 0 /\ owed' = owed - 1
    /\ pressed /\ readable
    /\ held' = held + POLL_MS
    /\ watching' = (held' < need_ms)
    /\ UNCHANGED <<pressed, readable, free, span, late>>

\* The daemon ends, and is started again; the first reading is due at once.
ButtonStop ==
    /\ watching /\ watching' = FALSE /\ owed' = 0
    /\ UNCHANGED <<held, pressed, readable, free, span, late>>
ButtonStart ==
    /\ ~watching /\ watching' = TRUE
    /\ held' = 0 /\ owed' = 1 /\ late' = FALSE
    /\ UNCHANGED <<pressed, readable, free, span>>

ButtonNext == Press \/ Line \/ Tick \/ ReadReleased \/ ReadActive \/ ButtonStop \/ ButtonStart

\* Time passes, and the runtime runs a task that is ready.
ButtonSpec == ButtonInit /\ [][ButtonNext]_button_vars /\ WF_button_vars(Tick) /\ WF_button_vars(ReadReleased \/ ReadActive)

----------------------------------------------------------------------------
(* Properties.                                                             *)

\* "Holding it for reset_hold_secs performs the reset" (button.rs:3-5), and nothing less: as long
\* as no reading is late, the box is reset only if for that time, but for one poll, the button was
\* never up for two ticks.
ResetNeedsHold ==
    [][held' >= need_ms /\ held < need_ms => late \/ (span + 1) * POLL_MS >= need_ms]_button_vars

\* A button that is held and can be read resets the box in the end: it is not so for ever that the
\* task watches a button that is down.
HeldButtonResets == []<>~(watching /\ pressed /\ readable)

=============================================================================
