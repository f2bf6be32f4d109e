------------------------------ MODULE UiPanel ------------------------------
(***************************************************************************)
(* The panel of LEDs and buttons (observability/ui).  Selecting a button   *)
(* subscribes to its topic, once; the callback drives the button's line on *)
(* the thread of the transport, without the BQL.                           *)
(***************************************************************************)
EXTENDS Integers, Sequences

CONSTANTS
    Buttons,
    MaxPresses, \* bound: events of the buttons
    MaxLeds     \* bound: LED updates of the guest

VARIABLES
    rust_state, \* the backend: "none", "up", "gone"
    led_id, btn_id,
    buttons,    \* the map of the backend: buttons the guest has selected
    subs,       \* subscriptions, kept by the transport
    onway,      \* button |-> events on their way to its subscription
    line,       \* button |-> its interrupt line
    leds,       \* LED events published: <<led, on>>
    presses,    \* events made
    made,       \* history, button |-> its events since the guest selected it
    deaf        \* history: buttons whose subscription failed

qvars == <<rust_state, led_id, btn_id, buttons, subs, onway, line, leds, presses, made, deaf>>

QInit ==
    /\ rust_state = "none" /\ led_id = 0 /\ btn_id = 0 /\ buttons = {} /\ subs = {}
    /\ onway = [b \in Buttons |-> <<>>] /\ line = [b \in Buttons |-> FALSE]
    /\ leds = <<>> /\ presses = 0 /\ made = [b \in Buttons |-> <<>>] /\ deaf = {}

-----------------------------------------------------------------------------
\* ui_realize: nothing without a hub.
Realize ==
    /\ rust_state = "none" /\ rust_state' = "up"
    /\ UNCHANGED <<led_id, btn_id, buttons, subs, onway, line, leds, presses, made, deaf>>

\* ui_instance_finalize; the transport of the hub keeps the subscriptions.
Finalize ==
    /\ rust_state = "up" /\ rust_state' = "gone" /\ buttons' = {}
    /\ UNCHANGED <<led_id, btn_id, subs, onway, line, leds, presses, made, deaf>>

\* ui_write: REG_LED_ID, REG_LED_STATE (ui_set_led), REG_BTN_ID.
WriteLedId(l) ==
    /\ rust_state # "gone" /\ led_id' = l
    /\ UNCHANGED <<rust_state, btn_id, buttons, subs, onway, line, leds, presses, made, deaf>>
SetLed(on) ==
    /\ rust_state # "gone" /\ Len(leds) < MaxLeds
    /\ leds' = IF rust_state = "up" THEN Append(leds, <<led_id, on>>) ELSE leds
    /\ UNCHANGED <<rust_state, led_id, btn_id, buttons, subs, onway, line, presses, made, deaf>>

\* ui_ensure_button: the first selection of a button subscribes.  A subscription
\* that fails is not noticed: the button is entered all the same, so that no later
\* selection tries again.
EnsureButton(b) ==
    IF b \in buttons
    THEN UNCHANGED <<buttons, subs, deaf>>
    ELSE /\ buttons' = buttons \cup {b}
         /\ \/ subs' = subs \cup {b} /\ UNCHANGED deaf
            \/ deaf' = deaf \cup {b} /\ UNCHANGED subs
WriteBtnId(b) ==
    /\ rust_state # "gone" /\ btn_id' = b
    /\ IF rust_state = "up" THEN EnsureButton(b) ELSE UNCHANGED <<buttons, subs, deaf>>
    /\ UNCHANGED <<rust_state, led_id, onway, line, leds, presses, made>>

\* A button changes; only subscribed ones are heard.
Press(b, pressed) ==
    /\ presses < MaxPresses /\ presses' = presses + 1
    /\ onway' = IF b \in subs THEN [onway EXCEPT ![b] = Append(@, pressed)] ELSE onway
    /\ made' = IF b \in buttons THEN [made EXCEPT ![b] = Append(@, pressed)] ELSE made
    /\ UNCHANGED <<rust_state, led_id, btn_id, buttons, subs, line, leds, deaf>>

\* The callback, on the thread of the transport.  `pressed` of ButtonState is not
\* touched: REG_BTN_STATE always reads 0.
OnButton(b) ==
    /\ onway[b] # <<>>
    /\ line' = [line EXCEPT ![b] = Head(onway[b])]
    /\ onway' = [onway EXCEPT ![b] = Tail(@)]
    /\ UNCHANGED <<rust_state, led_id, btn_id, buttons, subs, leds, presses, made, deaf>>

QNext ==
    \/ Realize \/ Finalize \/ \E l \in Buttons : WriteLedId(l) \/ WriteBtnId(l) \/ OnButton(l)
    \/ \E on \in BOOLEAN : SetLed(on) \/ \E b \in Buttons : Press(b, on)

QSpec == QInit /\ [][QNext]_qvars

-----------------------------------------------------------------------------
\* While the device lives, every event of a button that the guest has selected
\* reaches its line, in order: the line stands where the last event that is no
\* longer on its way put it.  The exception is a button whose subscription failed,
\* of which the guest is not told.
LinesFollow ==
    rust_state = "up" =>
        \A b \in Buttons \ deaf :
            LET done == Len(made[b]) - Len(onway[b])
            IN done >= 0 /\ line[b] = (done > 0 /\ made[b][done])
=============================================================================
